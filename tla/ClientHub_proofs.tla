--------------------------- MODULE ClientHub_proofs ---------------------------
(***************************************************************************)
(* Proofs about ClientHub, for any clients, channels and grants, however   *)
(* often the broker fails.  TypeInv is the type invariant with what is     *)
(* known of the channel a command is about; Agreement is the inductive     *)
(* invariant from which HubAgrees, GhostOnlyIfRaced and NewsPaired follow; *)
(* InterestKept is inductive as it stands and gives the step simulation of *)
(* ChannelRegistry.                                                        *)
(***************************************************************************)
EXTENDS ClientHub, TLAPS

(* Zenon proves what no other prover is named for.                         *)
USE ZenonT(90)

(* A command about to subscribe or unsubscribe is about a channel, and     *)
(* what subscribeCmd can make of the name asked for is within the bound.   *)
Asked(c) ==
    /\ pc[c] \in {"subscribe", "subscribed", "unsubscribe"} => req[c] \in Names
    /\ pc[c] = "subscribe" => Resolve(c, req[c]) \subseteq Names

(* The types of what the proofs look at.                                   *)
Types ==
    /\ status \in [Clients -> {"connecting", "connected", "closed"}]
    /\ authenticated \in [Clients -> BOOLEAN] /\ failed \in [Clients -> BOOLEAN]
    /\ held \in [Clients -> SUBSET Names] /\ subscribed \in [Clients -> SUBSET Names]
    /\ pc \in [Clients -> {"read", "connecting", "checked", "auth", "subs", "reply", "trigger",
                           "subscribe", "subscribed", "unsubscribe", "drain", "exit"}]
    /\ req \in [Clients -> Names \cup {None}]
    /\ todo \in [Clients -> SUBSET Plain]
    /\ closing \in [Clients -> {"none", "unsub", "done"}]
    /\ snap \in [Clients -> SUBSET Names] /\ dropping \in [Clients -> Names \cup {None}]
    /\ wasConnected \in [Clients -> BOOLEAN] /\ raced \in [Clients -> BOOLEAN]
    /\ subs \subseteq Names \X Clients /\ jobs \in [Names -> Nat]
    /\ told \in [Clients -> {"nothing", "connect", "disconnect"}]

TypeInv == Types /\ \A c \in Clients : Asked(c)

Granted(c) == {Channel(<<b>>) : b \in Grants[c]}
InHub(c) == {n \in Names : <<n, c>> \in subs}

(* Facts that hold whether the client is open or not.  The last one pairs  *)
(* the news: a client announced and not yet taken back is connected, or    *)
(* its close() remembers that it was.                                      *)
Always(c) ==
    /\ subscribed[c] \subseteq held[c]
    /\ pc[c] = "subscribe" => req[c] \notin subscribed[c]
    /\ pc[c] = "auth" => authenticated[c]
    /\ failed[c] => pc[c] \in {"subs", "drain", "exit"}
    /\ status[c] = "closed" <=> closing[c] # "none"
    /\ told[c] = "connect" =>
         status[c] = "connected" \/ (closing[c] = "unsub" /\ wasConnected[c])

(* As long as the client is open, what the hub has of it is what its own   *)
(* table says, up to the channels its reader is adding or taking away.     *)
Open(c) ==
    status[c] # "closed" /\ ~failed[c] =>
        /\ pc[c] \in {"read", "connecting", "checked", "auth", "trigger", "subscribe", "drain", "exit"}
             => InHub(c) = subscribed[c]
        /\ pc[c] = "subs" => InHub(c) \cup todo[c] = subscribed[c] \cup Granted(c)
        /\ pc[c] = "reply" => InHub(c) = subscribed[c] \cup Granted(c)
        /\ pc[c] = "subscribed" => InHub(c) = subscribed[c] \cup {req[c]}
        /\ pc[c] = "unsubscribe" => InHub(c) \ {req[c]} = subscribed[c]
        /\ pc[c] # "auth" => (c \in conns <=> authenticated[c])

(* While and after close(), when it did not begin in the middle of a       *)
(* subscription: what the hub still has is what close() or the reader is   *)
(* going to remove.                                                        *)
Leaving(c) ==
    closing[c] # "none" /\ ~raced[c] /\ ~failed[c] =>
        /\ pc[c] \in {"read", "connecting", "trigger", "unsubscribe", "drain", "exit"}
        /\ \A n \in InHub(c) :
             \/ closing[c] = "unsub" /\ (n \in snap[c] \cap held[c] \/ n = dropping[c])
             \/ pc[c] = "unsubscribe" /\ n = req[c]
        /\ c \in conns => authenticated[c] /\ closing[c] = "unsub"

Agreement == \A c \in Clients : Always(c) /\ Open(c) /\ Leaving(c)
----------------------------------------------------------------------------
(* The names of channels.                                                  *)

(* The channels OnConnecting gives are names.                              *)
LEMMA PlainNames == Plain \subseteq Names
<1> SUFFICES ASSUME NEW b \in Bases PROVE Channel(<<b>>) \in Names
  BY DEF Plain
<1>1. <<b>> \in [1 .. 1 -> Bases \cup Subs]
  BY SMTT(90)
<1>2. <<b>> \in Paths
  BY <1>1, HubAssumption, SMTT(90) DEF Paths
<1> QED BY <1>2 DEF Names

(* So are the channels connectCmd subscribes a client to.                  *)
LEMMA GrantNames ==
    ASSUME NEW c \in Clients PROVE {Channel(<<b>>) : b \in Grants[c]} \in SUBSET Plain
  BY HubAssumption DEF Plain

(* Setting a flag of a client.                                             *)
LEMMA FlagSet ==
    ASSUME NEW f \in [Clients -> BOOLEAN], NEW c \in Clients, NEW b \in BOOLEAN
    PROVE  [f EXCEPT ![c] = b] \in [Clients -> BOOLEAN]
  OBVIOUS

(* A sequence is a function on the interval of its indices.                *)
LEMMA SeqIsFunction ==
    ASSUME NEW T, NEW q \in Seq(T), NEW n \in Nat, Len(q) = n
    PROVE  q \in [1 .. n -> T]
  BY SMTT(90)

(* A channel one part longer than another is a name, within the bound.     *)
LEMMA LongerNames ==
    ASSUME NEW p \in Paths, NEW s \in Subs, Len(Append(p, s)) <= MaxPath
    PROVE  Append(p, s) \in Paths
<1>1. PICK k \in 1 .. MaxPath :
        /\ p \in [1 .. k -> Bases \cup Subs] /\ p[1] \in Bases
        /\ \A i \in 2 .. k : p[i] \in Subs
  BY DEF Paths
<1>2. k \in Nat /\ k >= 1 /\ MaxPath \in Nat
  BY HubAssumption, SMTT(90)
<1>3. p \in Seq(Bases \cup Subs) /\ Len(p) = k
  BY <1>1, <1>2, SMTT(90)
<1>4. Len(Append(p, s)) = k + 1 /\ k + 1 \in 1 .. MaxPath
  BY <1>2, <1>3, SMTT(90)
<1>5. Append(p, s) \in [1 .. k + 1 -> Bases \cup Subs]
  <2>1. Append(p, s) \in Seq(Bases \cup Subs)
    BY <1>3, SMTT(90)
  <2>2. k + 1 \in Nat
    BY <1>2, SMTT(90)
  <2>3. Len(Append(p, s)) = k + 1
    BY <1>4
  <2> QED BY <2>1, <2>2, <2>3, SeqIsFunction
<1>6. Append(p, s)[1] \in Bases /\ \A i \in 2 .. k + 1 : Append(p, s)[i] \in Subs
  BY <1>1, <1>2, <1>3, SMTT(90)
<1> DEFINE q == Append(p, s)
           n == k + 1
<1>7. q \in {r \in [1 .. n -> Bases \cup Subs] : r[1] \in Bases /\ \A i \in 2 .. n : r[i] \in Subs}
  BY <1>5, <1>6
<1>8. n \in 1 .. MaxPath
  BY <1>4
<1> HIDE DEF q, n
<1>9. q \in Paths
  BY <1>7, <1>8 DEF Paths
<1> QED BY <1>9 DEF q

(* What subscribeCmd makes of a name is a name, within the bound.          *)
LEMMA ResolvedNames ==
    ASSUME NEW c \in Clients, held[c] \subseteq Names, NEW n \in Plain \cup Asks,
           \A m \in Resolve(c, n) : Len(m.path) <= MaxPath
    PROVE  Resolve(c, n) \subseteq Names
<1>1. CASE n \in Plain
  BY <1>1, PlainNames, SMTT(90) DEF Resolve, Plain, Channel
<1>2. CASE n \in Asks
  <2>1. PICK b \in Bases, s \in Subs : n = Ask(b, s)
    BY <1>2, SMTT(90) DEF Asks
  <2>2. ~n.channel /\ n.path[2] = s
    BY <2>1 DEF Ask
  <2> SUFFICES ASSUME NEW k \in Prefixes(c, n) PROVE Channel(Append(k.path, s)) \in Names
    BY <2>2 DEF Resolve
  <2>3. PICK p \in Paths : k = Channel(p)
    BY SMTT(90) DEF Prefixes, Names, Asks, Ask
  <2>4. k.path = p
    BY <2>3 DEF Channel
  <2>5. Channel(Append(p, s)) \in Resolve(c, n)
    BY <2>2, <2>4 DEF Resolve
  <2>6. Len(Append(p, s)) <= MaxPath
    BY <2>5 DEF Channel
  <2> QED BY <2>4, <2>6, LongerNames DEF Names
<1> QED BY <1>1, <1>2
----------------------------------------------------------------------------
(* Types.                                                                  *)

(* A step of a client: of its reader, its timer, its writer or its close().*)
Step(c) == Command(c) \/ Serve(c) \/ CloseStale(c) \/ WriteError(c) \/ Close(c)

(* The two ways subscribeCmd goes: the channel is subscribed to, or        *)
(* onSubscribeError takes the placeholder back.                            *)
Subscribes(c) ==
    \E n \in Resolve(c, req[c]) :
        /\ addSubscription(n, c)
        /\ req' = [req EXCEPT ![c] = n]
        /\ Goto(c, "subscribed")
        /\ UNCHANGED held
GivesUp(c) == onSubscribeError(c, req[c]) /\ Goto(c, "read") /\ UNCHANGED req

(* Every step of a client keeps the types.                                 *)
LEMMA TypesStep ==
    ASSUME Types, NEW c \in Clients, Asked(c), Step(c) PROVE Types'
<1> USE DEF Types, hub, reader, closer
<1>1. ASSUME HandleConnect(c) PROVE Types'
  BY <1>1 DEF HandleConnect, Goto
<1>2. ASSUME BadCommand(c) PROVE Types'
  BY <1>2 DEF BadCommand, Goto
<1>3. ASSUME ReaderExit(c) PROVE Types'
  BY <1>3 DEF ReaderExit, Goto
<1>4. ASSUME ConnectingError(c) PROVE Types'
  BY <1>4 DEF ConnectingError, Goto
<1>5. ASSUME ConnectingReply(c) PROVE Types'
  BY <1>5 DEF ConnectingReply, Goto
<1>6. ASSUME Authenticate(c) PROVE Types'
  BY <1>6 DEF Authenticate, Goto
<1>7. ASSUME AddClient(c) PROVE Types'
  <2>1. Granted(c) \in SUBSET Plain
    BY GrantNames DEF Granted
  <2>2. /\ todo' = [todo EXCEPT ![c] = Granted(c)] /\ pc' = [pc EXCEPT ![c] = "subs"]
        /\ UNCHANGED <<status, authenticated, held, subscribed, req, failed, closer, subs, jobs,
                       told, raced>>
    BY <1>7 DEF AddClient, Goto, Granted
  <2> QED BY <2>1, <2>2
<1>8. ASSUME NEW n \in Names, ServerSubscribe(c, n) PROVE Types'
  <2>1. subs' \subseteq Names \X Clients
    BY <1>8, SMTT(90) DEF ServerSubscribe, addSubscription
  <2>2. jobs' = jobs /\ todo' \in [Clients -> SUBSET Plain]
    BY <1>8 DEF ServerSubscribe, addSubscription
  <2>3. failed' \in [Clients -> BOOLEAN]
    BY <1>8 DEF ServerSubscribe
  <2> QED BY <1>8, <2>1, <2>2, <2>3 DEF ServerSubscribe
<1>9. ASSUME ServerSubscribed(c) PROVE Types'
  BY <1>9 DEF ServerSubscribed, Goto
<1>10. ASSUME ConnectReply(c) PROVE Types'
  <2>1. Granted(c) \in SUBSET Names
    BY GrantNames, PlainNames DEF Granted
  <2>2. /\ held' = [held EXCEPT ![c] = @ \cup Granted(c)]
        /\ subscribed' = [subscribed EXCEPT ![c] = @ \cup Granted(c)]
        /\ pc' = [pc EXCEPT ![c] = "trigger"]
        /\ UNCHANGED <<status, authenticated, req, todo, failed, closer, subs, jobs, told, raced>>
    BY <1>10 DEF ConnectReply, Goto, Granted
  <2> QED BY <2>1, <2>2
<1>11. ASSUME TriggerConnect(c) PROVE Types'
  BY <1>11 DEF TriggerConnect, Goto
<1>12. ASSUME NEW n \in Plain \cup Asks, HandleSubscribe(c, n) PROVE Types'
  <2>1. n \in Names
    BY PlainNames DEF Names
  <2>2. /\ \/ UNCHANGED <<held, req, pc>>
           \/ /\ held' = [held EXCEPT ![c] = @ \cup {n}] /\ req' = [req EXCEPT ![c] = n]
              /\ pc' = [pc EXCEPT ![c] = "subscribe"]
        /\ UNCHANGED <<status, authenticated, subscribed, todo, failed, closer, subs, jobs,
                       told, raced>>
    BY <1>12 DEF HandleSubscribe, Goto
  <2> QED BY <2>1, <2>2, SMTT(90)
<1>13. ASSUME SubscribeCmd(c) PROVE Types'
  <2>1. req[c] \in Names /\ Resolve(c, req[c]) \subseteq Names
    BY <1>13 DEF SubscribeCmd, Asked
  <2>2. CASE Subscribes(c)
    <3>1. PICK n \in Names : addSubscription(n, c) /\ req' = [req EXCEPT ![c] = n]
      BY <2>1, <2>2 DEF Subscribes
    <3>2. subs' \subseteq Names \X Clients /\ req' \in [Clients -> Names \cup {None}] /\ jobs' = jobs
      BY <3>1, SMTT(90) DEF addSubscription
    <3> QED BY <1>13, <2>2, <3>2 DEF SubscribeCmd, Subscribes, Goto
  <2>3. CASE GivesUp(c)
    <3>1. held' \in [Clients -> SUBSET Names]
      BY <2>3 DEF GivesUp, onSubscribeError
    <3>2. subs' \subseteq Names \X Clients /\ jobs' \in [Names -> Nat]
      BY <2>1, <2>3, SMTT(90) DEF GivesUp, onSubscribeError, removeSubscription
    <3> QED BY <1>13, <2>3, <3>1, <3>2 DEF SubscribeCmd, GivesUp, Goto
  <2> QED BY <1>13, <2>2, <2>3 DEF SubscribeCmd, Subscribes, GivesUp
<1>14. ASSUME SubscribeReply(c) PROVE Types'
  <2>1. req[c] \in Names
    BY <1>14 DEF SubscribeReply, Asked
  <2> QED BY <1>14, <2>1 DEF SubscribeReply, Goto
<1>15. ASSUME NEW n \in Names, HandleUnsubscribe(c, n) PROVE Types'
  BY <1>15 DEF HandleUnsubscribe, Goto
<1>16. ASSUME Unsubscribe(c) PROVE Types'
  <2>1. req[c] \in Names
    BY <1>16 DEF Unsubscribe, Asked
  <2>2. jobs' \in [Names -> Nat] /\ subs' \subseteq Names \X Clients
    BY <1>16, <2>1, SMTT(90) DEF Unsubscribe, removeSubscription
  <2> QED BY <1>16, <2>2 DEF Unsubscribe, Goto
<1>17. ASSUME CloseStale(c) PROVE Types'
  BY <1>17 DEF CloseStale
<1>18. ASSUME WriteError(c) PROVE Types'
  BY <1>18 DEF WriteError
<1>19. ASSUME CloseBegin(c) PROVE Types'
  <2>1. CASE status[c] = "closed"
    BY <1>19, <2>1 DEF CloseBegin
  <2>2. CASE status[c] # "closed"
    <3>1. (status[c] = "connected") \in BOOLEAN /\ HalfMade(c) \in BOOLEAN
      BY SMTT(90) DEF HalfMade
    <3>2. wasConnected' \in [Clients -> BOOLEAN] /\ raced' \in [Clients -> BOOLEAN]
      <4>1. /\ wasConnected' = [wasConnected EXCEPT ![c] = (status[c] = "connected")]
            /\ raced' = [raced EXCEPT ![c] = HalfMade(c)]
        BY <1>19, <2>2 DEF CloseBegin
      <4> QED BY <3>1, <4>1, FlagSet
    <3>3. /\ status' \in [Clients -> {"connecting", "connected", "closed"}]
          /\ closing' \in [Clients -> {"none", "unsub", "done"}] /\ snap' \in [Clients -> SUBSET Names]
      BY <1>19, <2>2, SMTT(90) DEF CloseBegin
    <3>4. UNCHANGED <<authenticated, held, subscribed, reader, dropping, hub, told>>
      BY <1>19, <2>2 DEF CloseBegin
    <3> QED BY <3>2, <3>3, <3>4
  <2> QED BY <2>1, <2>2
<1>20. ASSUME NEW n \in Names, CloseDelete(c, n) PROVE Types'
  BY <1>20 DEF CloseDelete
<1>21. ASSUME CloseRemove(c) PROVE Types'
  <2>1. dropping[c] \in Names
    BY <1>21 DEF CloseRemove
  <2>2. jobs' \in [Names -> Nat] /\ subs' \subseteq Names \X Clients
    BY <1>21, <2>1, SMTT(90) DEF CloseRemove, removeSubscription
  <2> QED BY <1>21, <2>2 DEF CloseRemove
<1>22. ASSUME CloseEnd(c) PROVE Types'
  BY <1>22 DEF CloseEnd
<1> HIDE DEF Types, hub, reader, closer
<1> QED
  BY <1>1, <1>2, <1>3, <1>4, <1>5, <1>6, <1>7, <1>8, <1>9, <1>10, <1>11, <1>12, <1>13,
     <1>14, <1>15, <1>16, <1>17, <1>18, <1>19, <1>20, <1>21, <1>22
  DEF Step, Command, Serve, Close

(* A step that touches nothing of a client, nor what the hub has of it.    *)
Same(d) ==
    /\ status'[d] = status[d] /\ authenticated'[d] = authenticated[d] /\ failed'[d] = failed[d]
    /\ held'[d] = held[d] /\ subscribed'[d] = subscribed[d] /\ pc'[d] = pc[d] /\ req'[d] = req[d]
    /\ todo'[d] = todo[d] /\ closing'[d] = closing[d] /\ snap'[d] = snap[d]
    /\ dropping'[d] = dropping[d] /\ wasConnected'[d] = wasConnected[d] /\ told'[d] = told[d]
    /\ raced'[d] = raced[d]
    /\ d \in conns' <=> d \in conns
    /\ InHub(d)' = InHub(d)

(* addSubscription adds the channel to what the hub has of the client.     *)
LEMMA HubAdds ==
    ASSUME NEW n \in Names, NEW c \in Clients, addSubscription(n, c)
    PROVE  /\ InHub(c)' = InHub(c) \cup {n} /\ \A d \in Clients \ {c} : InHub(d)' = InHub(d)
           /\ conns' = conns
  BY DEF addSubscription, InHub

(* removeSubscription takes it away.                                       *)
LEMMA HubRemoves ==
    ASSUME NEW n \in Names, NEW c \in Clients, removeSubscription(n, c)
    PROVE  /\ InHub(c)' = InHub(c) \ {n} /\ \A d \in Clients \ {c} : InHub(d)' = InHub(d)
           /\ conns' = conns
  BY DEF removeSubscription, InHub

(* Without a change of the subscriptions the hub has of every client what  *)
(* it had.                                                                 *)
LEMMA HubStays == ASSUME UNCHANGED subs PROVE \A d \in Clients : InHub(d)' = InHub(d)
  BY DEF InHub

(* A step of a client touches no other client.                             *)
LEMMA Others ==
    ASSUME Types, NEW c \in Clients, Asked(c), Step(c), NEW d \in Clients, d # c PROVE Same(d)
<1> USE DEF Types, hub, reader, closer
<1>1. ASSUME HandleConnect(c) PROVE Same(d)
  BY <1>1, HubStays DEF HandleConnect, Goto, Same
<1>2. ASSUME BadCommand(c) PROVE Same(d)
  BY <1>2, HubStays DEF BadCommand, Goto, Same
<1>3. ASSUME ReaderExit(c) PROVE Same(d)
  BY <1>3, HubStays DEF ReaderExit, Goto, Same
<1>4. ASSUME ConnectingError(c) PROVE Same(d)
  BY <1>4, HubStays DEF ConnectingError, Goto, Same
<1>5. ASSUME ConnectingReply(c) PROVE Same(d)
  BY <1>5, HubStays DEF ConnectingReply, Goto, Same
<1>6. ASSUME Authenticate(c) PROVE Same(d)
  BY <1>6, HubStays DEF Authenticate, Goto, Same
<1>7. ASSUME AddClient(c) PROVE Same(d)
  <2>1. /\ todo' = [todo EXCEPT ![c] = Granted(c)] /\ pc' = [pc EXCEPT ![c] = "subs"]
        /\ conns' = conns \cup {c}
        /\ UNCHANGED <<status, authenticated, held, subscribed, req, failed, closer, subs, told, raced>>
    BY <1>7 DEF AddClient, Goto, Granted
  <2> QED BY <2>1, HubStays DEF Same
<1>8. ASSUME NEW n \in Names, ServerSubscribe(c, n) PROVE Same(d)
  <2>1. InHub(d)' = InHub(d) /\ conns' = conns
    BY <1>8, HubAdds, HubStays DEF ServerSubscribe
  <2>2. failed'[d] = failed[d] /\ todo'[d] = todo[d]
    BY <1>8 DEF ServerSubscribe
  <2> QED BY <1>8, <2>1, <2>2 DEF ServerSubscribe, Same
<1>9. ASSUME ServerSubscribed(c) PROVE Same(d)
  BY <1>9, HubStays DEF ServerSubscribed, Goto, Same
<1>10. ASSUME ConnectReply(c) PROVE Same(d)
  <2>1. /\ held' = [held EXCEPT ![c] = @ \cup Granted(c)]
        /\ subscribed' = [subscribed EXCEPT ![c] = @ \cup Granted(c)]
        /\ pc' = [pc EXCEPT ![c] = "trigger"]
        /\ UNCHANGED <<status, authenticated, req, todo, failed, closer, conns, subs, told, raced>>
    BY <1>10 DEF ConnectReply, Goto, Granted
  <2> QED BY <2>1, HubStays DEF Same
<1>11. ASSUME TriggerConnect(c) PROVE Same(d)
  BY <1>11, HubStays DEF TriggerConnect, Goto, Same
<1>12. ASSUME NEW n \in Plain \cup Asks, HandleSubscribe(c, n) PROVE Same(d)
  <2>1. /\ \/ UNCHANGED <<held, req, pc>>
           \/ /\ held' = [held EXCEPT ![c] = @ \cup {n}] /\ req' = [req EXCEPT ![c] = n]
              /\ pc' = [pc EXCEPT ![c] = "subscribe"]
        /\ UNCHANGED <<status, authenticated, subscribed, todo, failed, closer, conns, subs,
                       told, raced>>
    BY <1>12 DEF HandleSubscribe, Goto
  <2> QED BY <2>1, HubStays DEF Same
<1>13. ASSUME SubscribeCmd(c) PROVE Same(d)
  <2>1. req[c] \in Names /\ Resolve(c, req[c]) \subseteq Names
    BY <1>13 DEF SubscribeCmd, Asked
  <2>2. UNCHANGED <<status, authenticated, subscribed, todo, failed, closer, told, raced>>
    BY <1>13 DEF SubscribeCmd
  <2>3. CASE Subscribes(c)
    <3>1. InHub(d)' = InHub(d) /\ conns' = conns
      BY <2>1, <2>3, HubAdds DEF Subscribes
    <3>2. req'[d] = req[d] /\ pc'[d] = pc[d] /\ held' = held
      BY <2>3 DEF Subscribes, Goto
    <3> QED BY <2>2, <3>1, <3>2 DEF Same
  <2>4. CASE GivesUp(c)
    <3>1. InHub(d)' = InHub(d) /\ conns' = conns
      BY <2>1, <2>4, HubRemoves, HubStays DEF GivesUp, onSubscribeError
    <3>2. held'[d] = held[d] /\ pc'[d] = pc[d] /\ req' = req
      BY <2>4 DEF GivesUp, onSubscribeError, Goto
    <3> QED BY <2>2, <3>1, <3>2 DEF Same
  <2> QED BY <1>13, <2>3, <2>4 DEF SubscribeCmd, Subscribes, GivesUp
<1>14. ASSUME SubscribeReply(c) PROVE Same(d)
  BY <1>14, HubStays DEF SubscribeReply, Goto, Same
<1>15. ASSUME NEW n \in Names, HandleUnsubscribe(c, n) PROVE Same(d)
  BY <1>15, HubStays DEF HandleUnsubscribe, Goto, Same
<1>16. ASSUME Unsubscribe(c) PROVE Same(d)
  <2>1. req[c] \in Names
    BY <1>16 DEF Unsubscribe, Asked
  <2>2. InHub(d)' = InHub(d) /\ conns' = conns
    BY <1>16, <2>1, HubRemoves DEF Unsubscribe
  <2> QED BY <1>16, <2>2 DEF Unsubscribe, Goto, Same
<1>17. ASSUME CloseStale(c) PROVE Same(d)
  BY <1>17, HubStays DEF CloseStale, Same
<1>18. ASSUME WriteError(c) PROVE Same(d)
  BY <1>18, HubStays DEF WriteError, Same
<1>19. ASSUME CloseBegin(c) PROVE Same(d)
  BY <1>19, HubStays, SMTT(90) DEF CloseBegin, Same
<1>20. ASSUME NEW n \in Names, CloseDelete(c, n) PROVE Same(d)
  BY <1>20, HubStays DEF CloseDelete, Same
<1>21. ASSUME CloseRemove(c) PROVE Same(d)
  <2>1. dropping[c] \in Names
    BY <1>21 DEF CloseRemove
  <2>2. InHub(d)' = InHub(d) /\ conns' = conns
    BY <1>21, <2>1, HubRemoves DEF CloseRemove
  <2> QED BY <1>21, <2>2 DEF CloseRemove, Same
<1>22. ASSUME CloseEnd(c) PROVE Same(d)
  BY <1>22, HubStays DEF CloseEnd, Same
<1> HIDE DEF Types, hub, reader, closer
<1> QED
  BY <1>1, <1>2, <1>3, <1>4, <1>5, <1>6, <1>7, <1>8, <1>9, <1>10, <1>11, <1>12, <1>13,
     <1>14, <1>15, <1>16, <1>17, <1>18, <1>19, <1>20, <1>21, <1>22
  DEF Step, Command, Serve, Close

(* A job of the dissolver touches no client.                               *)
LEMMA JobsAside ==
    ASSUME (\E n \in Names : DissolverJob(n)) \/ UNCHANGED vars, NEW d \in Clients PROVE Same(d)
<1>1. UNCHANGED <<status, authenticated, failed, held, subscribed, pc, req, todo, closing, snap,
                  dropping, wasConnected, told, raced, conns, subs>>
  BY DEF DissolverJob, vars, hub, reader, closer
<1> QED BY <1>1, HubStays DEF Same

(* What is asked for stays known while nothing it is read from changes.    *)
LEMMA AskedKept ==
    ASSUME NEW d \in Clients, Asked(d), pc'[d] = pc[d], req'[d] = req[d], held'[d] = held[d]
    PROVE  Asked(d)'
  BY DEF Asked, Resolve, Prefixes

(* Nothing is to be known when no such command is on.                      *)
LEMMA AskedIdle ==
    ASSUME NEW d \in Clients, pc'[d] \notin {"subscribe", "subscribed", "unsubscribe"}
    PROVE  Asked(d)'
  BY DEF Asked

(* A step of a client keeps what is known of the channel its command is    *)
(* about.                                                                  *)
LEMMA AskedStep == ASSUME Types, NEW c \in Clients, Asked(c), Step(c) PROVE Asked(c)'
<1> USE DEF Types
<1>1. ASSUME HandleConnect(c) PROVE Asked(c)'
  BY <1>1, AskedIdle DEF HandleConnect, Goto
<1>2. ASSUME BadCommand(c) PROVE Asked(c)'
  BY <1>2, AskedIdle DEF BadCommand, Goto
<1>3. ASSUME ReaderExit(c) PROVE Asked(c)'
  BY <1>3, AskedIdle DEF ReaderExit, Goto
<1>4. ASSUME ConnectingError(c) PROVE Asked(c)'
  BY <1>4, AskedIdle DEF ConnectingError, Goto
<1>5. ASSUME ConnectingReply(c) PROVE Asked(c)'
  BY <1>5, AskedIdle DEF ConnectingReply, Goto
<1>6. ASSUME Authenticate(c) PROVE Asked(c)'
  BY <1>6, AskedIdle DEF Authenticate, Goto
<1>7. ASSUME AddClient(c) PROVE Asked(c)'
  <2>1. pc' = [pc EXCEPT ![c] = "subs"]
    BY <1>7 DEF AddClient, Goto
  <2> QED BY <2>1, AskedIdle
<1>8. ASSUME NEW n \in Names, ServerSubscribe(c, n) PROVE Asked(c)'
  BY <1>8, AskedIdle DEF ServerSubscribe
<1>9. ASSUME ServerSubscribed(c) PROVE Asked(c)'
  BY <1>9, AskedIdle DEF ServerSubscribed, Goto
<1>10. ASSUME ConnectReply(c) PROVE Asked(c)'
  <2>1. pc' = [pc EXCEPT ![c] = "trigger"]
    BY <1>10 DEF ConnectReply, Goto
  <2> QED BY <2>1, AskedIdle
<1>11. ASSUME TriggerConnect(c) PROVE Asked(c)'
  BY <1>11, AskedIdle DEF TriggerConnect, Goto
<1>12. ASSUME NEW n \in Plain \cup Asks, HandleSubscribe(c, n) PROVE Asked(c)'
  <2>1. CASE n \in held[c]
    <3>1. UNCHANGED <<held, pc, req>>
      BY <1>12, <2>1 DEF HandleSubscribe
    <3> QED BY <3>1, AskedKept
  <2>2. CASE n \notin held[c]
    <3>1. n \in Names
      BY PlainNames DEF Names
    <3>2. held[c] \subseteq Names /\ \A m \in Resolve(c, n) : Len(m.path) <= MaxPath
      BY <1>12 DEF HandleSubscribe
    <3>3. Resolve(c, n) \subseteq Names
      BY <3>2, ResolvedNames
    <3>4. /\ held' = [held EXCEPT ![c] = @ \cup {n}] /\ req' = [req EXCEPT ![c] = n]
          /\ pc' = [pc EXCEPT ![c] = "subscribe"]
      BY <1>12, <2>2 DEF HandleSubscribe, Goto
    <3>5. held'[c] = held[c] \cup {n} /\ req'[c] = n /\ pc'[c] = "subscribe"
      BY <3>4
    <3> HIDE DEF Types
    <3>6. Resolve(c, n)' = Resolve(c, n)
      <4>1. CASE n \in Plain
        BY <4>1, SMTT(90) DEF Resolve, Plain, Channel
      <4>2. CASE n \in Asks
        <5>1. ~n.channel
          BY <4>2, SMTT(90) DEF Asks, Ask
        <5>2. Prefixes(c, n)' = Prefixes(c, n)
          BY <3>5, <5>1 DEF Prefixes
        <5> QED BY <5>2 DEF Resolve
      <4> QED BY <4>1, <4>2
    <3>7. Resolve(c, req[c])' = Resolve(c, n)
      BY <3>5, <3>6 DEF Resolve, Prefixes
    <3> QED BY <3>1, <3>3, <3>5, <3>7 DEF Asked
  <2> QED BY <2>1, <2>2
<1>13. ASSUME SubscribeCmd(c) PROVE Asked(c)'
  <2>1. Resolve(c, req[c]) \subseteq Names
    BY <1>13 DEF SubscribeCmd, Asked
  <2>2. CASE Subscribes(c)
    <3>1. PICK n \in Names : req' = [req EXCEPT ![c] = n] /\ pc' = [pc EXCEPT ![c] = "subscribed"]
      BY <2>1, <2>2 DEF Subscribes, Goto
    <3> QED BY <3>1 DEF Asked
  <2>3. CASE GivesUp(c)
    BY <2>3, AskedIdle DEF GivesUp, Goto
  <2> QED BY <1>13, <2>2, <2>3 DEF SubscribeCmd, Subscribes, GivesUp
<1>14. ASSUME SubscribeReply(c) PROVE Asked(c)'
  BY <1>14, AskedIdle DEF SubscribeReply, Goto
<1>15. ASSUME NEW n \in Names, HandleUnsubscribe(c, n) PROVE Asked(c)'
  BY <1>15 DEF HandleUnsubscribe, Goto, Asked
<1>16. ASSUME Unsubscribe(c) PROVE Asked(c)'
  BY <1>16, AskedIdle DEF Unsubscribe, Goto
<1>17. ASSUME CloseStale(c) PROVE Asked(c)'
  BY <1>17, AskedKept DEF CloseStale, reader
<1>18. ASSUME WriteError(c) PROVE Asked(c)'
  BY <1>18, AskedKept DEF WriteError, reader
<1>19. ASSUME CloseBegin(c) PROVE Asked(c)'
  BY <1>19, AskedKept DEF CloseBegin, reader
<1>20. ASSUME NEW n \in Names, CloseDelete(c, n) PROVE Asked(c)'
  <2>1. held'[c] = held[c] \ {n} /\ pc'[c] = pc[c] /\ req'[c] = req[c]
    BY <1>20 DEF CloseDelete, reader
  <2>2. Prefixes(c, req[c])' \subseteq Prefixes(c, req[c])
    BY <2>1 DEF Prefixes
  <2>3. Resolve(c, req[c])' \subseteq Resolve(c, req[c])
    BY <2>1, <2>2, SMTT(90) DEF Resolve
  <2> QED BY <2>1, <2>3 DEF Asked
<1>21. ASSUME CloseRemove(c) PROVE Asked(c)'
  BY <1>21, AskedKept DEF CloseRemove, reader
<1>22. ASSUME CloseEnd(c) PROVE Asked(c)'
  BY <1>22, AskedKept DEF CloseEnd, reader
<1> HIDE DEF Types
<1> QED
  BY <1>1, <1>2, <1>3, <1>4, <1>5, <1>6, <1>7, <1>8, <1>9, <1>10, <1>11, <1>12, <1>13,
     <1>14, <1>15, <1>16, <1>17, <1>18, <1>19, <1>20, <1>21, <1>22
  DEF Step, Command, Serve, Close

(* Every step keeps the type invariant.                                    *)
LEMMA TypeStep == ASSUME TypeInv, [Next]_vars PROVE TypeInv'
<1>1. Types /\ \A d \in Clients : Asked(d)
  BY DEF TypeInv
<1>2. ASSUME NEW c \in Clients, Step(c) PROVE TypeInv'
  <2>1. Types'
    BY <1>1, <1>2, TypesStep
  <2>2. Asked(c)'
    BY <1>1, <1>2, AskedStep
  <2>3. ASSUME NEW d \in Clients, d # c PROVE Asked(d)'
    <3>1. Same(d)
      BY <1>1, <1>2, <2>3, Others
    <3> QED BY <1>1, <3>1, AskedKept DEF Same
  <2> QED BY <2>1, <2>2, <2>3 DEF TypeInv
<1>3. CASE (\E n \in Names : DissolverJob(n)) \/ UNCHANGED vars
  <2>1. Types'
    <3>1. CASE UNCHANGED vars
      BY <1>1, <3>1 DEF vars, hub, reader, closer, Types
    <3>2. ASSUME NEW n \in Names, DissolverJob(n) PROVE Types'
      <4>1. jobs' = jobs \/ (jobs[n] > 0 /\ jobs' = [jobs EXCEPT ![n] = @ - 1])
        BY <3>2 DEF DissolverJob
      <4>2. jobs \in [Names -> Nat]
        BY <1>1 DEF Types
      <4>3. jobs' \in [Names -> Nat]
        BY <4>1, <4>2, SMTT(90)
      <4> QED BY <1>1, <3>2, <4>3 DEF DissolverJob, reader, closer, Types
    <3> QED BY <1>3, <3>1, <3>2
  <2>2. ASSUME NEW d \in Clients PROVE Asked(d)'
    BY <1>1, <1>3, JobsAside, AskedKept DEF Same
  <2> QED BY <2>1, <2>2 DEF TypeInv
<1> QED BY <1>2, <1>3 DEF Next, Step
----------------------------------------------------------------------------
(* The hub and the client.                                                 *)

(* The value of req and dropping that stands for no channel is not a       *)
(* channel.                                                                *)
LEMMA NoneIsNoName == None \notin Names
<1>1. \A p \in Paths : p # <<>>
  BY SMTT(90) DEF Paths
<1>2. \A p \in Paths : Channel(p) # None
  BY <1>1 DEF Channel, None
<1>3. \A n \in Asks : n # None
  <2> SUFFICES ASSUME NEW b, NEW t PROVE Ask(b, t) # None
    BY SMTT(90) DEF Asks
  <2>1. Len(<<b, t>>) = 2 /\ Len(<<>>) = 0
    OBVIOUS
  <2>2. Ask(b, t).path = <<b, t>> /\ None.path = <<>>
    BY DEF Ask, None
  <2> QED BY <2>1, <2>2, SMTT(90)
<1> QED BY <1>2, <1>3 DEF Names

(* A step that does not touch a client keeps what is known of it.          *)
LEMMA Untouched ==
    ASSUME NEW d \in Clients, Always(d) /\ Open(d) /\ Leaving(d), Same(d)
    PROVE  Always(d)' /\ Open(d)' /\ Leaving(d)'
<1>1. Always(d)'
  BY DEF Same, Always
<1>2. Granted(d)' = Granted(d)
  BY DEF Granted
<1>3. Open(d)'
  BY <1>2 DEF Same, Open
<1>4. Leaving(d)'
  BY DEF Same, Leaving
<1> QED BY <1>1, <1>3, <1>4

(* A step of the reader that only moves on, between commands or to its     *)
(* end: nothing else of the client changes.                                *)
Moves(c) ==
    /\ status'[c] = status[c] /\ authenticated'[c] = authenticated[c] /\ failed'[c] = failed[c]
    /\ subscribed'[c] = subscribed[c] /\ held'[c] = held[c] /\ closing'[c] = closing[c]
    /\ snap'[c] = snap[c] /\ dropping'[c] = dropping[c] /\ wasConnected'[c] = wasConnected[c]
    /\ told'[c] = told[c] /\ raced'[c] = raced[c]
    /\ c \in conns' <=> c \in conns
    /\ InHub(c)' = InHub(c)
    /\ \/ pc[c] = "read" /\ pc'[c] \in {"connecting", "drain", "exit"}
       \/ pc[c] = "connecting" /\ pc'[c] = "drain"
       \/ pc[c] = "connecting" /\ pc'[c] = "checked" /\ status[c] # "closed"
       \/ pc[c] = "drain" /\ pc'[c] = "exit"

(* Such a step keeps what is known of the client.                          *)
LEMMA Moved ==
    ASSUME NEW c \in Clients, Always(c), Open(c), Leaving(c), Moves(c)
    PROVE  Always(c)' /\ Open(c)' /\ Leaving(c)'
<1>1. Always(c)'
  BY DEF Always, Moves
<1>2. Open(c)'
  BY DEF Always, Open, Moves
<1>3. Leaving(c)'
  BY DEF Always, Leaving, Moves
<1> QED BY <1>1, <1>2, <1>3

(* A step of a client keeps what is known of it.  For each action first    *)
(* the values it leaves, then the three parts.                             *)
LEMMA ClientStep ==
    ASSUME Types, NEW c \in Clients, Asked(c), Step(c), Always(c), Open(c), Leaving(c)
    PROVE  Always(c)' /\ Open(c)' /\ Leaving(c)'
<1>0. Granted(c)' = Granted(c)
  BY DEF Granted
<1>1. ASSUME HandleConnect(c) PROVE Always(c)' /\ Open(c)' /\ Leaving(c)'
  <2>1. Moves(c)
    BY <1>1, HubStays DEF Types, HandleConnect, Goto, Moves, hub, closer
  <2> QED BY <2>1, Moved
<1>2. ASSUME BadCommand(c) PROVE Always(c)' /\ Open(c)' /\ Leaving(c)'
  <2>1. Moves(c)
    BY <1>2, HubStays DEF Types, BadCommand, Goto, Moves, hub, closer
  <2> QED BY <2>1, Moved
<1>3. ASSUME ReaderExit(c) PROVE Always(c)' /\ Open(c)' /\ Leaving(c)'
  <2>1. Moves(c)
    BY <1>3, HubStays DEF Types, ReaderExit, Goto, Moves, hub, closer
  <2> QED BY <2>1, Moved
<1>4. ASSUME ConnectingError(c) PROVE Always(c)' /\ Open(c)' /\ Leaving(c)'
  <2>1. Moves(c)
    BY <1>4, HubStays DEF Types, ConnectingError, Goto, Moves, hub, closer
  <2> QED BY <2>1, Moved
<1>5. ASSUME ConnectingReply(c) PROVE Always(c)' /\ Open(c)' /\ Leaving(c)'
  <2>1. Moves(c)
    BY <1>5, HubStays DEF Types, ConnectingReply, Goto, Moves, hub, closer
  <2> QED BY <2>1, Moved
<1>6. ASSUME Authenticate(c) PROVE Always(c)' /\ Open(c)' /\ Leaving(c)'
  <2>1. /\ pc'[c] = "auth" /\ authenticated'[c] = TRUE
        /\ pc[c] = "checked"
        /\ status'[c] = status[c] /\ failed'[c] = failed[c] /\ held'[c] = held[c]
        /\ subscribed'[c] = subscribed[c] /\ req'[c] = req[c] /\ todo'[c] = todo[c]
        /\ closing'[c] = closing[c] /\ snap'[c] = snap[c] /\ dropping'[c] = dropping[c]
        /\ wasConnected'[c] = wasConnected[c] /\ told'[c] = told[c]
        /\ raced'[c] = raced[c]
        /\ InHub(c)' = InHub(c)
        /\ c \in conns' <=> c \in conns
    BY <1>6, HubStays DEF Types, Authenticate, Goto, hub, reader, closer
  <2>2. Always(c)'
    BY <2>1 DEF Always
  <2>3. Open(c)'
    BY <1>0, <2>1 DEF Always, Open
  <2>4. Leaving(c)'
    BY <2>1 DEF Always, Leaving
  <2> QED BY <2>2, <2>3, <2>4
<1>7. ASSUME AddClient(c) PROVE Always(c)' /\ Open(c)' /\ Leaving(c)'
  <2>1. /\ todo' = [todo EXCEPT ![c] = Granted(c)] /\ pc' = [pc EXCEPT ![c] = "subs"]
        /\ conns' = conns \cup {c} /\ pc[c] = "auth"
        /\ UNCHANGED <<status, authenticated, held, subscribed, req, failed, closing, snap, dropping,
                       wasConnected, subs, told, raced>>
    BY <1>7 DEF AddClient, Goto, Granted, closer
  <2>2. /\ pc'[c] = "subs" /\ todo'[c] = Granted(c)
        /\ pc[c] = "auth"
        /\ status'[c] = status[c] /\ authenticated'[c] = authenticated[c]
        /\ failed'[c] = failed[c] /\ held'[c] = held[c]
        /\ subscribed'[c] = subscribed[c] /\ req'[c] = req[c]
        /\ closing'[c] = closing[c] /\ snap'[c] = snap[c] /\ dropping'[c] = dropping[c]
        /\ wasConnected'[c] = wasConnected[c] /\ told'[c] = told[c]
        /\ raced'[c] = raced[c]
        /\ InHub(c)' = InHub(c)
        /\ c \in conns'
    BY <2>1, HubStays DEF Types
  <2>3. Always(c)'
    BY <2>2 DEF Always
  <2>4. Open(c)'
    BY <1>0, <2>2 DEF Always, Open
  <2>5. Leaving(c)'
    BY <2>2 DEF Always, Leaving
  <2> QED BY <2>3, <2>4, <2>5
<1>8. ASSUME NEW n \in Names, ServerSubscribe(c, n) PROVE Always(c)' /\ Open(c)' /\ Leaving(c)'
  <2>1. CASE addSubscription(n, c) /\ UNCHANGED failed
    <3>1. /\ pc[c] = "subs" /\ n \in todo[c] /\ todo'[c] = todo[c] \ {n}
          /\ status'[c] = status[c] /\ authenticated'[c] = authenticated[c]
          /\ failed'[c] = failed[c] /\ held'[c] = held[c]
          /\ subscribed'[c] = subscribed[c] /\ pc'[c] = pc[c] /\ req'[c] = req[c]
          /\ closing'[c] = closing[c] /\ snap'[c] = snap[c] /\ dropping'[c] = dropping[c]
          /\ wasConnected'[c] = wasConnected[c] /\ told'[c] = told[c]
          /\ raced'[c] = raced[c]
          /\ InHub(c)' = InHub(c) \cup {n}
          /\ c \in conns' <=> c \in conns
      BY <1>8, <2>1, HubAdds DEF Types, ServerSubscribe, closer
    <3>2. Always(c)'
      BY <3>1 DEF Always
    <3>3. Open(c)'
      BY <1>0, <3>1 DEF Open
    <3>4. Leaving(c)'
      BY <3>1 DEF Leaving
    <3> QED BY <3>2, <3>3, <3>4
  <2>2. CASE failed' = [failed EXCEPT ![c] = TRUE] /\ UNCHANGED hub
    <3>1. /\ pc[c] = "subs" /\ failed'[c] = TRUE
          /\ status'[c] = status[c] /\ authenticated'[c] = authenticated[c]
          /\ held'[c] = held[c] /\ subscribed'[c] = subscribed[c] /\ pc'[c] = pc[c]
          /\ req'[c] = req[c] /\ closing'[c] = closing[c] /\ snap'[c] = snap[c]
          /\ dropping'[c] = dropping[c] /\ wasConnected'[c] = wasConnected[c]
          /\ told'[c] = told[c] /\ raced'[c] = raced[c]
          /\ InHub(c)' = InHub(c)
          /\ c \in conns' <=> c \in conns
      BY <1>8, <2>2, HubStays DEF Types, ServerSubscribe, hub, closer
    <3>2. Always(c)'
      BY <3>1 DEF Always
    <3>3. Open(c)' /\ Leaving(c)'
      BY <3>1 DEF Open, Leaving
    <3> QED BY <3>2, <3>3
  <2> QED BY <1>8, <2>1, <2>2 DEF ServerSubscribe
<1>9. ASSUME ServerSubscribed(c) PROVE Always(c)' /\ Open(c)' /\ Leaving(c)'
  <2>1. /\ pc'[c] = IF failed[c] THEN "drain" ELSE "reply"
        /\ pc[c] = "subs" /\ todo[c] = {}
        /\ status'[c] = status[c] /\ authenticated'[c] = authenticated[c]
        /\ failed'[c] = failed[c] /\ held'[c] = held[c]
        /\ subscribed'[c] = subscribed[c] /\ req'[c] = req[c] /\ todo'[c] = todo[c]
        /\ closing'[c] = closing[c] /\ snap'[c] = snap[c] /\ dropping'[c] = dropping[c]
        /\ wasConnected'[c] = wasConnected[c] /\ told'[c] = told[c]
        /\ raced'[c] = raced[c]
        /\ InHub(c)' = InHub(c)
        /\ c \in conns' <=> c \in conns
    BY <1>9, HubStays DEF Types, ServerSubscribed, Goto, hub, reader, closer
  <2>2. Always(c)'
    BY <2>1 DEF Always
  <2>3. Open(c)'
    BY <1>0, <2>1 DEF Always, Open
  <2>4. Leaving(c)'
    BY <2>1 DEF Always, Leaving
  <2> QED BY <2>2, <2>3, <2>4
<1>10. ASSUME ConnectReply(c) PROVE Always(c)' /\ Open(c)' /\ Leaving(c)'
  <2>1. /\ held' = [held EXCEPT ![c] = @ \cup Granted(c)]
        /\ subscribed' = [subscribed EXCEPT ![c] = @ \cup Granted(c)]
        /\ pc' = [pc EXCEPT ![c] = "trigger"] /\ pc[c] = "reply"
        /\ UNCHANGED <<status, authenticated, req, todo, failed, closing, snap, dropping, wasConnected,
                       conns, subs, told, raced>>
    BY <1>10 DEF ConnectReply, Goto, Granted, hub, closer
  <2>2. /\ pc'[c] = "trigger" /\ pc[c] = "reply"
        /\ held'[c] = held[c] \cup Granted(c)
        /\ subscribed'[c] = subscribed[c] \cup Granted(c)
        /\ status'[c] = status[c] /\ authenticated'[c] = authenticated[c]
        /\ failed'[c] = failed[c] /\ req'[c] = req[c] /\ todo'[c] = todo[c]
        /\ closing'[c] = closing[c] /\ snap'[c] = snap[c] /\ dropping'[c] = dropping[c]
        /\ wasConnected'[c] = wasConnected[c] /\ told'[c] = told[c]
        /\ raced'[c] = raced[c]
        /\ InHub(c)' = InHub(c)
        /\ c \in conns' <=> c \in conns
    BY <2>1, HubStays DEF Types
  <2>3. Always(c)'
    BY <2>2 DEF Always
  <2>4. Open(c)'
    BY <1>0, <2>2 DEF Always, Open
  <2>5. Leaving(c)'
    BY <2>2 DEF Always, Leaving
  <2> QED BY <2>3, <2>4, <2>5
<1>11. ASSUME TriggerConnect(c) PROVE Always(c)' /\ Open(c)' /\ Leaving(c)'
  <2>1. /\ pc'[c] = "read" /\ pc[c] = "trigger" /\ closing[c] # "unsub"
        /\ status'[c] = IF status[c] = "connecting" THEN "connected" ELSE status[c]
        /\ told'[c] = IF status[c] = "connecting" THEN "connect" ELSE told[c]
        /\ authenticated'[c] = authenticated[c] /\ failed'[c] = failed[c]
        /\ held'[c] = held[c] /\ subscribed'[c] = subscribed[c] /\ req'[c] = req[c]
        /\ todo'[c] = todo[c] /\ closing'[c] = closing[c] /\ snap'[c] = snap[c]
        /\ dropping'[c] = dropping[c] /\ wasConnected'[c] = wasConnected[c]
        /\ raced'[c] = raced[c]
        /\ InHub(c)' = InHub(c)
        /\ c \in conns' <=> c \in conns
    BY <1>11, HubStays DEF Types, TriggerConnect, Goto, hub, reader, closer
  <2>2. Always(c)'
    BY <2>1 DEF Always
  <2>3. Open(c)'
    BY <1>0, <2>1 DEF Always, Open
  <2>4. Leaving(c)'
    BY <2>1 DEF Always, Leaving
  <2> QED BY <2>2, <2>3, <2>4
<1>12. ASSUME NEW n \in Plain \cup Asks, HandleSubscribe(c, n)
       PROVE  Always(c)' /\ Open(c)' /\ Leaving(c)'
  <2>1. CASE n \in held[c]
    <3>1. UNCHANGED <<status, authenticated, failed, held, subscribed, pc, req, todo, closing, snap,
                      dropping, wasConnected, told, raced, conns, subs>>
      BY <1>12, <2>1 DEF HandleSubscribe, hub, closer
    <3>2. Same(c)
      BY <3>1, HubStays DEF Same
    <3> QED BY <3>2, Untouched
  <2>2. CASE n \notin held[c]
    <3>1. /\ held' = [held EXCEPT ![c] = @ \cup {n}] /\ req' = [req EXCEPT ![c] = n]
          /\ pc' = [pc EXCEPT ![c] = "subscribe"] /\ pc[c] = "read" /\ status[c] # "closed"
          /\ UNCHANGED <<status, authenticated, failed, subscribed, todo, closing, snap, dropping,
                         wasConnected, told, raced, conns, subs>>
      BY <1>12, <2>2 DEF HandleSubscribe, Goto, hub, closer
    <3>2. /\ held'[c] = held[c] \cup {n} /\ req'[c] = n /\ pc'[c] = "subscribe"
          /\ status'[c] = status[c] /\ authenticated'[c] = authenticated[c]
          /\ failed'[c] = failed[c] /\ subscribed'[c] = subscribed[c]
          /\ todo'[c] = todo[c] /\ closing'[c] = closing[c] /\ snap'[c] = snap[c]
          /\ dropping'[c] = dropping[c] /\ wasConnected'[c] = wasConnected[c]
          /\ told'[c] = told[c] /\ raced'[c] = raced[c]
          /\ InHub(c)' = InHub(c)
          /\ c \in conns' <=> c \in conns
      BY <3>1, HubStays DEF Types
    <3>3. Always(c)'
      BY <2>2, <3>1, <3>2 DEF Always
    <3>4. Open(c)'
      BY <1>0, <3>1, <3>2 DEF Open
    <3>5. Leaving(c)'
      BY <3>1, <3>2 DEF Always, Leaving
    <3> QED BY <3>3, <3>4, <3>5
  <2> QED BY <2>1, <2>2
<1>13. ASSUME SubscribeCmd(c) PROVE Always(c)' /\ Open(c)' /\ Leaving(c)'
  <2>1. pc[c] = "subscribe" /\ req[c] \in Names /\ Resolve(c, req[c]) \subseteq Names
    BY <1>13 DEF SubscribeCmd, Asked
  <2>2. UNCHANGED <<status, authenticated, subscribed, todo, failed, closing, snap, dropping,
                    wasConnected, told, raced>>
    BY <1>13 DEF SubscribeCmd, closer
  <2>3. CASE Subscribes(c)
    <3>1. PICK n \in Names : /\ addSubscription(n, c) /\ req' = [req EXCEPT ![c] = n]
                             /\ pc' = [pc EXCEPT ![c] = "subscribed"] /\ held' = held
      BY <2>1, <2>3 DEF Subscribes, Goto
    <3>2. /\ req'[c] = n /\ pc'[c] = "subscribed" /\ held'[c] = held[c]
          /\ InHub(c)' = InHub(c) \cup {n} /\ conns' = conns
      BY <3>1, HubAdds DEF Types
    <3>3. Always(c)'
      BY <2>1, <2>2, <3>2 DEF Always
    <3>4. Open(c)'
      BY <1>0, <2>1, <2>2, <3>2 DEF Open
    <3>5. Leaving(c)'
      BY <2>1, <2>2, <3>2 DEF Leaving
    <3> QED BY <3>3, <3>4, <3>5
  <2>4. CASE GivesUp(c)
    <3>1. /\ held'[c] = held[c] \ {req[c]} /\ pc'[c] = "read" /\ req' = req
      BY <2>4 DEF Types, GivesUp, onSubscribeError, Goto
    <3>2. conns' = conns /\ (InHub(c)' = InHub(c) \ {req[c]} \/ InHub(c)' = InHub(c))
      BY <2>1, <2>4, HubRemoves, HubStays DEF GivesUp, onSubscribeError, hub
    <3>3. Always(c)'
      BY <2>1, <2>2, <3>1 DEF Always
    <3>4. Open(c)'
      BY <1>0, <2>1, <2>2, <3>1, <3>2 DEF Always, Open
    <3>5. Leaving(c)'
      BY <2>1, <2>2, <3>1, <3>2 DEF Leaving
    <3> QED BY <3>3, <3>4, <3>5
  <2> QED BY <1>13, <2>3, <2>4 DEF SubscribeCmd, Subscribes, GivesUp
<1>14. ASSUME SubscribeReply(c) PROVE Always(c)' /\ Open(c)' /\ Leaving(c)'
  <2>1. /\ pc'[c] = "read" /\ pc[c] = "subscribed"
        /\ held'[c] = held[c] \cup {req[c]}
        /\ subscribed'[c] = subscribed[c] \cup {req[c]}
        /\ status'[c] = status[c] /\ authenticated'[c] = authenticated[c]
        /\ failed'[c] = failed[c] /\ todo'[c] = todo[c] /\ closing'[c] = closing[c]
        /\ snap'[c] = snap[c] /\ dropping'[c] = dropping[c]
        /\ wasConnected'[c] = wasConnected[c] /\ told'[c] = told[c]
        /\ raced'[c] = raced[c]
        /\ InHub(c)' = InHub(c)
        /\ c \in conns' <=> c \in conns
    BY <1>14, HubStays DEF Types, SubscribeReply, Goto, hub, reader, closer
  <2>2. Always(c)'
    BY <2>1 DEF Always
  <2>3. Open(c)'
    BY <1>0, <2>1 DEF Always, Open
  <2>4. Leaving(c)'
    BY <2>1 DEF Always, Leaving
  <2> QED BY <2>2, <2>3, <2>4
<1>15. ASSUME NEW n \in Names, HandleUnsubscribe(c, n) PROVE Always(c)' /\ Open(c)' /\ Leaving(c)'
  <2>1. /\ pc'[c] = "unsubscribe" /\ pc[c] = "read" /\ req'[c] = n
        /\ status[c] # "closed"
        /\ held'[c] = held[c] \ {n}
        /\ subscribed'[c] = subscribed[c] \ {n}
        /\ status'[c] = status[c] /\ authenticated'[c] = authenticated[c]
        /\ failed'[c] = failed[c] /\ todo'[c] = todo[c] /\ closing'[c] = closing[c]
        /\ snap'[c] = snap[c] /\ dropping'[c] = dropping[c]
        /\ wasConnected'[c] = wasConnected[c] /\ told'[c] = told[c]
        /\ raced'[c] = raced[c]
        /\ InHub(c)' = InHub(c)
        /\ c \in conns' <=> c \in conns
    BY <1>15, HubStays DEF Types, HandleUnsubscribe, Goto, hub, reader, closer
  <2>2. Always(c)'
    BY <2>1 DEF Always
  <2>3. Open(c)'
    BY <1>0, <2>1 DEF Always, Open
  <2>4. Leaving(c)'
    BY <2>1 DEF Always, Leaving
  <2> QED BY <2>2, <2>3, <2>4
<1>16. ASSUME Unsubscribe(c) PROVE Always(c)' /\ Open(c)' /\ Leaving(c)'
  <2>1. pc[c] = "unsubscribe" /\ req[c] \in Names
    BY <1>16 DEF Unsubscribe, Asked
  <2>2. InHub(c)' = InHub(c) \ {req[c]} /\ conns' = conns
    BY <1>16, <2>1, HubRemoves DEF Unsubscribe
  <2>3. /\ pc'[c] = "read"
        /\ status'[c] = status[c] /\ authenticated'[c] = authenticated[c]
        /\ failed'[c] = failed[c] /\ held'[c] = held[c]
        /\ subscribed'[c] = subscribed[c] /\ todo'[c] = todo[c]
        /\ closing'[c] = closing[c] /\ snap'[c] = snap[c] /\ dropping'[c] = dropping[c]
        /\ wasConnected'[c] = wasConnected[c] /\ told'[c] = told[c]
        /\ raced'[c] = raced[c]
    BY <1>16 DEF Types, Unsubscribe, Goto, closer
  <2>4. Always(c)'
    BY <2>1, <2>3 DEF Always
  <2>5. Open(c)'
    BY <1>0, <2>1, <2>2, <2>3 DEF Open
  <2>6. Leaving(c)'
    BY <2>1, <2>2, <2>3 DEF Leaving
  <2> QED BY <2>4, <2>5, <2>6
<1>17. ASSUME CloseStale(c) PROVE Always(c)' /\ Open(c)' /\ Leaving(c)'
  <2>1. Same(c)
    BY <1>17, HubStays DEF CloseStale, Same, hub, reader, closer
  <2> QED BY <2>1, Untouched
<1>18. ASSUME WriteError(c) PROVE Always(c)' /\ Open(c)' /\ Leaving(c)'
  <2>1. Same(c)
    BY <1>18, HubStays DEF WriteError, Same, hub, reader, closer
  <2> QED BY <2>1, Untouched
<1>19. ASSUME CloseBegin(c) PROVE Always(c)' /\ Open(c)' /\ Leaving(c)'
  <2>1. CASE status[c] = "closed"
    <3>1. Same(c)
      BY <1>19, <2>1, HubStays DEF CloseBegin, Same, hub, reader, closer
    <3> QED BY <3>1, Untouched
  <2>2. CASE status[c] # "closed"
    <3>1. /\ status' = [status EXCEPT ![c] = "closed"] /\ closing' = [closing EXCEPT ![c] = "unsub"]
          /\ snap' = [snap EXCEPT ![c] = held[c]]
          /\ wasConnected' = [wasConnected EXCEPT ![c] = (status[c] = "connected")]
          /\ raced' = [raced EXCEPT ![c] = HalfMade(c)]
          /\ UNCHANGED <<authenticated, failed, held, subscribed, pc, req, todo, dropping, told, conns,
                         subs>>
      BY <1>19, <2>2 DEF CloseBegin, hub, reader
    <3>2. status'[c] = "closed" /\ closing'[c] = "unsub" /\ snap'[c] = held[c]
      BY <3>1 DEF Types
    <3>3. (wasConnected'[c] <=> status[c] = "connected") /\ (raced'[c] <=> HalfMade(c))
      BY <3>1 DEF Types
    <3>4. InHub(c)' = InHub(c)
      BY <3>1, HubStays
    <3>5. Always(c)'
      BY <2>2, <3>1, <3>2, <3>3 DEF Always
    <3>6. Open(c)'
      BY <3>2 DEF Open
    <3>7. Leaving(c)'
      <4>1. CASE HalfMade(c)
        BY <3>3, <4>1 DEF Leaving
      <4>2. CASE ~HalfMade(c) /\ ~failed[c]
        <5>1. pc[c] \in {"read", "connecting", "trigger", "unsubscribe", "drain", "exit"}
          BY <4>2 DEF Types, HalfMade
        <5>2. /\ pc[c] # "unsubscribe" => InHub(c) \subseteq held[c]
              /\ pc[c] = "unsubscribe" => InHub(c) \subseteq held[c] \cup {req[c]}
              /\ c \in conns => authenticated[c]
          BY <2>2, <4>2, <5>1 DEF Always, Open
        <5> QED BY <3>1, <3>2, <3>4, <5>1, <5>2 DEF Leaving
      <4>3. CASE failed[c]
        BY <3>1, <4>3 DEF Leaving
      <4> QED BY <4>1, <4>2, <4>3
    <3> QED BY <3>5, <3>6, <3>7
  <2> QED BY <2>1, <2>2
<1>20. ASSUME NEW n \in Names, CloseDelete(c, n) PROVE Always(c)' /\ Open(c)' /\ Leaving(c)'
  <2>1. /\ closing[c] = "unsub" /\ dropping[c] = None /\ n \in snap[c]
        /\ snap'[c] = snap[c] \ {n} /\ dropping'[c] = (IF n \in held[c] THEN n ELSE None)
        /\ held'[c] = held[c] \ {n} /\ subscribed'[c] = subscribed[c] \ {n}
        /\ status'[c] = status[c] /\ authenticated'[c] = authenticated[c]
        /\ failed'[c] = failed[c] /\ pc'[c] = pc[c] /\ req'[c] = req[c]
        /\ todo'[c] = todo[c] /\ closing'[c] = closing[c]
        /\ wasConnected'[c] = wasConnected[c] /\ told'[c] = told[c]
        /\ raced'[c] = raced[c]
        /\ InHub(c)' = InHub(c)
        /\ c \in conns' <=> c \in conns
    BY <1>20, HubStays DEF Types, CloseDelete, hub, reader
  <2>2. None \notin InHub(c)
    BY NoneIsNoName DEF InHub
  <2>3. Always(c)'
    BY <2>1 DEF Always
  <2>4. Open(c)'
    BY <2>1 DEF Always, Open
  <2>5. Leaving(c)'
    BY <2>1, <2>2 DEF Leaving
  <2> QED BY <2>3, <2>4, <2>5
<1>21. ASSUME CloseRemove(c) PROVE Always(c)' /\ Open(c)' /\ Leaving(c)'
  <2>1. closing[c] = "unsub" /\ dropping[c] \in Names
    BY <1>21 DEF CloseRemove, Types
  <2>2. InHub(c)' = InHub(c) \ {dropping[c]} /\ conns' = conns
    BY <1>21, <2>1, HubRemoves DEF CloseRemove
  <2>3. /\ status'[c] = status[c] /\ authenticated'[c] = authenticated[c]
        /\ failed'[c] = failed[c] /\ held'[c] = held[c]
        /\ subscribed'[c] = subscribed[c] /\ pc'[c] = pc[c] /\ req'[c] = req[c]
        /\ todo'[c] = todo[c] /\ closing'[c] = closing[c] /\ snap'[c] = snap[c]
        /\ wasConnected'[c] = wasConnected[c] /\ told'[c] = told[c]
        /\ raced'[c] = raced[c]
    BY <1>21 DEF CloseRemove, reader
  <2>4. Always(c)'
    BY <2>3 DEF Always
  <2>5. Open(c)'
    BY <2>1, <2>3 DEF Always, Open
  <2>6. Leaving(c)'
    BY <2>1, <2>2, <2>3 DEF Leaving
  <2> QED BY <2>4, <2>5, <2>6
<1>22. ASSUME CloseEnd(c) PROVE Always(c)' /\ Open(c)' /\ Leaving(c)'
  <2>1. /\ closing[c] = "unsub" /\ closing'[c] = "done" /\ dropping[c] = None /\ snap[c] = {}
        /\ told'[c] = (IF wasConnected[c] THEN "disconnect" ELSE told[c])
        /\ c \in conns' <=> (c \in conns /\ ~authenticated[c])
        /\ status'[c] = status[c] /\ authenticated'[c] = authenticated[c]
        /\ failed'[c] = failed[c] /\ held'[c] = held[c]
        /\ subscribed'[c] = subscribed[c] /\ pc'[c] = pc[c] /\ req'[c] = req[c]
        /\ todo'[c] = todo[c] /\ snap'[c] = snap[c] /\ dropping'[c] = dropping[c]
        /\ wasConnected'[c] = wasConnected[c] /\ raced'[c] = raced[c]
        /\ InHub(c)' = InHub(c)
    BY <1>22, HubStays DEF Types, CloseEnd, reader
  <2>2. None \notin InHub(c)
    BY NoneIsNoName DEF InHub
  <2>3. Always(c)'
    BY <2>1 DEF Always
  <2>4. Open(c)'
    BY <2>1 DEF Always, Open
  <2>5. Leaving(c)'
    BY <2>1, <2>2 DEF Leaving
  <2> QED BY <2>3, <2>4, <2>5
<1> QED
  BY <1>1, <1>2, <1>3, <1>4, <1>5, <1>6, <1>7, <1>8, <1>9, <1>10, <1>11, <1>12, <1>13,
     <1>14, <1>15, <1>16, <1>17, <1>18, <1>19, <1>20, <1>21, <1>22
  DEF Step, Command, Serve, Close

(* Every step keeps Agreement.                                             *)
LEMMA AgreementStep == ASSUME TypeInv, Agreement, [Next]_vars PROVE Agreement'
<1>1. Types /\ \A d \in Clients : Asked(d)
  BY DEF TypeInv
<1>2. ASSUME NEW d \in Clients PROVE Always(d) /\ Open(d) /\ Leaving(d)
  BY DEF Agreement
<1>3. ASSUME NEW c \in Clients, Step(c) PROVE Agreement'
  <2>1. Always(c)' /\ Open(c)' /\ Leaving(c)'
    BY <1>1, <1>2, <1>3, ClientStep
  <2>2. ASSUME NEW d \in Clients, d # c PROVE Always(d)' /\ Open(d)' /\ Leaving(d)'
    BY <1>1, <1>2, <1>3, <2>2, Others, Untouched
  <2> QED BY <2>1, <2>2 DEF Agreement
<1>4. CASE (\E n \in Names : DissolverJob(n)) \/ UNCHANGED vars
  <2>1. ASSUME NEW d \in Clients PROVE Always(d)' /\ Open(d)' /\ Leaving(d)'
    BY <1>2, <1>4, JobsAside, Untouched
  <2> QED BY <2>1 DEF Agreement
<1> QED BY <1>3, <1>4 DEF Next, Step
----------------------------------------------------------------------------
(* The hub and the broker.                                                 *)

(* Every step leaves the subscriptions alone or is one call of             *)
(* addSubscription or removeSubscription, or one job of the dissolver.     *)
LEMMA HubSteps ==
    ASSUME TypeInv, [Next]_vars
    PROVE  \/ UNCHANGED <<subs, broker, jobs>>
           \/ \E n \in Names, c \in Clients : addSubscription(n, c)
           \/ \E n \in Names, c \in Clients : removeSubscription(n, c)
           \/ \E n \in Names : DissolverJob(n)
<1> USE DEF hub, Asked, TypeInv, Types
<1>1. ASSUME NEW c \in Clients, NEW n \in Names, ServerSubscribe(c, n)
      PROVE  addSubscription(n, c) \/ UNCHANGED <<subs, broker, jobs>>
  BY <1>1 DEF ServerSubscribe
<1>2. ASSUME NEW c \in Clients, SubscribeCmd(c)
      PROVE  \/ UNCHANGED <<subs, broker, jobs>>
             \/ \E n \in Names : addSubscription(n, c) \/ removeSubscription(n, c)
  BY <1>2 DEF SubscribeCmd, onSubscribeError
<1>3. ASSUME NEW c \in Clients, Unsubscribe(c)
      PROVE  \E n \in Names : removeSubscription(n, c)
  BY <1>3 DEF Unsubscribe
<1>4. ASSUME NEW c \in Clients, CloseRemove(c)
      PROVE  \E n \in Names : removeSubscription(n, c)
  BY <1>4 DEF CloseRemove
<1>5. ASSUME NEW c \in Clients, Command(c) PROVE UNCHANGED <<subs, broker, jobs>>
  BY <1>5 DEF Command, HandleConnect, BadCommand, ReaderExit, HandleSubscribe, HandleUnsubscribe
<1>6. ASSUME NEW c \in Clients, CloseStale(c) \/ WriteError(c) \/ CloseBegin(c) \/ CloseEnd(c)
      PROVE  UNCHANGED <<subs, broker, jobs>>
  BY <1>6 DEF CloseStale, WriteError, CloseBegin, CloseEnd
<1>7. ASSUME NEW c \in Clients, NEW n \in Names, CloseDelete(c, n)
      PROVE  UNCHANGED <<subs, broker, jobs>>
  BY <1>7 DEF CloseDelete
<1>8. ASSUME NEW c \in Clients,
             \/ ConnectingError(c) \/ ConnectingReply(c) \/ Authenticate(c) \/ AddClient(c)
             \/ ServerSubscribed(c) \/ ConnectReply(c) \/ TriggerConnect(c) \/ SubscribeReply(c)
             \/ ReaderExit(c)
      PROVE  UNCHANGED <<subs, broker, jobs>>
  BY <1>8 DEF ConnectingError, ConnectingReply, Authenticate, AddClient, ServerSubscribed,
              ConnectReply, TriggerConnect, SubscribeReply, ReaderExit
<1>9. CASE UNCHANGED vars
  BY <1>9 DEF vars
<1> HIDE DEF hub, Asked, TypeInv, Types
<1> QED
  BY <1>1, <1>2, <1>3, <1>4, <1>5, <1>6, <1>7, <1>8, <1>9 DEF Next, Serve, Close

(* Each of them keeps the broker subscribed to what has subscribers, and a *)
(* job waiting for what has none.                                          *)
LEMMA InterestStep == ASSUME TypeInv, InterestKept, [Next]_vars PROVE InterestKept'
<1> USE DEF InterestKept, Subscribers
<1>1. jobs \in [Names -> Nat]
  BY DEF TypeInv, Types
<1>2. CASE UNCHANGED <<subs, broker, jobs>>
  BY <1>2
<1>3. ASSUME NEW n \in Names, NEW c \in Clients, addSubscription(n, c) PROVE InterestKept'
  BY <1>1, <1>3 DEF addSubscription
<1>4. ASSUME NEW n \in Names, NEW c \in Clients, removeSubscription(n, c) PROVE InterestKept'
  BY <1>1, <1>4, SMTT(90) DEF removeSubscription
<1>5. ASSUME NEW n \in Names, DissolverJob(n) PROVE InterestKept'
  BY <1>1, <1>5 DEF DissolverJob
<1> QED BY <1>2, <1>3, <1>4, <1>5, HubSteps

(* And each is a step of the registry, or none.                            *)
LEMMA RegistryStep ==
    ASSUME TypeInv, InterestKept, [Next]_vars PROVE [Registry!Next]_(Registry!vars)
<1> USE DEF Registry!Next, Registry!vars, Subscribers, InterestKept
<1>1. CASE UNCHANGED <<subs, broker, jobs>>
  BY <1>1
<1>2. ASSUME NEW n \in Names, NEW c \in Clients, addSubscription(n, c) PROVE Registry!Join(n, c)
  BY <1>2 DEF addSubscription, Registry!Join
<1>3. ASSUME NEW n \in Names, NEW c \in Clients, removeSubscription(n, c) PROVE Registry!Leave(n, c)
  BY <1>3 DEF removeSubscription, Registry!Leave
<1>4. ASSUME NEW n \in Names, DissolverJob(n)
      PROVE  Registry!Drop(n) \/ UNCHANGED <<subs, broker>>
  BY <1>4 DEF DissolverJob, Registry!Drop
<1> QED BY <1>1, <1>2, <1>3, <1>4, HubSteps
----------------------------------------------------------------------------
(* The theorems.                                                           *)

(* The first states satisfy the invariants and are first states of the     *)
(* registry.                                                               *)
LEMMA Start == Init => TypeInv /\ Agreement /\ InterestKept /\ Registry!Init
<1> SUFFICES ASSUME Init PROVE TypeInv /\ Agreement /\ InterestKept /\ Registry!Init
  OBVIOUS
<1>1. TypeInv
  BY DEF Init, TypeInv, Types, Asked
<1>2. Agreement
  BY DEF Init, Agreement, Always, Open, Leaving, InHub
<1>3. InterestKept /\ Registry!Init
  BY DEF Init, InterestKept, Subscribers, Registry!Init
<1> QED BY <1>1, <1>2, <1>3

(* The invariants hold in every state.                                     *)
LEMMA Invariance == Spec => [](TypeInv /\ Agreement /\ InterestKept)
  BY Start, TypeStep, AgreementStep, InterestStep, PTL DEF Spec

(* A channel with a subscriber is subscribed to on the broker, and a       *)
(* channel left by all has a job waiting, for any clients and channels     *)
(* (addSubscription, removeSubscription, the dissolver's jobs).            *)
THEOREM InterestIsKept == Spec => []InterestKept
  BY Invariance, PTL

(* Between the commands of an open connection the hub has exactly the      *)
(* channels of the client's own table (subscribeCmd, unsubscribe,          *)
(* connectCmd).                                                            *)
THEOREM HubStaysAgreed == Spec => []HubAgrees
<1>1. TypeInv /\ Agreement => HubAgrees
  BY DEF Agreement, Always, Open, InHub, HubAgrees
<1> QED BY <1>1, Invariance, PTL

(* A closed client whose reader has ended has left the hub, unless close() *)
(* came upon a half-made subscription or the broker refused a channel.     *)
THEOREM GhostsAreRaced == Spec => []GhostOnlyIfRaced
<1>1. TypeInv /\ Agreement => GhostOnlyIfRaced
  BY DEF Agreement, Leaving, InHub, GhostOnlyIfRaced
<1> QED BY <1>1, Invariance, PTL

(* A "connect" the workers were told of is followed by its "disconnect"    *)
(* before close() is done (triggerConnect, close).                         *)
THEOREM NewsArePaired == Spec => []NewsPaired
<1>1. TypeInv /\ Agreement => NewsPaired
  BY DEF TypeInv, Types, Agreement, Always, NewsPaired
<1> QED BY <1>1, Invariance, PTL

(* The hub, the node and the dissolver implement ChannelRegistry: every    *)
(* step of theirs is a step of the registry or changes nothing it sees.    *)
THEOREM HubImplementsRegistry == Spec => Registry!Spec
<1>1. TypeInv /\ InterestKept /\ [Next]_vars => [Registry!Next]_(Registry!vars)
  BY RegistryStep
<1> QED BY <1>1, Start, Invariance, PTL DEF Spec, Registry!Spec

====
