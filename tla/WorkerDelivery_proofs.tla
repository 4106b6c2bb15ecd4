------------------------- MODULE WorkerDelivery_proofs -------------------------
(***************************************************************************)
(* Proofs about WorkerDelivery, for every set of commands, every           *)
(* assignment of kinds and every retry limit.                              *)
(***************************************************************************)
EXTENDS WorkerDelivery, TLAPS

(* Zenon proves what no other prover is named for.                         *)
USE ZenonT(90)

(* What the helpers of the actions do to the types.                        *)
LEMMA RegisterTypes ==
    ASSUME TypeOK, NEW c \in Cmds, NEW did \in Nat, NEW cb \in {"own", "retry"},
           Register(c, did, cb)
    PROVE  deliverCmd' \in Nat /\ requests' \subseteq Request /\ FreshID(did) \in Nat
  BY SMTT(90) DEF TypeOK, Register, addRequest, removeRequest, Lookup, FreshID, Request

LEMMA PublishTypes ==
    ASSUME TypeOK, NEW c \in Cmds, NEW id \in Nat, Published(c, id) \/ Unpublished(id)
    PROVE  /\ sends' \in [Cmds -> Nat] /\ wire' \subseteq Envelope
           /\ timers' \subseteq Timer /\ unpublished' \subseteq Nat
<1>1. sends[c] + 1 \in Nat
  BY SMTT(90) DEF TypeOK
<1>2. CASE Published(c, id)
  <2>1. sends' \in [Cmds -> Nat] /\ unpublished' \subseteq Nat
    BY <1>1, <1>2 DEF TypeOK, Published
  <2>2. [id |-> id, cmd |-> c, n |-> sends[c] + 1] \in Envelope
    BY <1>1 DEF Envelope
  <2>3. [id |-> id, cmd |-> c, n |-> sends[c] + 1, pc |-> "waiting"] \in Timer
    BY <1>1 DEF Timer
  <2> QED
    BY <1>2, <2>1, <2>2, <2>3 DEF TypeOK, Published
<1>3. CASE Unpublished(id)
  BY <1>3 DEF TypeOK, Unpublished
<1> QED
  BY <1>2, <1>3

LEMMA WrapTypes ==
    ASSUME TypeOK, NEW c \in Cmds, NEW id \in Nat, wrapDeliverErr(c, id)
    PROVE  deliverErrs' \in Seq(Failure)
<1>1. [cmd |-> c, id |-> id] \in Failure
  BY DEF Failure
<1> QED
  BY <1>1, SMTT(90) DEF TypeOK, wrapDeliverErr

LEMMA HeadTypes ==
    ASSUME TypeOK, deliverErrs # <<>>
    PROVE  /\ Head(deliverErrs) \in Failure /\ Head(deliverErrs).id \in Nat
           /\ Tail(deliverErrs) \in Seq(Failure)
<1>1. deliverErrs \in Seq(Failure)
  BY DEF TypeOK
<1>2. Head(deliverErrs) \in Failure /\ Tail(deliverErrs) \in Seq(Failure)
  BY <1>1, SMTT(90)
<1> QED
  BY <1>2 DEF Failure

LEMMA SetRecoveredTypes ==
    ASSUME TypeOK, NEW c \in Cmds, NEW value \in {"open", "recovered"},
           SetRecovered(c, value)
    PROVE  record' \in [Cmds -> {"none", "open", "recovered"}]
BY DEF TypeOK, SetRecovered

LEMMA FailedTypes ==
    ASSUME TypeOK, NEW c \in Cmds, NEW call \in {"send", "query", "insert", "update"},
           Failed(c, call)
    PROVE  ioErr' \in [Cmds -> SUBSET {"send", "query", "insert", "update"}]
BY DEF TypeOK, Failed

(***************************************************************************)
(* Every step of deliverAsync, reciveMessage, the timeout goroutine and    *)
(* handleRetryDeliver keeps the worker's state well typed.                 *)
(***************************************************************************)
LEMMA TypeStep == TypeOK /\ [Next]_vars => TypeOK'
<1> SUFFICES ASSUME TypeOK, [Next]_vars PROVE TypeOK'
  OBVIOUS
<1>1. ASSUME NEW c \in Cmds, Send(c) PROVE TypeOK'
  <2>0. deliverCmd + 1 \in Nat
    BY SMTT(90) DEF TypeOK
  <2>1. msg' \in [Cmds -> Msg]
    <3>1. [msg[c] EXCEPT !.DeliverID = deliverCmd + 1, !.Attempt = 1] \in Msg
      BY <2>0 DEF TypeOK, Msg
    <3> QED
      BY <1>1, <3>1 DEF Send, TypeOK
  <2>2. /\ deliverCmd' \in Nat /\ requests' \subseteq Request
    BY <1>1, RegisterTypes, SMTT(90) DEF Send
  <2>3. /\ sends' \in [Cmds -> Nat] /\ wire' \subseteq Envelope
        /\ timers' \subseteq Timer /\ unpublished' \subseteq Nat
    <3>1. Published(c, deliverCmd + 1) \/ Unpublished(deliverCmd + 1)
      BY <1>1 DEF Send
    <3> QED
      BY <2>0, <3>1, PublishTypes
  <2>4. deliverErrs' \in Seq(Failure)
    <3>1. wrapDeliverErr(c, 0) \/ UNCHANGED deliverErrs
      BY <1>1 DEF Send
    <3> QED
      BY <3>1, WrapTypes DEF TypeOK
  <2>5. ioErr' \in [Cmds -> SUBSET {"send", "query", "insert", "update"}]
    BY <1>1, FailedTypes DEF Send, TypeOK
  <2> QED
    BY <1>1, <2>1, <2>2, <2>3, <2>4, <2>5 DEF Send, TypeOK
<1>2. ASSUME NEW c \in Cmds, DropFailure(c) PROVE TypeOK'
  BY <1>2, HeadTypes DEF DropFailure, NextFailure, TypeOK
<1>3. ASSUME NEW c \in Cmds, FirstRetry(c) PROVE TypeOK'
  <2> DEFINE id == Head(deliverErrs).id
  <2>1. id \in Nat /\ deliverErrs' \in Seq(Failure)
    BY <1>3, HeadTypes DEF FirstRetry, NextFailure
  <2>2. PICK retry \in {"rec", "norec"} :
          /\ msg' = [msg EXCEPT ![c] = [DeliverID |-> id, Attempt |-> @.Attempt + 1,
                                        Retry |-> retry]]
          /\ record' = [record EXCEPT ![c] = IF retry = "rec" /\ @ = "none" THEN "open" ELSE @]
          /\ IF retry = "norec" THEN Failed(c, "insert") ELSE UNCHANGED ioErr
    BY <1>3 DEF FirstRetry
  <2>3. msg' \in [Cmds -> Msg]
    <3>1. msg \in [Cmds -> Msg] /\ msg[c].Attempt \in Nat
      BY DEF TypeOK, Msg
    <3>2. msg[c].Attempt + 1 \in Nat
      BY <3>1, SMTT(90)
    <3>3. PICK m : m = [DeliverID |-> id, Attempt |-> msg[c].Attempt + 1, Retry |-> retry]
      OBVIOUS
    <3>4. m \in Msg
      BY <2>1, <3>2, <3>3 DEF Msg
    <3>5. msg' = [msg EXCEPT ![c] = m]
      BY <2>2, <3>3
    <3> QED
      BY <3>1, <3>4, <3>5
  <2>4. record' \in [Cmds -> {"none", "open", "recovered"}]
    BY <2>2 DEF TypeOK
  <2>5. ioErr' \in [Cmds -> SUBSET {"send", "query", "insert", "update"}]
    BY <2>2, FailedTypes DEF TypeOK
  <2>6. /\ deliverCmd' \in Nat /\ requests' \subseteq Request /\ FreshID(id) \in Nat
    BY <1>3, <2>1, RegisterTypes DEF FirstRetry
  <2>7. /\ sends' \in [Cmds -> Nat] /\ wire' \subseteq Envelope
        /\ timers' \subseteq Timer /\ unpublished' \subseteq Nat
    BY <1>3, <2>6, PublishTypes DEF FirstRetry
  <2> QED
    BY <1>3, <2>1, <2>3, <2>4, <2>5, <2>6, <2>7 DEF FirstRetry, TypeOK
<1>4. ASSUME NEW c \in Cmds, FirstRetryFault(c) PROVE TypeOK'
  BY <1>4, HeadTypes, FailedTypes DEF FirstRetryFault, NextFailure, TypeOK
<1>5. ASSUME NEW c \in Cmds, LaterRetry(c) PROVE TypeOK'
  <2>1. msg' \in [Cmds -> Msg]
    <3>1. msg[c] \in Msg /\ msg[c].Attempt + 1 \in Nat
      BY SMTT(90) DEF TypeOK, Msg
    <3>2. [msg[c] EXCEPT !.Attempt = msg[c].Attempt + 1] \in Msg
      BY <3>1 DEF Msg
    <3>3. UNCHANGED msg \/ msg' = [msg EXCEPT ![c] = [msg[c] EXCEPT !.Attempt = msg[c].Attempt + 1]]
      BY <1>5 DEF LaterRetry
    <3> QED
      BY <3>2, <3>3 DEF TypeOK
  <2>5. backoff' \in [Cmds -> Nat]
    <3>1. /\ UNCHANGED backoff \/ backoff' = [backoff EXCEPT ![c] = @ + 1]
      BY <1>5 DEF LaterRetry
    <3> QED
      BY <3>1, SMTT(90) DEF TypeOK
  <2>2. deliverErrs' \in Seq(Failure)
    BY <1>5, HeadTypes DEF LaterRetry, NextFailure
  <2>3. record' \in [Cmds -> {"none", "open", "recovered"}]
    BY <1>5, SetRecoveredTypes DEF LaterRetry, TypeOK
  <2>4. ioErr' \in [Cmds -> SUBSET {"send", "query", "insert", "update"}]
    BY <1>5, FailedTypes DEF LaterRetry, TypeOK
  <2> QED
    BY <1>5, <2>1, <2>2, <2>3, <2>4, <2>5 DEF LaterRetry, TypeOK
<1>6. ASSUME NEW c \in Cmds, Resend(c) PROVE TypeOK'
  <2>1. msg[c].DeliverID \in Nat
    BY DEF TypeOK, Msg
  <2>2. /\ deliverCmd' \in Nat /\ requests' \subseteq Request /\ FreshID(msg[c].DeliverID) \in Nat
    BY <1>6, <2>1, RegisterTypes DEF Resend
  <2>3. /\ sends' \in [Cmds -> Nat] /\ wire' \subseteq Envelope
        /\ timers' \subseteq Timer /\ unpublished' \subseteq Nat
    BY <1>6, <2>2, PublishTypes DEF Resend
  <2>4. backoff' \in [Cmds -> Nat]
    BY <1>6, SMTT(90) DEF Resend, Due, TypeOK
  <2> QED
    BY <1>6, <2>2, <2>3, <2>4 DEF Resend, TypeOK
<1>7. ASSUME NEW m \in wire, ClientReplies(m) PROVE TypeOK'
  <2>1. PICK st \in {"success", "fault"}, copies \in SUBSET {1, 2} :
          replies' = replies \cup
            {[id |-> m.id, cmd |-> m.cmd, n |-> m.n, status |-> st, copy |-> k] : k \in copies}
    <3>1. PICK st \in {"success"} \cup (IF Kind[m.cmd] = "SetBroker" THEN {"fault"} ELSE {}) :
          \E copies \in (IF st = "fault" THEN {{1}, {1, 2}} ELSE {{1}}) :
            replies' = replies \cup
              {[id |-> m.id, cmd |-> m.cmd, n |-> m.n, status |-> st, copy |-> k] : k \in copies}
      BY <1>7 DEF ClientReplies
    <3>2. PICK copies \in (IF st = "fault" THEN {{1}, {1, 2}} ELSE {{1}}) :
            replies' = replies \cup
              {[id |-> m.id, cmd |-> m.cmd, n |-> m.n, status |-> st, copy |-> k] : k \in copies}
      BY <3>1
    <3>3. st \in {"success", "fault"}
      BY <3>1
    <3>4. copies \in SUBSET {1, 2}
      BY <3>2
    <3> QED
      BY <3>2, <3>3, <3>4
  <2>2. m.id \in Nat /\ m.cmd \in Cmds /\ m.n \in Nat
    BY DEF TypeOK, Envelope
  <2>3. \A k \in copies :
          [id |-> m.id, cmd |-> m.cmd, n |-> m.n, status |-> st, copy |-> k] \in Reply
    BY <2>2 DEF Reply
  <2>4. replies' \subseteq Reply
    BY <2>1, <2>3 DEF TypeOK
  <2>5. wire' \subseteq Envelope
    BY <1>7 DEF ClientReplies, TypeOK
  <2> QED
    BY <1>7, <2>4, <2>5 DEF ClientReplies, TypeOK
<1>8. ASSUME NEW r \in replies, ReadRequest(r) PROVE TypeOK'
  BY <1>8 DEF ReadRequest, Lookup, Handling, Reply, TypeOK
<1>9. CASE HandleReply
  <2>1. requests' \subseteq Request /\ rx' \in Handling
    BY <1>9 DEF HandleReply, removeRequest, Lookup, Handling, Idle, TypeOK
  <2>2. /\ deliverErrs' \in Seq(Failure) /\ answered' \subseteq Cmds
        /\ record' \in [Cmds -> {"none", "open", "recovered"}]
    <3>1. CASE rx.found = {}
      BY <1>9, <3>1 DEF HandleReply, TypeOK
    <3>2. CASE rx.found # {}
      <4>1. PICK r \in rx.found : Callback(r)
        BY <1>9, <3>2 DEF HandleReply
      <4>2. r.cmd \in Cmds /\ rx.id \in Nat
        BY DEF TypeOK, Handling, Request
      <4> QED
        BY <4>1, <4>2, WrapTypes, SetRecoveredTypes DEF Callback, TypeOK
    <3> QED
      BY <3>1, <3>2
  <2> QED
    BY <1>9, <2>1, <2>2 DEF HandleReply, TypeOK
<1>10. ASSUME NEW t \in timers, TimerFires(t) PROVE TypeOK'
  BY <1>10 DEF TimerFires, Expire, Timer, TypeOK
<1>11. ASSUME NEW t \in timers, TimerCalls(t) PROVE TypeOK'
  <2>1. t.cmd \in Cmds /\ t.id \in Nat
    BY DEF TypeOK, Timer
  <2>2. deliverErrs' \in Seq(Failure)
    BY <1>11, <2>1, WrapTypes DEF TimerCalls
  <2>3. timers' \subseteq Timer
    BY <1>11 DEF TimerCalls, Timer, TypeOK
  <2> QED
    BY <1>11, <2>2, <2>3 DEF TimerCalls, TypeOK
<1>12. ASSUME NEW t \in timers, TimerLeaves(t) PROVE TypeOK'
  BY <1>12 DEF TimerLeaves, removeRequest, Lookup, TypeOK
<1>13. CASE CloseConn
  BY <1>13 DEF CloseConn, TypeOK
<1>14. CASE UNCHANGED vars
  BY <1>14 DEF vars, TypeOK
<1> QED
  BY <1>1, <1>2, <1>3, <1>4, <1>5, <1>6, <1>7, <1>8, <1>9, <1>10, <1>11, <1>12, <1>13,
     <1>14 DEF Next

THEOREM TypeCorrect == Spec => []TypeOK
<1>1. Init => TypeOK
  BY SMTT(90) DEF Init, TypeOK, Msg, Handling, Idle
<1> QED
  BY <1>1, TypeStep, PTL DEF Spec

-----------------------------------------------------------------------------
(* SendsBounded is not inductive: the attempt counter of the command, which *)
(* the dispatching goroutine alone advances, pays for every publish and for *)
(* every call of time.AfterFunc.                                           *)
AttemptsInv ==
    \A c \in Cmds :
        /\ msg[c].Attempt <= RetryLimit + 1
        /\ sends[c] + backoff[c] <= msg[c].Attempt
        /\ msg[c].Retry = "nil" => msg[c].Attempt <= 1

LEMMA PublishCounts ==
    ASSUME TypeOK, NEW c \in Cmds, NEW id, Published(c, id) \/ Unpublished(id)
    PROVE  /\ sends'[c] <= sends[c] + 1
           /\ \A d \in Cmds \ {c} : sends'[d] = sends[d]
<1>1. sends[c] \in Nat
  BY DEF TypeOK
<1>2. CASE Published(c, id)
  BY <1>1, <1>2, SMTT(90) DEF TypeOK, Published
<1>3. CASE Unpublished(id)
  BY <1>1, <1>3, SMTT(90) DEF Unpublished
<1> QED
  BY <1>2, <1>3

LEMMA AttemptsStep == TypeOK /\ TypeOK' /\ AttemptsInv /\ [Next]_vars => AttemptsInv'
<1> SUFFICES ASSUME TypeOK, TypeOK', AttemptsInv, [Next]_vars, NEW d \in Cmds
             PROVE  /\ msg'[d].Attempt <= RetryLimit + 1
                    /\ sends'[d] + backoff'[d] <= msg'[d].Attempt
                    /\ msg'[d].Retry = "nil" => msg'[d].Attempt <= 1
  BY DEF AttemptsInv
<1> DEFINE Goal == /\ msg'[d].Attempt <= RetryLimit + 1
                   /\ sends'[d] + backoff'[d] <= msg'[d].Attempt
                   /\ msg'[d].Retry = "nil" => msg'[d].Attempt <= 1
<1>0. /\ msg[d].Attempt \in Nat /\ sends[d] \in Nat /\ backoff[d] \in Nat
      /\ msg'[d].Attempt \in Nat /\ sends'[d] \in Nat /\ backoff'[d] \in Nat
      /\ msg[d].Attempt <= RetryLimit + 1
      /\ sends[d] + backoff[d] <= msg[d].Attempt
      /\ msg[d].Retry = "nil" => msg[d].Attempt <= 1
      /\ RetryLimit \in Nat \ {0}
  BY RetryLimitAssumption DEF TypeOK, Msg, AttemptsInv
<1>1. ASSUME UNCHANGED <<msg, sends, backoff>> PROVE Goal
  BY <1>0, <1>1
<1>2. ASSUME NEW c \in Cmds, Send(c) PROVE Goal
  <2>1. /\ sends'[c] <= sends[c] + 1 /\ \A e \in Cmds \ {c} : sends'[e] = sends[e]
    BY <1>2, PublishCounts DEF Send
  <2>2. msg'[d] = IF d = c THEN [msg[c] EXCEPT !.DeliverID = deliverCmd + 1, !.Attempt = 1]
                           ELSE msg[d]
    BY <1>2 DEF Send, TypeOK
  <2>3. d = c => msg'[d].Attempt = 1 /\ msg[d].Attempt = 0
    BY <1>2, <2>2 DEF Send, TypeOK, Msg
  <2>4. backoff'[d] = backoff[d]
    BY <1>2 DEF Send
  <2> QED
    BY <1>0, <2>1, <2>2, <2>3, <2>4, SMTT(90)
<1>3. ASSUME NEW c \in Cmds, FirstRetry(c) PROVE Goal
  <2>1. /\ sends'[c] <= sends[c] + 1 /\ \A e \in Cmds \ {c} : sends'[e] = sends[e]
    BY <1>3, PublishCounts DEF FirstRetry
  <2>2. PICK retry \in {"rec", "norec"} :
          msg' = [msg EXCEPT ![c] = [DeliverID |-> Head(deliverErrs).id,
                                     Attempt |-> msg[c].Attempt + 1, Retry |-> retry]]
    BY <1>3 DEF FirstRetry
  <2>3. IF d = c THEN msg'[d].Attempt = msg[d].Attempt + 1 /\ msg'[d].Retry # "nil"
                 ELSE msg'[d] = msg[d]
    BY <2>2 DEF TypeOK
  <2>4. backoff'[d] = backoff[d] /\ (d = c => msg[d].Retry = "nil")
    BY <1>3 DEF FirstRetry
  <2> QED
    BY <1>0, <2>1, <2>3, <2>4, SMTT(90)
<1>4. ASSUME NEW c \in Cmds, LaterRetry(c) PROVE Goal
  <2>1. CASE OverLimit(c)
    <3>1. UNCHANGED <<msg, sends, backoff>>
      BY <1>4, <2>1 DEF LaterRetry
    <3> QED
      BY <1>1, <3>1
  <2>2. CASE ~OverLimit(c)
    <3>1. /\ msg' = [msg EXCEPT ![c].Attempt = @ + 1]
          /\ UNCHANGED sends
          /\ UNCHANGED backoff \/ backoff' = [backoff EXCEPT ![c] = @ + 1]
          /\ msg[c].Retry # "nil"
      BY <1>4, <2>2 DEF LaterRetry
    <3>2. IF d = c THEN msg'[d].Attempt = msg[d].Attempt + 1 /\ msg'[d].Retry # "nil"
                   ELSE msg'[d] = msg[d]
      BY <3>1, SMTT(90) DEF TypeOK, Msg
    <3>3. /\ backoff'[d] <= backoff[d] + 1 /\ (d # c => backoff'[d] = backoff[d])
          /\ sends'[d] = sends[d]
      <4>1. backoff \in [Cmds -> Nat] /\ backoff[d] \in Nat
        BY DEF TypeOK
      <4>2. backoff[d] <= backoff[d] + 1 /\ backoff[d] + 1 <= backoff[d] + 1
        BY <4>1, SMTT(90)
      <4>3. /\ d # c => backoff'[d] = backoff[d]
            /\ backoff'[d] = backoff[d] \/ backoff'[d] = backoff[d] + 1
        BY <3>1, <4>1
      <4> QED
        BY <3>1, <4>2, <4>3
    <3>4. d = c => msg[d].Attempt <= RetryLimit
      BY <1>0, <2>2, SMTT(90) DEF OverLimit
    <3> QED
      BY <1>0, <3>2, <3>3, <3>4, SMTT(90)
  <2> QED
    BY <2>1, <2>2
<1>5. ASSUME NEW c \in Cmds, Resend(c) PROVE Goal
  <2>1. /\ sends'[c] <= sends[c] + 1 /\ \A e \in Cmds \ {c} : sends'[e] = sends[e]
    BY <1>5, PublishCounts DEF Resend
  <2>2. /\ msg' = msg /\ backoff'[d] = IF d = c THEN backoff[d] - 1 ELSE backoff[d]
    BY <1>5 DEF Resend, TypeOK
  <2> QED
    BY <1>0, <2>1, <2>2, SMTT(90)
<1>6. ASSUME \/ \E c \in Cmds : DropFailure(c) \/ FirstRetryFault(c)
             \/ \E m \in wire : ClientReplies(m)
             \/ \E r \in replies : ReadRequest(r)
             \/ HandleReply
             \/ \E t \in timers : TimerFires(t) \/ TimerCalls(t) \/ TimerLeaves(t)
             \/ CloseConn
             \/ UNCHANGED vars
      PROVE  UNCHANGED <<msg, sends, backoff>>
  BY <1>6 DEF DropFailure, FirstRetryFault, ClientReplies, ReadRequest, HandleReply,
     TimerFires, Expire, TimerCalls, TimerLeaves, CloseConn, vars
<1> QED
  BY <1>1, <1>2, <1>3, <1>4, <1>5, <1>6 DEF Next

(***************************************************************************)
(* A command is published at most RetryLimit + 1 times, however the        *)
(* replies, timeouts and retries of deliverAsync interleave.               *)
(***************************************************************************)
THEOREM SendsAreBounded == Spec => []SendsBounded
<1>1. Init => AttemptsInv
  <2> SUFFICES ASSUME Init, NEW c \in Cmds
               PROVE  /\ msg[c].Attempt <= RetryLimit + 1
                      /\ sends[c] + backoff[c] <= msg[c].Attempt
                      /\ msg[c].Retry = "nil" => msg[c].Attempt <= 1
    BY DEF AttemptsInv
  <2>1. msg[c].Attempt = 0 /\ sends[c] = 0 /\ backoff[c] = 0
    BY DEF Init
  <2> QED
    BY <2>1, RetryLimitAssumption, SMTT(90)
<1>2. TypeOK /\ AttemptsInv => SendsBounded
  <2> SUFFICES ASSUME TypeOK, AttemptsInv, NEW c \in Cmds
               PROVE  sends[c] + backoff[c] <= RetryLimit + 1
    BY DEF SendsBounded
  <2>1. /\ sends[c] \in Nat /\ backoff[c] \in Nat /\ msg[c].Attempt \in Nat
        /\ sends[c] + backoff[c] <= msg[c].Attempt /\ msg[c].Attempt <= RetryLimit + 1
    BY DEF TypeOK, Msg, AttemptsInv
  <2> QED
    BY <2>1, RetryLimitAssumption, SMTT(90)
<1> QED
  BY <1>1, <1>2, TypeCorrect, AttemptsStep, PTL DEF Spec

-----------------------------------------------------------------------------
(* Publishing under an id leaves the requests of that id watched or        *)
(* recorded as unpublished, and disturbs no other timer.                   *)
LEMMA PublishWatches ==
    ASSUME TypeOK, NEW c \in Cmds, NEW id, Published(c, id) \/ Unpublished(id)
    PROVE  /\ timers \subseteq timers' /\ unpublished \subseteq unpublished'
           /\ id \in unpublished' \/ \E t \in timers' : t.id = id
<1>1. CASE Published(c, id)
  <2> DEFINE t == [id |-> id, cmd |-> c, n |-> sends[c] + 1, pc |-> "waiting"]
  <2>1. timers' = timers \cup {t} /\ unpublished' = unpublished
    BY <1>1 DEF Published
  <2>2. t.id = id
    OBVIOUS
  <2>3. t \in timers'
    BY <2>1
  <2> HIDE DEF t
  <2> QED
    BY <2>1, <2>2, <2>3
<1>2. CASE Unpublished(id)
  BY <1>2 DEF Unpublished
<1> QED
  BY <1>1, <1>2

LEMMA RegisterWatched ==
    ASSUME TypeOK, RequestsWatched, NEW c \in Cmds, NEW did, NEW cb,
           Register(c, did, cb),
           Published(c, FreshID(did)) \/ Unpublished(FreshID(did))
    PROVE  RequestsWatched'
<1>1. \A r \in requests' : r \in requests \/ r.id = FreshID(did)
  BY SMTT(90) DEF Register, addRequest, removeRequest, Lookup
<1>2. /\ timers \subseteq timers' /\ unpublished \subseteq unpublished'
      /\ FreshID(did) \in unpublished' \/ \E t \in timers' : t.id = FreshID(did)
  BY PublishWatches
<1> QED
  BY <1>1, <1>2 DEF RequestsWatched

LEMMA WatchedStep == TypeOK /\ RequestsWatched /\ [Next]_vars => RequestsWatched'
<1> SUFFICES ASSUME TypeOK, RequestsWatched, [Next]_vars PROVE RequestsWatched'
  OBVIOUS
<1>1. ASSUME NEW c \in Cmds, Send(c) PROVE RequestsWatched'
  <2>1. FreshID(0) = deliverCmd + 1
    BY DEF FreshID
  <2>2. Register(c, 0, "own") /\ (Published(c, FreshID(0)) \/ Unpublished(FreshID(0)))
    BY <1>1, <2>1 DEF Send
  <2> QED
    BY <2>2, RegisterWatched
<1>2. ASSUME NEW c \in Cmds, FirstRetry(c) PROVE RequestsWatched'
  BY <1>2, RegisterWatched DEF FirstRetry
<1>3. ASSUME NEW c \in Cmds, Resend(c) PROVE RequestsWatched'
  BY <1>3, RegisterWatched DEF Resend
<1>4. CASE HandleReply
  BY <1>4 DEF HandleReply, removeRequest, RequestsWatched
<1>5. ASSUME NEW t \in timers, TimerFires(t) \/ TimerCalls(t) PROVE RequestsWatched'
  <2>1. PICK pc : timers' = (timers \ {t}) \cup {[t EXCEPT !.pc = pc]}
    BY <1>5 DEF TimerFires, Expire, TimerCalls
  <2>2. [t EXCEPT !.pc = pc].id = t.id
    BY DEF TypeOK, Timer
  <2>3. requests' = requests /\ unpublished' = unpublished
    BY <1>5 DEF TimerFires, Expire, TimerCalls
  <2> QED
    BY <2>1, <2>2, <2>3 DEF RequestsWatched
<1>6. ASSUME NEW t \in timers, TimerLeaves(t) PROVE RequestsWatched'
  BY <1>6 DEF TimerLeaves, removeRequest, Lookup, RequestsWatched
<1>7. ASSUME \/ \E c \in Cmds : DropFailure(c) \/ FirstRetryFault(c) \/ LaterRetry(c)
             \/ \E m \in wire : ClientReplies(m)
             \/ \E r \in replies : ReadRequest(r)
             \/ CloseConn
             \/ UNCHANGED vars
      PROVE  UNCHANGED <<requests, timers, unpublished>>
  BY <1>7 DEF DropFailure, FirstRetryFault, LaterRetry, ClientReplies, ReadRequest,
     CloseConn, vars
<1>8. ASSUME UNCHANGED <<requests, timers, unpublished>> PROVE RequestsWatched'
  BY <1>8 DEF RequestsWatched
<1> QED
  BY <1>1, <1>2, <1>3, <1>4, <1>5, <1>6, <1>7, <1>8 DEF Next

(***************************************************************************)
(* No callback outlives the goroutines of deliverAsync that watch its      *)
(* DeliverID, unless a publish under that DeliverID failed.                *)
(***************************************************************************)
THEOREM RequestsAreWatched == Spec => []RequestsWatched
<1>1. Init => RequestsWatched
  BY DEF Init, RequestsWatched
<1> QED
  BY <1>1, TypeCorrect, WatchedStep, PTL DEF Spec

-----------------------------------------------------------------------------
LEMMA RecoveredStep ==
    TypeOK /\ RecoveredWasAnswered /\ [Next]_vars => RecoveredWasAnswered'
<1> SUFFICES ASSUME TypeOK, RecoveredWasAnswered, [Next]_vars, NEW d \in Cmds,
                    record'[d] = "recovered"
             PROVE  d \in answered'
  BY DEF RecoveredWasAnswered
<1>1. ASSUME answered \subseteq answered', record'[d] = record[d] PROVE d \in answered'
  BY <1>1 DEF RecoveredWasAnswered
<1>2. ASSUME NEW c \in Cmds, FirstRetry(c) PROVE d \in answered'
  <2>1. record'[d] = record[d] \/ record'[d] = "open"
    BY <1>2 DEF FirstRetry, TypeOK
  <2> QED
    BY <1>1, <1>2, <2>1 DEF FirstRetry
<1>3. ASSUME NEW c \in Cmds, LaterRetry(c) PROVE d \in answered'
  <2>1. UNCHANGED record \/ SetRecovered(c, "open")
    BY <1>3 DEF LaterRetry
  <2>2. record'[d] = record[d] \/ record'[d] = "open"
    BY <2>1 DEF SetRecovered, TypeOK
  <2> QED
    BY <1>1, <1>3, <2>2 DEF LaterRetry
<1>4. CASE HandleReply
  <2>1. CASE rx.found = {}
    BY <1>1, <1>4, <2>1 DEF HandleReply
  <2>2. CASE rx.found # {}
    <3>1. PICK r \in rx.found : Callback(r)
      BY <1>4, <2>2 DEF HandleReply
    <3>2. \/ UNCHANGED <<record, answered>>
          \/ answered' = answered \cup {r.cmd} /\ UNCHANGED record
          \/ answered' = answered \cup {r.cmd} /\ SetRecovered(r.cmd, "recovered")
      BY <3>1 DEF Callback
    <3>3. record'[d] = record[d] \/ d = r.cmd
      BY <3>2 DEF SetRecovered, TypeOK
    <3> QED
      BY <1>1, <3>2, <3>3
  <2> QED
    BY <2>1, <2>2
<1>5. ASSUME \/ \E c \in Cmds : Send(c) \/ DropFailure(c) \/ FirstRetryFault(c) \/ Resend(c)
             \/ \E m \in wire : ClientReplies(m)
             \/ \E r \in replies : ReadRequest(r)
             \/ \E t \in timers : TimerFires(t) \/ TimerCalls(t) \/ TimerLeaves(t)
             \/ CloseConn
             \/ UNCHANGED vars
      PROVE  UNCHANGED <<record, answered>>
  BY <1>5 DEF Send, DropFailure, FirstRetryFault, Resend, ClientReplies,
     ReadRequest, TimerFires, Expire, TimerCalls, TimerLeaves, CloseConn, vars
<1> QED
  BY <1>1, <1>2, <1>3, <1>4, <1>5 DEF Next

(***************************************************************************)
(* SetWfRecovered(.., true) is only ever reached through a callback that a *)
(* reply has run: a record is not marked recovered by timeouts alone.      *)
(***************************************************************************)
THEOREM RecoveredIsAnswered == Spec => []RecoveredWasAnswered
<1>1. Init => RecoveredWasAnswered
  BY DEF Init, RecoveredWasAnswered
<1> QED
  BY <1>1, TypeCorrect, RecoveredStep, PTL DEF Spec

-----------------------------------------------------------------------------
(* No delivery is lost without a trace.  What carries a DeliverID and the  *)
(* command it is of, in the worker and on its way; and the failures that   *)
(* are reported and not yet taken.                                         *)
Held     == requests \cup timers \cup wire \cup replies \cup rx.found
Failures == {deliverErrs[i] : i \in 1..Len(deliverErrs)}

(* A first delivery, made and not yet retried.                             *)
First(c) == msg[c].Attempt > 0 /\ msg[c].Retry = "nil"

(* Every DeliverID was drawn from deliverCmd, and what the subscription    *)
(* found carries the reply's.                                              *)
Drawn ==
    /\ \A x \in Held \cup Failures : x.id <= deliverCmd
    /\ rx.id <= deliverCmd /\ \A r \in rx.found : r.id = rx.id
    /\ \A c \in Cmds : msg[c].DeliverID <= deliverCmd

(* Nothing is about a command before its first delivery.                   *)
Unheard(c) ==
    msg[c].Attempt = 0 =>
        msg[c].Retry = "nil" /\ \A x \in Held \cup Failures : x.cmd # c

(* The DeliverID of a first delivery is that command's alone, and one      *)
(* goroutine watches it.  A reply that comes while the callback is         *)
(* registered has found it.                                                *)
OwnID(c) ==
    First(c) =>
        /\ msg[c].DeliverID > 0
        /\ \A x \in Held \cup Failures : x.id = msg[c].DeliverID => x.cmd = c
        /\ \A x \in Held : x.cmd = c => x.id = msg[c].DeliverID
        /\ \A d \in Cmds \ {c} : msg[d].DeliverID # msg[c].DeliverID
        /\ \A t, u \in timers : t.cmd = c /\ u.cmd = c => t = u
        /\ rx.id = msg[c].DeliverID /\ Lookup(rx.id) # {} => rx.found # {}

Awaits(c) ==
    \/ \E f \in Failures : f.cmd = c
    \/ \E t \in timers : t.cmd = c /\ t.pc = "calling"
    \/ \E t \in timers : t.cmd = c /\ t.pc = "waiting" /\ Lookup(t.id) # {}
    \/ \E r \in rx.found : r.cmd = c

(* A first delivery that was not answered, and for which no call failed,   *)
(* is on its way to an answer or to a failure: its callback is registered  *)
(* and its goroutine waits, or someone has found the callback, or the      *)
(* failure is reported.                                                    *)
Pending(c) ==
    First(c) /\ Kind[c] # "Trigger" /\ c \notin answered /\ ioErr[c] \subseteq {"update"} =>
        Awaits(c)

(* A command that is retried has its record, or inserting it failed.       *)
Recorded(c) ==
    /\ msg[c].Retry = "rec" => record[c] # "none"
    /\ msg[c].Retry = "norec" => "insert" \in ioErr[c]
    /\ backoff[c] > 0 => msg[c].Retry # "nil"

TraceInv ==
    /\ Drawn
    /\ \A c \in Cmds : Unheard(c) /\ OwnID(c) /\ Pending(c) /\ Recorded(c)

LEMMA TraceIsLeft == TypeOK /\ RecoveredWasAnswered /\ TraceInv => NoSilentLoss
<1> SUFFICES ASSUME TypeOK, RecoveredWasAnswered, TraceInv, NEW c \in Cmds,
                    msg[c].Attempt > 0, AtRest(c), Kind[c] # "Trigger", c \notin answered,
                    ioErr[c] \subseteq {"update"}
             PROVE  record[c] = "open"
  BY DEF NoSilentLoss
<1>1. msg[c].Retry \in {"nil", "rec", "norec"} /\ record[c] \in {"none", "open", "recovered"}
  BY DEF TypeOK, Msg
<1>2. Pending(c) /\ Recorded(c)
  BY DEF TraceInv
<1>3. msg[c].Retry # "norec"
  BY <1>2 DEF Recorded
<1>4. msg[c].Retry # "nil"
  <2> SUFFICES ASSUME First(c) PROVE FALSE
    BY DEF First
  <2>1. \A f \in Failures : f.cmd # c
    BY DEF Failures, AtRest
  <2> QED
    BY <1>2, <2>1 DEF Pending, Awaits, AtRest
<1>5. record[c] # "none"
  BY <1>1, <1>2, <1>3, <1>4 DEF Recorded
<1> QED
  BY <1>1, <1>5 DEF RecoveredWasAnswered

LEMMA TraceHoldsFirst == Init => TraceInv
<1> SUFFICES ASSUME Init PROVE TraceInv
  OBVIOUS
<1>1. Held = {} /\ Failures = {} /\ rx.id = 0 /\ rx.found = {} /\ deliverCmd = 0
  BY SMTT(90) DEF Init, Held, Failures, Idle
<1>2. \A c \in Cmds : /\ msg[c].Attempt = 0 /\ msg[c].DeliverID = 0 /\ msg[c].Retry = "nil"
                      /\ backoff[c] = 0
  BY DEF Init
<1> QED
  BY <1>1, <1>2, SMTT(90) DEF TraceInv, Drawn, Unheard, OwnID, Pending, Recorded, First

(* The failures after one is reported, and after one is taken.             *)
LEMMA FailuresMore ==
    ASSUME TypeOK, NEW f \in Failure, deliverErrs' = Append(deliverErrs, f)
    PROVE  Failures' = Failures \cup {f}
<1>1. /\ deliverErrs \in Seq(Failure) /\ Len(deliverErrs') = Len(deliverErrs) + 1
      /\ \A i \in 1..Len(deliverErrs) : deliverErrs'[i] = deliverErrs[i]
      /\ deliverErrs'[Len(deliverErrs) + 1] = f
  BY SMTT(90) DEF TypeOK
<1>2. 1..Len(deliverErrs') = 1..Len(deliverErrs) \cup {Len(deliverErrs) + 1}
  BY <1>1, SMTT(90)
<1> QED
  BY <1>1, <1>2, SMTT(90) DEF Failures

LEMMA FailuresLess ==
    ASSUME TypeOK, deliverErrs # <<>>, deliverErrs' = Tail(deliverErrs)
    PROVE  /\ Failures' \subseteq Failures /\ Head(deliverErrs) \in Failures
           /\ Failures \subseteq Failures' \cup {Head(deliverErrs)}
<1>1. /\ deliverErrs \in Seq(Failure) /\ Len(deliverErrs) \in Nat /\ Len(deliverErrs) > 0
      /\ Head(deliverErrs) = deliverErrs[1]
      /\ Len(deliverErrs') = Len(deliverErrs) - 1
      /\ \A i \in 1..Len(deliverErrs') : deliverErrs'[i] = deliverErrs[i + 1]
  BY SMTT(90) DEF TypeOK
<1>2. ASSUME NEW i \in 1..Len(deliverErrs') PROVE deliverErrs'[i] \in Failures
  <2>1. i + 1 \in 1..Len(deliverErrs)
    BY <1>1, SMTT(90)
  <2> QED
    BY <1>1, <2>1 DEF Failures
<1>3. ASSUME NEW i \in 1..Len(deliverErrs), i # 1 PROVE deliverErrs[i] \in Failures'
  <2>1. i - 1 \in 1..Len(deliverErrs') /\ (i - 1) + 1 = i
    BY <1>1, <1>3, SMTT(90)
  <2>2. deliverErrs'[i - 1] = deliverErrs[i]
    BY <1>1, <2>1
  <2> QED
    BY <2>1, <2>2 DEF Failures
<1>4. 1 \in 1..Len(deliverErrs)
  BY <1>1, SMTT(90)
<1> QED
  <2>1. Failures' \subseteq Failures
    BY <1>2 DEF Failures
  <2>2. Head(deliverErrs) \in Failures
    BY <1>1, <1>4 DEF Failures
  <2>3. Failures \subseteq Failures' \cup {Head(deliverErrs)}
    <3> SUFFICES ASSUME NEW i \in 1..Len(deliverErrs)
                 PROVE  deliverErrs[i] \in Failures' \cup {Head(deliverErrs)}
      BY DEF Failures
    <3> QED
      BY <1>1, <1>3
  <2> QED
    BY <2>1, <2>2, <2>3

(* A step that publishes nothing carries DeliverIDs on: what it makes has  *)
(* the DeliverID and the command of something that was there.              *)
Carried ==
    /\ deliverCmd' = deliverCmd
    /\ \A x \in Held' : \E y \in Held : y.id = x.id /\ y.cmd = x.cmd
    /\ \A f \in Failures' : f \in Failures \/ \E y \in Held : y.id = f.id /\ y.cmd = f.cmd
    /\ \A c \in Cmds :
        /\ msg'[c].DeliverID = msg[c].DeliverID /\ msg'[c].Retry = msg[c].Retry
        /\ msg'[c].Attempt = 0 <=> msg[c].Attempt = 0
    /\ requests' \subseteq requests
    /\ \A t, u \in timers' : t.cmd = u.cmd /\ t # u =>
          \E v, w \in timers : v # w /\ v.cmd = t.cmd /\ w.cmd = t.cmd
    /\ \/ rx' = rx
       \/ rx' = Idle
       \/ /\ rx'.found = {r \in requests : r.id = rx'.id}
          /\ \E r \in replies : r.id = rx'.id

LEMMA FirstStays ==
    ASSUME TypeOK, TypeOK', NEW c \in Cmds, msg'[c].Retry = msg[c].Retry,
           msg'[c].Attempt = 0 <=> msg[c].Attempt = 0
    PROVE  First(c)' <=> First(c)
<1>1. msg[c].Attempt \in Nat /\ msg'[c].Attempt \in Nat
  BY DEF TypeOK, Msg
<1> QED
  BY <1>1, SMTT(90) DEF First

LEMMA CarriedKeeps ==
    ASSUME TypeOK, TypeOK', TraceInv, Carried
    PROVE  Drawn' /\ \A c \in Cmds : Unheard(c)' /\ OwnID(c)'
<1>1. Drawn'
  <2>1. \A x \in Held' \cup Failures' : x.id <= deliverCmd
    BY DEF TraceInv, Drawn, Carried
  <2>2. rx'.id <= deliverCmd /\ \A r \in rx'.found : r.id = rx'.id
    <3>1. CASE rx' = rx
      BY <3>1 DEF TraceInv, Drawn
    <3>2. CASE rx' = Idle
      BY <3>2, SMTT(90) DEF TypeOK, Idle
    <3>3. CASE /\ rx'.found = {r \in requests : r.id = rx'.id}
               /\ \E r \in replies : r.id = rx'.id
      BY <3>3 DEF TraceInv, Drawn, Held
    <3> QED
      BY <3>1, <3>2, <3>3 DEF Carried
  <2> QED
    BY <2>1, <2>2 DEF TraceInv, Drawn, Carried
<1> SUFFICES ASSUME NEW c \in Cmds PROVE Unheard(c)' /\ OwnID(c)'
  BY <1>1
<1>2. Unheard(c) /\ OwnID(c)
  BY DEF TraceInv
<1>3. Unheard(c)'
  BY <1>2, SMTT(90) DEF Unheard, Carried
<1>4. ASSUME First(c)' PROVE First(c)
  BY <1>4, FirstStays DEF Carried
<1> SUFFICES ASSUME First(c)' PROVE OwnID(c)'
  BY <1>3 DEF OwnID
<1>5. /\ msg'[c].DeliverID = msg[c].DeliverID /\ msg[c].DeliverID > 0
      /\ \A x \in Held \cup Failures : x.id = msg[c].DeliverID => x.cmd = c
      /\ \A x \in Held : x.cmd = c => x.id = msg[c].DeliverID
      /\ \A d \in Cmds \ {c} : msg[d].DeliverID # msg[c].DeliverID
      /\ \A t, u \in timers : t.cmd = c /\ u.cmd = c => t = u
      /\ rx.id = msg[c].DeliverID /\ Lookup(rx.id) # {} => rx.found # {}
  BY <1>2, <1>4 DEF OwnID, Carried
<1>6. /\ \A x \in Held' \cup Failures' : x.id = msg[c].DeliverID => x.cmd = c
      /\ \A x \in Held' : x.cmd = c => x.id = msg[c].DeliverID
  BY <1>5, SMTT(90) DEF Carried
<1>7. \A t, u \in timers' : t.cmd = c /\ u.cmd = c => t = u
  BY <1>5, SMTT(90) DEF Carried
<1>8. rx'.id = msg[c].DeliverID /\ Lookup(rx.id)' # {} => rx'.found # {}
  <2>1. CASE rx' = rx
    BY <1>5, <2>1 DEF Lookup, Carried
  <2>2. CASE rx' = Idle
    BY <1>5, <2>2, SMTT(90) DEF Idle
  <2>3. CASE rx'.found = {r \in requests : r.id = rx'.id}
    BY <2>3 DEF Lookup, Carried
  <2> QED
    BY <2>1, <2>2, <2>3 DEF Carried
<1>9. \A d \in Cmds \ {c} : msg'[d].DeliverID # msg'[c].DeliverID
  BY <1>5 DEF Carried
<1> QED
  BY <1>5, <1>6, <1>7, <1>8, <1>9 DEF OwnID

(* The record of a command that goes on as it was.                         *)
LEMMA RecordedKeeps ==
    ASSUME NEW c \in Cmds, Recorded(c), msg'[c].Retry = msg[c].Retry,
           record'[c] = "none" => record[c] = "none", ioErr[c] \subseteq ioErr'[c],
           backoff'[c] > 0 => backoff[c] > 0 \/ msg[c].Retry # "nil"
    PROVE  Recorded(c)'
BY DEF Recorded

LEMMA ReplyArrives ==
    ASSUME TypeOK, TraceInv, HandleReply
    PROVE  /\ UNCHANGED <<msg, backoff, ioErr, timers, deliverCmd>> /\ rx'.found = {}
           /\ \/ rx.found = {} /\ UNCHANGED <<deliverErrs, record, answered>>
              \/ \E r \in rx.found :
                    /\ r.cmd \in Cmds /\ r.id = rx.id
                    /\ \/ /\ deliverErrs' = Append(deliverErrs, [cmd |-> r.cmd, id |-> r.id])
                          /\ [cmd |-> r.cmd, id |-> r.id] \in Failure
                          /\ UNCHANGED <<record, answered>>
                       \/ /\ answered' = answered \cup {r.cmd} /\ UNCHANGED deliverErrs
                          /\ \A c \in Cmds : record'[c] = "none" => record[c] = "none"
<1>1. UNCHANGED <<msg, backoff, ioErr, timers, deliverCmd>> /\ rx'.found = {}
  BY DEF HandleReply, Idle
<1>2. CASE rx.found = {}
  BY <1>1, <1>2 DEF HandleReply
<1>3. CASE rx.found # {}
  <2>1. PICK r \in rx.found : Callback(r)
    BY <1>3 DEF HandleReply
  <2>2. r.cmd \in Cmds /\ r.id = rx.id /\ r.id \in Nat
    BY DEF TypeOK, Handling, Request, TraceInv, Drawn
  <2>3. [cmd |-> r.cmd, id |-> r.id] \in Failure
    BY <2>2 DEF Failure
  <2>4. \/ wrapDeliverErr(r.cmd, rx.id) /\ UNCHANGED <<record, answered>>
        \/ /\ answered' = answered \cup {r.cmd} /\ UNCHANGED deliverErrs
           /\ SetRecovered(r.cmd, "recovered") \/ UNCHANGED record
    BY <2>1 DEF Callback
  <2>5. SetRecovered(r.cmd, "recovered") => \A c \in Cmds : record'[c] = "none" => record[c] = "none"
    BY <2>2 DEF SetRecovered, TypeOK
  <2> QED
    BY <1>1, <2>2, <2>3, <2>4, <2>5 DEF wrapDeliverErr
<1> QED
  BY <1>2, <1>3

(* The steps that publish nothing, one by one.                             *)
LEMMA TakenCarried ==
    ASSUME TypeOK, TraceInv, NEW c \in Cmds,
           DropFailure(c) \/ FirstRetryFault(c) \/ LaterRetry(c)
    PROVE  Carried
<1>1. deliverErrs # <<>> /\ deliverErrs' = Tail(deliverErrs)
  BY DEF DropFailure, FirstRetryFault, LaterRetry, NextFailure
<1>2. UNCHANGED <<deliverCmd, requests, timers, wire, replies, rx>>
  BY DEF DropFailure, FirstRetryFault, LaterRetry
<1>3. UNCHANGED Held
  BY <1>2 DEF Held
<1>4. \A d \in Cmds : /\ msg'[d].DeliverID = msg[d].DeliverID /\ msg'[d].Retry = msg[d].Retry
                      /\ msg'[d].Attempt = 0 <=> msg[d].Attempt = 0
  <2>1. CASE UNCHANGED msg
    BY <2>1
  <2>2. CASE LaterRetry(c) /\ msg' = [msg EXCEPT ![c].Attempt = @ + 1] /\ ~OverLimit(c)
    <3>1. msg[c].Attempt \in Nat /\ msg[c].Attempt # 0
      BY <2>2 DEF LaterRetry, TypeOK, Msg, TraceInv, Unheard
    <3>2. msg[c].Attempt + 1 # 0
      BY <3>1, SMTT(90)
    <3> QED
      BY <2>2, <3>1, <3>2 DEF TypeOK, Msg
  <2> QED
    BY <2>1, <2>2 DEF DropFailure, FirstRetryFault, LaterRetry
<1> QED
  BY <1>1, <1>2, <1>3, <1>4, FailuresLess DEF Carried

LEMMA RepliesCarried ==
    ASSUME TypeOK, NEW m \in wire, ClientReplies(m)
    PROVE  Carried
<1>1. /\ UNCHANGED <<deliverCmd, msg, requests, timers, rx, deliverErrs>>
      /\ wire' \subseteq wire /\ \A r \in replies' : r \in replies \/ (r.id = m.id /\ r.cmd = m.cmd)
  BY SMTT(90) DEF ClientReplies
<1>2. \A x \in Held' : x \in Held \/ (x.id = m.id /\ x.cmd = m.cmd)
  BY <1>1 DEF Held
<1>3. UNCHANGED Failures /\ m \in Held
  BY <1>1 DEF Failures, Held
<1> QED
  BY <1>1, <1>2, <1>3 DEF Carried

LEMMA ReadCarried ==
    ASSUME TypeOK, NEW r \in replies, ReadRequest(r)
    PROVE  Carried
<1>1. /\ UNCHANGED <<deliverCmd, msg, requests, timers, wire, deliverErrs>>
      /\ replies' \subseteq replies
      /\ rx'.id = r.id /\ rx'.found = {q \in requests : q.id = r.id}
  BY DEF ReadRequest, Lookup
<1>2. Held' \subseteq Held /\ UNCHANGED Failures
  BY <1>1 DEF Held, Failures
<1> QED
  BY <1>1, <1>2 DEF Carried

LEMMA ReplyCarried ==
    ASSUME TypeOK, TraceInv, HandleReply
    PROVE  Carried
<1>1. /\ UNCHANGED <<deliverCmd, msg, timers, wire, replies>> /\ rx' = Idle
      /\ requests' \subseteq requests /\ rx'.found = {}
  BY DEF HandleReply, removeRequest, Idle
<1>2. Held' \subseteq Held
  BY <1>1 DEF Held
<1>3. \A f \in Failures' : f \in Failures \/ \E y \in Held : y.id = f.id /\ y.cmd = f.cmd
  <2>1. CASE UNCHANGED deliverErrs
    BY <2>1 DEF Failures
  <2>2. ASSUME NEW r \in rx.found, [cmd |-> r.cmd, id |-> r.id] \in Failure,
               deliverErrs' = Append(deliverErrs, [cmd |-> r.cmd, id |-> r.id])
        PROVE  \A f \in Failures' : f \in Failures \/ \E y \in Held : y.id = f.id /\ y.cmd = f.cmd
    <3>1. Failures' = Failures \cup {[cmd |-> r.cmd, id |-> r.id]} /\ r \in Held
      BY <2>2, FailuresMore DEF Held
    <3> QED
      BY <3>1, SMTT(90)
  <2> QED
    BY <2>1, <2>2, ReplyArrives
<1> QED
  BY <1>1, <1>2, <1>3 DEF Carried

LEMMA TimersCarried ==
    ASSUME TypeOK, NEW t \in timers, TimerFires(t) \/ TimerCalls(t) \/ TimerLeaves(t)
    PROVE  Carried
<1>1. /\ UNCHANGED <<deliverCmd, msg, wire, replies, rx>> /\ requests' \subseteq requests
  BY DEF TimerFires, Expire, TimerCalls, TimerLeaves, removeRequest
<1>2. /\ t \in Timer /\ t.id \in Nat /\ t.cmd \in Cmds /\ t \in Held
      /\ \A pc : [t EXCEPT !.pc = pc].id = t.id /\ [t EXCEPT !.pc = pc].cmd = t.cmd
  BY DEF TypeOK, Timer, Held
<1>3. \/ timers' = timers \ {t}
      \/ \E u : u.id = t.id /\ u.cmd = t.cmd /\ timers' = (timers \ {t}) \cup {u}
  BY <1>2 DEF TimerFires, Expire, TimerCalls, TimerLeaves
<1>4. \A x \in timers' : \E y \in timers : y.id = x.id /\ y.cmd = x.cmd
  BY <1>3
<1>5. \A x, y \in timers' : x.cmd = y.cmd /\ x # y =>
         \E v, w \in timers : v # w /\ v.cmd = x.cmd /\ w.cmd = x.cmd
  BY <1>3
<1>6. \A x \in Held' : \E y \in Held : y.id = x.id /\ y.cmd = x.cmd
  BY <1>1, <1>4 DEF Held
<1>7. \A f \in Failures' : f \in Failures \/ \E y \in Held : y.id = f.id /\ y.cmd = f.cmd
  <2>1. CASE UNCHANGED deliverErrs
    BY <2>1 DEF Failures
  <2>2. CASE TimerCalls(t)
    <3>1. [cmd |-> t.cmd, id |-> t.id] \in Failure
      BY <1>2 DEF Failure
    <3>2. Failures' = Failures \cup {[cmd |-> t.cmd, id |-> t.id]}
      BY <2>2, <3>1, FailuresMore DEF TimerCalls, wrapDeliverErr
    <3> QED
      BY <1>2, <3>2, SMTT(90)
  <2> QED
    BY <2>1, <2>2 DEF TimerFires, Expire, TimerLeaves
<1> QED
  BY <1>1, <1>5, <1>6, <1>7 DEF Carried

LEMMA TakenPending ==
    ASSUME TypeOK, TraceInv, NEW c \in Cmds, NEW d \in Cmds, Awaits(d), First(d),
           Kind[d] # "Trigger", ioErr'[d] \subseteq {"update"},
           DropFailure(c) \/ FirstRetryFault(c) \/ LaterRetry(c)
    PROVE  Awaits(d)'
<1>1. deliverErrs # <<>> /\ deliverErrs' = Tail(deliverErrs) /\ Head(deliverErrs).cmd = c
  BY DEF DropFailure, FirstRetryFault, LaterRetry, NextFailure
<1>2. UNCHANGED <<requests, timers, rx>>
  BY DEF DropFailure, FirstRetryFault, LaterRetry
<1>3. d # c
  <2>1. CASE DropFailure(c)
    BY <2>1 DEF DropFailure, Retried
  <2>2. CASE FirstRetryFault(c)
    BY <2>2 DEF FirstRetryFault, Failed, TypeOK
  <2>3. CASE LaterRetry(c)
    BY <2>3 DEF LaterRetry, First
  <2> QED
    BY <2>1, <2>2, <2>3
<1>4. \A f \in Failures : f.cmd = d => f \in Failures'
  BY <1>1, <1>3, FailuresLess
<1> QED
  BY <1>2, <1>4 DEF Awaits, Lookup

LEMMA ReplyPending ==
    ASSUME TypeOK, TraceInv, NEW d \in Cmds, Awaits(d), First(d), d \notin answered', HandleReply
    PROVE  Awaits(d)'
<1>1. timers' = timers /\ requests' = removeRequest(rx.id)
  BY DEF HandleReply
<1>2. /\ \A x \in Held \cup Failures : x.id = msg[d].DeliverID => x.cmd = d
      /\ \A x \in Held : x.cmd = d => x.id = msg[d].DeliverID
      /\ rx.id = msg[d].DeliverID /\ Lookup(rx.id) # {} => rx.found # {}
  BY DEF TraceInv, OwnID
<1>3. CASE \E r \in rx.found : r.cmd = d
  <2>1. rx.id = msg[d].DeliverID /\ \A r \in rx.found : r.cmd = d
    BY <1>2, <1>3 DEF Held, TraceInv, Drawn
  <2>2. PICK r \in rx.found :
          /\ r.cmd = d /\ [cmd |-> r.cmd, id |-> r.id] \in Failure
          /\ deliverErrs' = Append(deliverErrs, [cmd |-> r.cmd, id |-> r.id])
    BY <1>3, <2>1, ReplyArrives
  <2>3. [cmd |-> r.cmd, id |-> r.id] \in Failures'
    BY <2>2, FailuresMore
  <2> QED
    BY <2>2, <2>3 DEF Awaits
<1>4. CASE ~ \E r \in rx.found : r.cmd = d
  <2>1. ASSUME rx.id = msg[d].DeliverID PROVE Lookup(rx.id) = {}
    BY <1>2, <1>4, <2>1 DEF Held, TraceInv, Drawn
  <2>2. ASSUME NEW t \in timers, t.cmd = d, Lookup(t.id) # {} PROVE Lookup(t.id)' # {}
    <3>1. t.id = msg[d].DeliverID /\ t.id # rx.id
      BY <1>2, <2>1, <2>2 DEF Held
    <3> QED
      BY <1>1, <2>2, <3>1 DEF removeRequest, Lookup
  <2>3. Failures \subseteq Failures'
    <3>1. CASE UNCHANGED deliverErrs
      BY <3>1 DEF Failures
    <3>2. ASSUME NEW f \in Failure, deliverErrs' = Append(deliverErrs, f)
          PROVE  Failures \subseteq Failures'
      BY <3>2, FailuresMore
    <3> QED
      BY <3>1, <3>2, ReplyArrives
  <2> QED
    BY <1>1, <1>4, <2>2, <2>3 DEF Awaits
<1> QED
  BY <1>3, <1>4

LEMMA TimersPending ==
    ASSUME TypeOK, TraceInv, NEW d \in Cmds, Awaits(d), First(d), NEW t \in timers,
           TimerFires(t) \/ TimerCalls(t) \/ TimerLeaves(t)
    PROVE  Awaits(d)'
<1>1. /\ \A x \in Held : x.id = msg[d].DeliverID => x.cmd = d
      /\ \A x \in Held : x.cmd = d => x.id = msg[d].DeliverID
      /\ \A u, v \in timers : u.cmd = d /\ v.cmd = d => u = v
  BY DEF TraceInv, OwnID
<1>2. /\ rx' = rx /\ t \in Timer /\ t.id \in Nat /\ t.cmd \in Cmds
  BY DEF TimerFires, Expire, TimerCalls, TimerLeaves, TypeOK, Timer
<1>3. CASE TimerFires(t)
  <2>1. PICK u : /\ u = [t EXCEPT !.pc = IF Lookup(t.id) = {} THEN "leaving" ELSE "calling"]
                 /\ timers' = (timers \ {t}) \cup {u}
    BY <1>3 DEF TimerFires, Expire
  <2>2. u.cmd = t.cmd /\ (Lookup(t.id) # {} => u.pc = "calling") /\ t.pc = "waiting"
    BY <1>2, <1>3, <2>1 DEF Timer, TimerFires
  <2>3. requests' = requests /\ deliverErrs' = deliverErrs
    BY <1>3 DEF TimerFires, Expire
  <2>4. Failures' = Failures /\ \A x : Lookup(x)' = Lookup(x)
    BY <2>3 DEF Failures, Lookup
  <2>5. \A v \in timers : v # t => v \in timers'
    BY <2>1
  <2>6. u \in timers'
    BY <2>1
  <2>7. t.cmd = d /\ Lookup(t.id) # {} => Awaits(d)'
    BY <2>2, <2>6 DEF Awaits
  <2>8. t.pc # "calling"
    BY <2>2
  <2> QED
    BY <1>2, <2>4, <2>5, <2>7, <2>8 DEF Awaits
<1>4. CASE TimerCalls(t)
  <2>1. [cmd |-> t.cmd, id |-> t.id] \in Failure
    BY <1>2 DEF Failure
  <2>2. Failures' = Failures \cup {[cmd |-> t.cmd, id |-> t.id]}
    BY <1>4, <2>1, FailuresMore DEF TimerCalls, wrapDeliverErr
  <2>3. requests' = requests /\ t.pc = "calling" /\ \A u \in timers \ {t} : u \in timers'
    BY <1>4 DEF TimerCalls
  <2>4. CASE t.cmd = d
    <3>1. PICK f : f = [cmd |-> t.cmd, id |-> t.id]
      OBVIOUS
    <3>2. f \in Failures' /\ f.cmd = d
      BY <2>2, <2>4, <3>1
    <3> QED
      BY <3>2 DEF Awaits
  <2>5. CASE t.cmd # d
    BY <1>2, <2>2, <2>3, <2>5 DEF Awaits, Lookup
  <2> QED
    BY <2>4, <2>5
<1>5. CASE TimerLeaves(t)
  <2>1. timers' = timers \ {t} /\ requests' = removeRequest(t.id) /\ t.pc = "leaving"
    BY <1>5 DEF TimerLeaves
  <2>2. UNCHANGED Failures
    BY <1>5 DEF TimerLeaves, Failures
  <2>3. ASSUME NEW u \in timers, u.cmd = d, u # t PROVE u.id # t.id
    BY <1>1, <2>3 DEF Held
  <2>4. ASSUME NEW u \in timers, u.cmd = d, u # t, Lookup(u.id) # {} PROVE Lookup(u.id)' # {}
    BY <2>1, <2>3, <2>4 DEF removeRequest, Lookup
  <2>5. ASSUME NEW u \in timers, u.pc \in {"calling", "waiting"} PROVE u # t
    BY <2>1, <2>5
  <2> QED
    BY <1>2, <2>1, <2>2, <2>4, <2>5 DEF Awaits
<1> QED
  BY <1>3, <1>4, <1>5

LEMMA CarriedStep ==
    ASSUME TypeOK, TypeOK', TraceInv, Carried,
           \A c \in Cmds : /\ record'[c] = "none" => record[c] = "none"
                           /\ ioErr[c] \subseteq ioErr'[c]
                           /\ backoff'[c] > 0 => backoff[c] > 0 \/ msg[c].Retry # "nil",
           answered \subseteq answered',
           \A d \in Cmds : /\ Awaits(d) /\ First(d) /\ Kind[d] # "Trigger"
                           /\ d \notin answered' /\ ioErr'[d] \subseteq {"update"}
                           => Awaits(d)'
    PROVE  TraceInv'
<1>1. Drawn' /\ \A c \in Cmds : Unheard(c)' /\ OwnID(c)'
  BY CarriedKeeps
<1>2. ASSUME NEW c \in Cmds PROVE Recorded(c)'
  <2>1. Recorded(c) /\ msg'[c].Retry = msg[c].Retry
    BY DEF TraceInv, Carried
  <2> QED
    BY <2>1, RecordedKeeps
<1>3. ASSUME NEW c \in Cmds PROVE Pending(c)'
  <2>1. First(c)' => First(c)
    BY FirstStays DEF Carried
  <2>2. Pending(c)
    BY DEF TraceInv
  <2> QED
    BY <2>1, <2>2 DEF Pending
<1> QED
  BY <1>1, <1>2, <1>3 DEF TraceInv

(* A step that publishes: what it makes has one DeliverID, and is of one   *)
(* command.                                                                *)
LEMMA PublishMakes ==
    ASSUME TypeOK, TraceInv, NEW c \in Cmds, NEW did \in Nat, did <= deliverCmd, NEW cb,
           Register(c, did, cb), UNCHANGED <<replies, rx>>,
           Published(c, FreshID(did)) \/ Unpublished(FreshID(did))
    PROVE  /\ \A x \in Held' : x \in Held \/ (x.id = FreshID(did) /\ x.cmd = c)
           /\ deliverCmd' \in Nat /\ deliverCmd <= deliverCmd' /\ FreshID(did) <= deliverCmd'
           /\ FreshID(did) = did \/ (did = 0 /\ FreshID(did) = deliverCmd + 1)
           /\ timers \subseteq timers'
           /\ \A t, u \in timers' : t = u \/ t \in timers \/ u \in timers
           /\ \A t \in timers' : t \in timers \/ t.cmd = c
           /\ \A i : i # FreshID(did) => Lookup(i)' = Lookup(i)
<1>1. deliverCmd \in Nat
  BY DEF TypeOK
<1>2. PICK q : q = [id |-> FreshID(did), cmd |-> c, cb |-> cb]
  OBVIOUS
<1>3. q.id = FreshID(did) /\ q.cmd = c /\ requests' = removeRequest(FreshID(did)) \cup {q}
  BY <1>2 DEF Register, addRequest
<1>4. PICK m, t : /\ m = [id |-> FreshID(did), cmd |-> c, n |-> sends[c] + 1]
                  /\ t = [id |-> FreshID(did), cmd |-> c, n |-> sends[c] + 1, pc |-> "waiting"]
  OBVIOUS
<1>5. m.id = FreshID(did) /\ m.cmd = c /\ t.id = FreshID(did) /\ t.cmd = c
  BY <1>4
<1>6. \/ wire' = wire \cup {m} /\ timers' = timers \cup {t}
      \/ UNCHANGED <<wire, timers>>
  BY <1>4 DEF Published, Unpublished
<1>7. \A x \in Held' : x \in Held \/ (x.id = FreshID(did) /\ x.cmd = c)
  BY <1>3, <1>5, <1>6 DEF Held, removeRequest
<1>8. \A i : i # FreshID(did) => Lookup(i)' = Lookup(i)
  BY <1>3 DEF removeRequest, Lookup
<1>9. /\ deliverCmd' \in Nat /\ deliverCmd <= deliverCmd' /\ FreshID(did) <= deliverCmd'
      /\ FreshID(did) = did \/ (did = 0 /\ FreshID(did) = deliverCmd + 1)
  BY <1>1, SMTT(90) DEF Register, FreshID
<1> QED
  BY <1>5, <1>6, <1>7, <1>8, <1>9

(* It leaves the other commands alone.                                     *)
LEMMA PublishSpares ==
    ASSUME TypeOK, TypeOK', TraceInv, NEW c \in Cmds, NEW did \in Nat, did <= deliverCmd, NEW cb,
           Register(c, did, cb), UNCHANGED <<replies, rx, answered>>,
           Published(c, FreshID(did)) \/ Unpublished(FreshID(did)),
           \A f \in Failures' : f \in Failures \/ (f.cmd = c /\ f.id = 0),
           \A f \in Failures : f.cmd # c => f \in Failures',
           NEW d \in Cmds, d # c, msg'[d] = msg[d], ioErr'[d] = ioErr[d],
           First(d) => did # msg[d].DeliverID /\ msg'[c].DeliverID # msg[d].DeliverID,
           \A e \in Cmds \ {c} : msg'[e] = msg[e]
    PROVE  Unheard(d)' /\ OwnID(d)' /\ Pending(d)'
<1>1. /\ \A x \in Held' : x \in Held \/ (x.id = FreshID(did) /\ x.cmd = c)
      /\ FreshID(did) = did \/ (did = 0 /\ FreshID(did) = deliverCmd + 1)
      /\ timers \subseteq timers'
      /\ \A t \in timers' : t \in timers \/ t.cmd = c
      /\ \A i : i # FreshID(did) => Lookup(i)' = Lookup(i)
  BY PublishMakes
<1>2. Unheard(d) /\ OwnID(d) /\ Pending(d)
  BY DEF TraceInv
<1>3. Unheard(d)'
  BY <1>1, <1>2 DEF Unheard
<1>4. First(d)' <=> First(d)
  BY DEF First
<1> SUFFICES ASSUME First(d) PROVE OwnID(d)' /\ Pending(d)'
  BY <1>3, <1>4 DEF OwnID, Pending
<1>5. /\ msg[d].DeliverID > 0 /\ msg[d].DeliverID <= deliverCmd
      /\ \A x \in Held \cup Failures : x.id = msg[d].DeliverID => x.cmd = d
      /\ \A x \in Held : x.cmd = d => x.id = msg[d].DeliverID
      /\ \A e \in Cmds \ {d} : msg[e].DeliverID # msg[d].DeliverID
      /\ \A t, u \in timers : t.cmd = d /\ u.cmd = d => t = u
      /\ rx.id = msg[d].DeliverID /\ Lookup(rx.id) # {} => rx.found # {}
  BY <1>2 DEF OwnID, TraceInv, Drawn
<1>6. FreshID(did) # msg[d].DeliverID /\ msg[d].DeliverID # 0
  <2>1. deliverCmd \in Nat /\ msg[d].DeliverID \in Nat
    BY DEF TypeOK, Msg
  <2>2. msg[d].DeliverID # deliverCmd + 1 /\ msg[d].DeliverID # 0
    <3>1. msg[d].DeliverID > 0 /\ msg[d].DeliverID <= deliverCmd
      BY <1>5
    <3> QED
      BY <2>1, <3>1, SMTT(90)
  <2>3. FreshID(did) = did \/ FreshID(did) = deliverCmd + 1
    BY <1>1
  <2>4. did # msg[d].DeliverID
    OBVIOUS
  <2> QED
    BY <2>2, <2>3, <2>4
<1>7. OwnID(d)'
  BY <1>1, <1>5, <1>6 DEF OwnID
<1>8. Awaits(d) => Awaits(d)'
  BY <1>1, <1>5, <1>6 DEF Awaits, Held
<1> QED
  BY <1>2, <1>7, <1>8 DEF Pending

LEMMA FailedGrows ==
    ASSUME TypeOK, NEW c \in Cmds, NEW call, Failed(c, call) \/ UNCHANGED ioErr
    PROVE  /\ \A d \in Cmds : ioErr[d] \subseteq ioErr'[d]
           /\ \A d \in Cmds \ {c} : ioErr'[d] = ioErr[d]
<1>1. CASE UNCHANGED ioErr
  BY <1>1
<1>2. CASE Failed(c, call)
  <2>1. /\ ioErr'[c] = ioErr[c] \cup {call}
        /\ \A d \in Cmds \ {c} : ioErr'[d] = ioErr[d]
    BY <1>2 DEF Failed, TypeOK
  <2> QED
    BY <2>1
<1> QED
  BY <1>1, <1>2

LEMMA IdsAreNumbers ==
    ASSUME TypeOK PROVE \A x \in Held \cup Failures : x.id \in Nat
<1>1. /\ \A x \in requests : x.id \in Nat
      /\ \A x \in timers : x.id \in Nat
      /\ \A x \in wire : x.id \in Nat
      /\ \A x \in replies : x.id \in Nat
  BY DEF TypeOK, Request, Timer, Envelope, Reply
<1>2. \A x \in rx.found : x.id \in Nat
  BY DEF TypeOK, Handling, Request
<1>3. \A x \in Failures : x.id \in Nat
  <2>1. \A i \in 1..Len(deliverErrs) : deliverErrs[i] \in Failure
    BY SMTT(90) DEF TypeOK
  <2> QED
    BY <2>1 DEF Failures, Failure
<1> QED
  BY <1>1, <1>2, <1>3 DEF Held

LEMMA SendTrace ==
    ASSUME TypeOK, TypeOK', TraceInv, NEW c \in Cmds, Send(c)
    PROVE  TraceInv'
<1>1. deliverCmd \in Nat /\ 0 <= deliverCmd /\ FreshID(0) = deliverCmd + 1
  BY SMTT(90) DEF TypeOK, FreshID
<1>2. /\ Register(c, 0, "own") /\ UNCHANGED <<replies, rx, answered, record, backoff>>
      /\ Published(c, FreshID(0)) \/ Unpublished(FreshID(0))
  BY <1>1 DEF Send
<1>3. /\ \A x \in Held' : x \in Held \/ (x.id = FreshID(0) /\ x.cmd = c)
      /\ deliverCmd' \in Nat /\ deliverCmd <= deliverCmd' /\ FreshID(0) <= deliverCmd'
      /\ timers \subseteq timers'
      /\ \A t, u \in timers' : t = u \/ t \in timers \/ u \in timers
  BY <1>1, <1>2, PublishMakes
<1>m. deliverCmd \in Nat /\ deliverCmd' \in Nat /\ deliverCmd + 1 <= deliverCmd'
  BY <1>1, <1>3
<1>4. /\ msg'[c].DeliverID = deliverCmd + 1 /\ msg'[c].Attempt = 1 /\ msg'[c].Retry = msg[c].Retry
      /\ \A d \in Cmds \ {c} : msg'[d] = msg[d]
  BY DEF Send, TypeOK, Msg
<1>5. /\ msg[c].Retry = "nil" /\ \A x \in Held \cup Failures : x.cmd # c
  BY DEF Send, TraceInv, Unheard
<1>6. /\ \A d \in Cmds : ioErr[d] \subseteq ioErr'[d]
      /\ \A d \in Cmds \ {c} : ioErr'[d] = ioErr[d]
  <2>1. Failed(c, "send") \/ UNCHANGED ioErr
    BY DEF Send
  <2> QED
    BY <2>1, FailedGrows
<1>7. /\ \A f \in Failures' : f \in Failures \/ (f.cmd = c /\ f.id = 0)
      /\ Failures \subseteq Failures'
      /\ deliverErrs' # deliverErrs => \E f \in Failures' : f.cmd = c
  <2>1. CASE UNCHANGED deliverErrs
    BY <2>1 DEF Failures
  <2>2. CASE wrapDeliverErr(c, 0)
    <3>1. PICK f : f = [cmd |-> c, id |-> 0]
      OBVIOUS
    <3>2. f \in Failure /\ f.cmd = c /\ f.id = 0
      BY <3>1 DEF Failure
    <3>3. Failures' = Failures \cup {f}
      BY <2>2, <3>1, <3>2, FailuresMore DEF wrapDeliverErr
    <3> QED
      BY <3>2, <3>3
  <2> QED
    BY <2>1, <2>2 DEF Send
<1>8. Drawn /\ \A d \in Cmds : msg[d].DeliverID \in Nat
  BY DEF TraceInv, TypeOK, Msg
<1>9. Drawn'
  <2>1. \A x \in Held \cup Failures : x.id <= deliverCmd'
    <3> SUFFICES ASSUME NEW x \in Held \cup Failures PROVE x.id <= deliverCmd'
      OBVIOUS
    <3>1. x.id \in Nat /\ x.id <= deliverCmd
      BY <1>8, IdsAreNumbers DEF Drawn
    <3> QED
      BY <1>m, <3>1, SMTT(90)
  <2>2. \A x \in Held' \cup Failures' : x.id <= deliverCmd'
    <3> SUFFICES ASSUME NEW x \in Held' \cup Failures' PROVE x.id <= deliverCmd'
      OBVIOUS
    <3>1. x \in Held \cup Failures \/ x.id = deliverCmd + 1 \/ x.id = 0
      BY <1>1, <1>3, <1>7
    <3> QED
      BY <1>m, <2>1, <3>1, SMTT(90)
  <2>3. ASSUME NEW d \in Cmds PROVE msg'[d].DeliverID <= deliverCmd'
    <3>1. msg[d].DeliverID \in Nat /\ msg[d].DeliverID <= deliverCmd
      BY <1>8 DEF Drawn
    <3>2. msg'[d].DeliverID = msg[d].DeliverID \/ msg'[d].DeliverID = deliverCmd + 1
      BY <1>4
    <3> QED
      BY <1>m, <3>1, <3>2, SMTT(90)
  <2>4. rx.id \in Nat /\ rx.id <= deliverCmd /\ \A r \in rx.found : r.id = rx.id
    BY <1>8 DEF TypeOK, Handling, Drawn
  <2>5. rx.id <= deliverCmd'
    BY <1>m, <2>4, SMTT(90)
  <2> QED
    BY <1>2, <2>2, <2>3, <2>4, <2>5 DEF Drawn
<1>10. ASSUME NEW d \in Cmds, d # c PROVE Unheard(d)' /\ OwnID(d)' /\ Pending(d)'
  <2>1. First(d) => 0 # msg[d].DeliverID /\ msg'[c].DeliverID # msg[d].DeliverID
    <3> SUFFICES ASSUME First(d)
                 PROVE  0 # msg[d].DeliverID /\ msg'[c].DeliverID # msg[d].DeliverID
      OBVIOUS
    <3>1. msg[d].DeliverID \in Nat /\ msg[d].DeliverID > 0 /\ msg[d].DeliverID <= deliverCmd
      BY <1>8 DEF TraceInv, OwnID, Drawn
    <3>2. msg[d].DeliverID # 0 /\ msg[d].DeliverID # deliverCmd + 1
      BY <1>1, <3>1, SMTT(90)
    <3> QED
      BY <1>4, <3>2
  <2> QED
    BY <1>1, <1>2, <1>4, <1>6, <1>7, <1>10, <2>1, PublishSpares
<1>11. Unheard(c)'
  BY <1>4, SMTT(90) DEF Unheard
<1>12. OwnID(c)'
  <2>1. /\ \A x \in Held \cup Failures : x.id # deliverCmd + 1
        /\ \A d \in Cmds : msg[d].DeliverID # deliverCmd + 1
        /\ rx.id # deliverCmd + 1
    <3>1. \A i \in Nat : i <= deliverCmd => i # deliverCmd + 1
      BY <1>m, SMTT(90)
    <3>2. \A x \in Held \cup Failures : x.id \in Nat /\ x.id <= deliverCmd
      BY <1>8, IdsAreNumbers DEF Drawn
    <3>3. rx.id \in Nat /\ rx.id <= deliverCmd
      BY <1>8 DEF Drawn, TypeOK, Handling
    <3>4. \A d \in Cmds : msg[d].DeliverID \in Nat /\ msg[d].DeliverID <= deliverCmd
      BY <1>8 DEF Drawn
    <3> QED
      BY <3>1, <3>2, <3>3, <3>4
  <2>2. \A t, u \in timers' : t.cmd = c /\ u.cmd = c => t = u
    BY <1>3, <1>5 DEF Held
  <2> QED
    BY <1>1, <1>2, <1>3, <1>4, <1>5, <1>7, <2>1, <2>2, SMTT(90) DEF OwnID
<1>13. Pending(c)'
  <2>1. CASE Published(c, deliverCmd + 1)
    <3>1. PICK t : t = [id |-> deliverCmd + 1, cmd |-> c, n |-> sends[c] + 1, pc |-> "waiting"]
      OBVIOUS
    <3>2. t \in timers' /\ t.cmd = c /\ t.pc = "waiting" /\ t.id = deliverCmd + 1
      BY <2>1, <3>1 DEF Published
    <3>3. PICK q : q = [id |-> deliverCmd + 1, cmd |-> c, cb |-> "own"]
      OBVIOUS
    <3>4. q.id = deliverCmd + 1 /\ q \in requests'
      BY <1>1, <1>2, <3>3 DEF Register, addRequest
    <3>5. Lookup(t.id)' # {}
      BY <3>2, <3>4 DEF Lookup
    <3> QED
      BY <3>2, <3>5 DEF Pending, Awaits
  <2>2. CASE wrapDeliverErr(c, 0)
    <3>1. deliverErrs' # deliverErrs
      BY <2>2, SMTT(90) DEF wrapDeliverErr, TypeOK
    <3> QED
      BY <1>7, <3>1 DEF Pending, Awaits
  <2>3. CASE Failed(c, "send")
    BY <2>3 DEF Failed, TypeOK, Pending
  <2> QED
    BY <2>1, <2>2, <2>3 DEF Send
<1>14. ASSUME NEW d \in Cmds PROVE Recorded(d)'
  <2>1. Recorded(d) /\ msg'[d].Retry = msg[d].Retry
    BY <1>4 DEF TraceInv
  <2> QED
    BY <1>2, <1>6, <2>1, RecordedKeeps
<1> QED
  BY <1>9, <1>10, <1>11, <1>12, <1>13, <1>14 DEF TraceInv

(* handleRetryDeliver's first retry, and the function of time.AfterFunc.   *)
LEMMA AgainTrace ==
    ASSUME TypeOK, TypeOK', TraceInv, NEW c \in Cmds, NEW did \in Nat, did <= deliverCmd,
           Register(c, did, "retry"), UNCHANGED <<replies, rx, answered>>,
           Published(c, FreshID(did)) \/ Unpublished(FreshID(did)),
           Failures' \subseteq Failures, \A f \in Failures : f.cmd # c => f \in Failures',
           \A d \in Cmds \ {c} : /\ msg'[d] = msg[d] /\ ioErr'[d] = ioErr[d]
                                 /\ First(d) => did # msg[d].DeliverID
                                 /\ record'[d] = record[d] /\ backoff'[d] = backoff[d],
           msg'[c].DeliverID = did, msg'[c].Attempt > 0, msg'[c].Retry # "nil", Recorded(c)'
    PROVE  TraceInv'
<1>1. deliverCmd \in Nat /\ \A d \in Cmds : msg[d].DeliverID \in Nat
  BY DEF TypeOK, Msg
<1>2. /\ \A x \in Held' : x \in Held \/ (x.id = FreshID(did) /\ x.cmd = c)
      /\ deliverCmd' \in Nat /\ deliverCmd <= deliverCmd' /\ FreshID(did) <= deliverCmd'
  BY PublishMakes
<1>m. deliverCmd \in Nat /\ deliverCmd' \in Nat /\ deliverCmd <= deliverCmd'
  BY <1>1, <1>2
<1>3. Drawn'
  <2>1. \A x \in Held \cup Failures : x.id <= deliverCmd'
    <3> SUFFICES ASSUME NEW x \in Held \cup Failures PROVE x.id <= deliverCmd'
      OBVIOUS
    <3>1. x.id \in Nat /\ x.id <= deliverCmd
      BY IdsAreNumbers DEF Drawn, TraceInv
    <3> QED
      BY <1>m, <3>1, SMTT(90)
  <2>2. \A x \in Held' \cup Failures' : x.id <= deliverCmd'
    BY <1>2, <2>1
  <2>3. ASSUME NEW d \in Cmds PROVE msg'[d].DeliverID <= deliverCmd'
    <3>1. msg[d].DeliverID \in Nat /\ msg[d].DeliverID <= deliverCmd
      BY <1>1 DEF Drawn, TraceInv
    <3>2. msg'[d].DeliverID = msg[d].DeliverID \/ msg'[d].DeliverID = did
      OBVIOUS
    <3>3. did <= deliverCmd'
      BY <1>m, SMTT(90)
    <3>4. msg[d].DeliverID <= deliverCmd'
      BY <1>m, <3>1, SMTT(90)
    <3> QED
      BY <3>2, <3>3, <3>4
  <2>4. rx.id \in Nat /\ rx.id <= deliverCmd /\ \A r \in rx.found : r.id = rx.id
    BY DEF TypeOK, Handling, Drawn, TraceInv
  <2>5. rx.id <= deliverCmd'
    BY <1>m, <2>4, SMTT(90)
  <2> QED
    BY <2>2, <2>3, <2>4, <2>5 DEF Drawn
<1>4. ASSUME NEW d \in Cmds, d # c PROVE Unheard(d)' /\ OwnID(d)' /\ Pending(d)'
  <2>1. First(d) => did # msg[d].DeliverID /\ msg'[c].DeliverID # msg[d].DeliverID
    BY <1>4
  <2> QED
    BY <1>4, <2>1, PublishSpares
<1>5. Unheard(c)' /\ OwnID(c)' /\ Pending(c)'
  <2>1. ~ First(c)'
    BY DEF First
  <2>2. msg'[c].Attempt # 0
    BY SMTT(90)
  <2> QED
    BY <2>1, <2>2 DEF Unheard, OwnID, Pending
<1>6. ASSUME NEW d \in Cmds, d # c PROVE Recorded(d)'
  BY <1>6 DEF TraceInv, Recorded
<1> QED
  BY <1>3, <1>4, <1>5, <1>6 DEF TraceInv

LEMMA FirstRetryTrace ==
    ASSUME TypeOK, TypeOK', TraceInv, NEW c \in Cmds, FirstRetry(c)
    PROVE  TraceInv'
<1>1. PICK id : id = Head(deliverErrs).id
  OBVIOUS
<1>2. /\ deliverErrs # <<>> /\ deliverErrs' = Tail(deliverErrs) /\ Head(deliverErrs).cmd = c
      /\ Register(c, id, "retry") /\ (Published(c, FreshID(id)) \/ Unpublished(FreshID(id)))
      /\ UNCHANGED <<backoff, replies, rx, answered>>
  BY <1>1 DEF FirstRetry, NextFailure
<1>3. /\ Failures' \subseteq Failures /\ Head(deliverErrs) \in Failures
      /\ \A f \in Failures : f.cmd # c => f \in Failures'
  BY <1>2, FailuresLess
<1>4. id \in Nat /\ id <= deliverCmd
  BY <1>1, <1>3, IdsAreNumbers DEF TraceInv, Drawn
<1>5. \A d \in Cmds \ {c} : First(d) => id # msg[d].DeliverID
  BY <1>1, <1>2, <1>3 DEF TraceInv, OwnID
<1>6. PICK retry \in {"rec", "norec"} :
        /\ msg' = [msg EXCEPT ![c] = [DeliverID |-> id, Attempt |-> @.Attempt + 1,
                                      Retry |-> retry]]
        /\ record' = [record EXCEPT ![c] = IF retry = "rec" /\ @ = "none" THEN "open" ELSE @]
        /\ IF retry = "norec" THEN Failed(c, "insert") ELSE UNCHANGED ioErr
  BY <1>1 DEF FirstRetry
<1>7. /\ msg'[c].DeliverID = id /\ msg'[c].Retry = retry
      /\ msg'[c].Attempt = msg[c].Attempt + 1 /\ msg[c].Attempt \in Nat
      /\ \A d \in Cmds \ {c} : msg'[d] = msg[d] /\ record'[d] = record[d]
  BY <1>6 DEF TypeOK, Msg
<1>8. \A d \in Cmds \ {c} : ioErr'[d] = ioErr[d]
  BY <1>6, FailedGrows
<1>9. Recorded(c)'
  <2>1. CASE retry = "rec"
    BY <1>6, <1>7, <2>1 DEF Recorded, TypeOK
  <2>2. CASE retry = "norec"
    BY <1>6, <1>7, <2>2, SMTT(90) DEF Recorded, TypeOK, Failed
  <2> QED
    BY <2>1, <2>2
<1>10. msg'[c].Attempt > 0 /\ msg'[c].Retry # "nil"
  BY <1>7, SMTT(90)
<1> QED
  BY <1>2, <1>3, <1>4, <1>5, <1>7, <1>8, <1>9, <1>10, AgainTrace

LEMMA ResendTrace ==
    ASSUME TypeOK, TypeOK', TraceInv, NEW c \in Cmds, Resend(c)
    PROVE  TraceInv'
<1>1. PICK id : id = msg[c].DeliverID
  OBVIOUS
<1>2. /\ Register(c, id, "retry") /\ (Published(c, FreshID(id)) \/ Unpublished(FreshID(id)))
      /\ UNCHANGED <<msg, deliverErrs, replies, rx, record, answered, ioErr>>
  BY <1>1 DEF Resend
<1>3. /\ id \in Nat /\ id <= deliverCmd /\ msg[c].Attempt \in Nat
  BY <1>1 DEF TypeOK, Msg, TraceInv, Drawn
<1>4. msg[c].Retry # "nil" /\ msg[c].Attempt # 0
  BY DEF Resend, Due, TraceInv, Recorded, Unheard
<1>5. \A d \in Cmds \ {c} : backoff'[d] = backoff[d] /\ (First(d) => id # msg[d].DeliverID)
  BY <1>1 DEF Resend, TypeOK, TraceInv, OwnID
<1>6. Recorded(c)'
  BY <1>2, <1>4 DEF TraceInv, Recorded
<1>7. UNCHANGED Failures
  BY <1>2 DEF Failures
<1>8. msg'[c].DeliverID = id /\ msg'[c].Attempt > 0 /\ msg'[c].Retry # "nil"
  BY <1>1, <1>2, <1>3, <1>4, SMTT(90)
<1> QED
  BY <1>2, <1>3, <1>5, <1>6, <1>7, <1>8, AgainTrace

LEMMA TraceStep == TypeOK /\ TypeOK' /\ TraceInv /\ [Next]_vars => TraceInv'
<1> SUFFICES ASSUME TypeOK, TypeOK', TraceInv, [Next]_vars PROVE TraceInv'
  OBVIOUS
<1>1. ASSUME NEW c \in Cmds, Send(c) PROVE TraceInv'
  BY <1>1, SendTrace
<1>2. ASSUME NEW c \in Cmds, FirstRetry(c) PROVE TraceInv'
  BY <1>2, FirstRetryTrace
<1>3. ASSUME NEW c \in Cmds, Resend(c) PROVE TraceInv'
  BY <1>3, ResendTrace
<1>4. ASSUME NEW c \in Cmds, DropFailure(c) \/ FirstRetryFault(c) \/ LaterRetry(c)
      PROVE  TraceInv'
  <2>1. \E call : Failed(c, call) \/ UNCHANGED ioErr
    BY <1>4 DEF DropFailure, FirstRetryFault, LaterRetry
  <2>2. SetRecovered(c, "open") \/ UNCHANGED record
    BY <1>4 DEF DropFailure, FirstRetryFault, LaterRetry
  <2>3. \A d \in Cmds : record'[d] = "none" => record[d] = "none"
    BY <2>2 DEF SetRecovered, TypeOK
  <2>4. \A d \in Cmds : backoff'[d] > 0 => backoff[d] > 0 \/ msg[d].Retry # "nil"
    <3>1. UNCHANGED backoff \/ (backoff' = [backoff EXCEPT ![c] = @ + 1] /\ msg[c].Retry # "nil")
      BY <1>4 DEF DropFailure, FirstRetryFault, LaterRetry
    <3> QED
      BY <3>1 DEF TypeOK
  <2>5. answered' = answered
    BY <1>4 DEF DropFailure, FirstRetryFault, LaterRetry
  <2> QED
    BY <1>4, <2>1, <2>3, <2>4, <2>5, FailedGrows, TakenCarried, TakenPending, CarriedStep
<1>5. ASSUME NEW m \in wire, ClientReplies(m) PROVE TraceInv'
  <2>1. UNCHANGED <<record, ioErr, backoff, answered, timers, requests, rx, deliverErrs>>
    BY <1>5 DEF ClientReplies
  <2>2. \A d : Awaits(d) => Awaits(d)'
    BY <2>1 DEF Awaits, Failures, Lookup
  <2> QED
    BY <1>5, <2>1, <2>2, RepliesCarried, CarriedStep
<1>6. ASSUME NEW r \in replies, ReadRequest(r) PROVE TraceInv'
  <2>1. /\ UNCHANGED <<record, ioErr, backoff, answered, timers, requests, deliverErrs>>
        /\ rx.found = {}
    BY <1>6 DEF ReadRequest, Idle
  <2>2. \A d : Awaits(d) => Awaits(d)'
    BY <2>1 DEF Awaits, Failures, Lookup
  <2> QED
    BY <1>6, <2>1, <2>2, ReadCarried, CarriedStep
<1>7. CASE HandleReply
  <2>1. /\ UNCHANGED <<ioErr, backoff>> /\ answered \subseteq answered'
        /\ \A c \in Cmds : record'[c] = "none" => record[c] = "none"
    BY <1>7, ReplyArrives
  <2> QED
    BY <1>7, <2>1, ReplyCarried, ReplyPending, CarriedStep
<1>8. ASSUME NEW t \in timers, TimerFires(t) \/ TimerCalls(t) \/ TimerLeaves(t) PROVE TraceInv'
  <2>1. UNCHANGED <<record, ioErr, backoff, answered>>
    BY <1>8 DEF TimerFires, Expire, TimerCalls, TimerLeaves
  <2> QED
    BY <1>8, <2>1, TimersCarried, TimersPending, CarriedStep
<1>9. CASE CloseConn \/ UNCHANGED vars
  <2>1. UNCHANGED <<deliverCmd, msg, requests, timers, deliverErrs, backoff, wire, replies, rx,
                    record, answered, ioErr>>
    BY <1>9 DEF CloseConn, vars
  <2>2. UNCHANGED <<Held, Failures>> /\ \A d : Lookup(d)' = Lookup(d) /\ First(d)' = First(d)
    BY <2>1 DEF Held, Failures, Lookup, First
  <2> QED
    BY <2>1, <2>2, SMTT(90) DEF TraceInv, Drawn, Unheard, OwnID, Pending, Awaits, Recorded
<1> QED
  BY <1>1, <1>2, <1>3, <1>4, <1>5, <1>6, <1>7, <1>8, <1>9 DEF Next

(***************************************************************************)
(* However replies, timeouts and retries interleave, a delivery that ended *)
(* without an answer has left its record for Recover, unless a publish or  *)
(* a call of the database failed (deliverAsync, handleRetryDeliver).       *)
(***************************************************************************)
THEOREM NothingLostSilently == Spec => []NoSilentLoss
<1>1. Spec => []TypeOK /\ []RecoveredWasAnswered
  BY TypeCorrect, RecoveredIsAnswered, PTL
<1>2. Init /\ [][Next]_vars /\ []TypeOK => []TraceInv
  BY TraceHoldsFirst, TraceStep, PTL
<1> QED
  BY <1>1, <1>2, TraceIsLeft, PTL DEF Spec

====
