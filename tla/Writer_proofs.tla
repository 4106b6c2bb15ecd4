----------------------------- MODULE Writer_proofs -----------------------------
(***************************************************************************)
(* Proofs about Writer: for any number of messages, any frame size and any *)
(* queue limit, the connection takes a prefix of the accepted messages,    *)
(* and a close that flushes loses none of them.                            *)
(***************************************************************************)
EXTENDS Writer, SequenceTheorems, TLAPS

(* Zenon proves what no other prover is named for.                         *)
USE ZenonT(90)

LEMMA PrefixOfConcat ==
    ASSUME NEW S, NEW s \in Seq(S), NEW t \in Seq(S)
    PROVE  IsPrefix(s, s \o t)
<1>1. /\ s \o t \in Seq(S) /\ Len(s \o t) = Len(s) + Len(t)
      /\ Len(s) \in Nat /\ Len(t) \in Nat
      /\ \A i \in 1..Len(s) : (s \o t)[i] = s[i]
  BY ConcatProperties, LenProperties, SMTT(90)
<1>2. /\ SubSeq(s, 1, Len(s)) \in Seq(S) /\ Len(SubSeq(s, 1, Len(s))) = Len(s)
      /\ \A i \in 1..Len(s) : SubSeq(s, 1, Len(s))[i] = s[i]
  BY <1>1, SMTT(90)
<1>3. /\ SubSeq(s \o t, 1, Len(s)) \in Seq(S) /\ Len(SubSeq(s \o t, 1, Len(s))) = Len(s)
      /\ \A i \in 1..Len(s) : SubSeq(s \o t, 1, Len(s))[i] = (s \o t)[i]
  BY <1>1, SMTT(90)
<1>4. SubSeq(s, 1, Len(s)) = SubSeq(s \o t, 1, Len(s))
  BY <1>1, <1>2, <1>3, SeqEqual
<1> QED
  BY <1>1, <1>4, SMTT(90) DEF IsPrefix

LEMMA PrefixOfAppend ==
    ASSUME NEW S, NEW s \in Seq(S), NEW t \in Seq(S), NEW x \in S, IsPrefix(s, t)
    PROVE  IsPrefix(s, Append(t, x))
<1>1. /\ Append(t, x) \in Seq(S) /\ Len(Append(t, x)) = Len(t) + 1
      /\ Len(s) \in Nat /\ Len(t) \in Nat /\ Len(s) <= Len(t)
      /\ \A i \in 1..Len(t) : Append(t, x)[i] = t[i]
  BY AppendProperties, LenProperties, SMTT(90) DEF IsPrefix
<1>2. /\ SubSeq(t, 1, Len(s)) \in Seq(S) /\ Len(SubSeq(t, 1, Len(s))) = Len(s)
      /\ \A i \in 1..Len(s) : SubSeq(t, 1, Len(s))[i] = t[i]
  BY <1>1, SMTT(90)
<1>3. /\ SubSeq(Append(t, x), 1, Len(s)) \in Seq(S)
      /\ Len(SubSeq(Append(t, x), 1, Len(s))) = Len(s)
      /\ \A i \in 1..Len(s) : SubSeq(Append(t, x), 1, Len(s))[i] = Append(t, x)[i]
  BY <1>1, SMTT(90)
<1>4. SubSeq(t, 1, Len(s)) = SubSeq(Append(t, x), 1, Len(s))
  BY <1>1, <1>2, <1>3, SeqEqual, SMTT(90)
<1> QED
  BY <1>1, <1>4, SMTT(90) DEF IsPrefix

(* Appending to the second of two concatenated sequences.                  *)
LEMMA AppendConcat ==
    ASSUME NEW s \in Seq(Item), NEW t \in Seq(Item), NEW x \in Item
    PROVE  Append(s \o t, x) = s \o Append(t, x)
  BY SMTT(90)

LEMMA Associates ==
    ASSUME NEW s \in Seq(Item), NEW t \in Seq(Item), NEW u \in Seq(Item)
    PROVE  (s \o t) \o u = s \o (t \o u)
  BY ConcatAssociative, SMTT(90)

(* Moving the head of the second sequence to the end of the first.         *)
LEMMA HeadMoves ==
    ASSUME NEW S, NEW s \in Seq(S), NEW t \in Seq(S), t # <<>>
    PROVE  s \o t = (s \o <<Head(t)>>) \o Tail(t)
  BY SMTT(90)

-----------------------------------------------------------------------------
(* The types a queue operation leaves behind.                              *)
LEMMA QueueTypes ==
    ASSUME TypeOK,
           Queue!Remove \/ Queue!Close \/ Queue!CloseRemaining \/ \E m \in Item : Queue!Add(m)
    PROVE  messages' \in Seq(Item) /\ qclosed' \in BOOLEAN /\ ok' \in BOOLEAN /\ out' \in Seq(Item)
<1>0. /\ messages \in Seq(Item) /\ qclosed \in BOOLEAN
  BY DEF TypeOK
<1>1. CASE Queue!Remove
  <2>1. qclosed' = qclosed
    BY <1>1 DEF Queue!Remove
  <2>2. CASE messages = <<>>
    BY <1>0, <1>1, <2>1, <2>2 DEF Queue!Remove
  <2>3. CASE messages # <<>>
    <3>1. ok' = TRUE /\ out' = <<Head(messages)>> /\ messages' = Tail(messages)
      BY <1>1, <2>3 DEF Queue!Remove
    <3>2. Head(messages) \in Item /\ Tail(messages) \in Seq(Item)
      BY <1>0, <2>3, HeadTailProperties
    <3>3. out' \in Seq(Item)
      BY <3>1, <3>2, SMTT(90)
    <3>4. qclosed' \in BOOLEAN /\ ok' \in BOOLEAN
      BY <1>0, <2>1, <3>1
    <3> QED
      BY <3>1, <3>2, <3>3, <3>4
  <2> QED
    BY <2>2, <2>3
<1>2. CASE Queue!Close
  BY <1>2, SMTT(90) DEF Queue!Close
<1>3. CASE Queue!CloseRemaining
  BY <1>0, <1>3, SMTT(90) DEF Queue!CloseRemaining
<1>4. ASSUME NEW m \in Item, Queue!Add(m)
      PROVE  messages' \in Seq(Item) /\ qclosed' \in BOOLEAN /\ ok' \in BOOLEAN /\ out' \in Seq(Item)
  BY <1>0, <1>4, SMTT(20) DEF Queue!Add
<1> QED
  BY <1>1, <1>2, <1>3, <1>4

LEMMA TypeStep == TypeOK /\ [Next]_vars => TypeOK'
<1> SUFFICES ASSUME TypeOK, [Next]_vars PROVE TypeOK'
  OBVIOUS
<1> USE DEF TypeOK
<1>1. ASSUME NEW m \in Item, Enqueue(m) PROVE TypeOK'
  <2>1. messages' \in Seq(Item) /\ qclosed' \in BOOLEAN /\ ok' \in BOOLEAN /\ out' \in Seq(Item)
    BY <1>1, QueueTypes DEF Enqueue
  <2>2. accepted' \in Seq(Item) /\ sender' \in [Item -> {"new", "added", "done"}]
    <3>1. CASE ok'
      <4>1. accepted' = Append(accepted, m) /\ sender' = [sender EXCEPT ![m] = "added"]
        BY <1>1, <3>1 DEF Enqueue
      <4> QED
        BY <4>1, AppendProperties
    <3>2. CASE ~ok'
      <4>1. accepted' = accepted /\ sender' = [sender EXCEPT ![m] = "done"]
        BY <1>1, <3>2 DEF Enqueue
      <4> QED
        BY <4>1
    <3> QED
      BY <3>1, <3>2
  <2>3. /\ run' \in {"wait", "asleep", "delay", "lock", "take", "count", "more", "write", "stopped"}
        /\ closing' \subseteq Reason
    BY <1>1 DEF Enqueue, Woken, Reason
  <2> QED
    BY <1>1, <2>1, <2>2, <2>3 DEF Enqueue, closevars
<1>2. ASSUME NEW m \in Item, CheckSize(m) PROVE TypeOK'
  BY <1>2, SMTT(90) DEF CheckSize, qvars, runvars, closevars, Reason
<1>3. CASE Wait
  BY <1>3 DEF Wait, qvars, closevars
<1>4. CASE DelayPasses \/ DelayCut \/ LockSend \/ BatchReady
  BY <1>4, SMTT(90) DEF DelayPasses, DelayCut, LockSend, BatchReady, qvars, closevars
<1>5. CASE Take
  <2>1. messages' \in Seq(Item) /\ qclosed' \in BOOLEAN /\ ok' \in BOOLEAN /\ out' \in Seq(Item)
    BY <1>5, QueueTypes DEF Take
  <2> QED
    BY <1>5, <2>1 DEF Take, closevars
<1>6. CASE Count
  BY <1>6, SMTT(90) DEF Count, qvars, closevars
<1>7. CASE More
  <2>1. messages' \in Seq(Item) /\ qclosed' \in BOOLEAN /\ ok' \in BOOLEAN /\ out' \in Seq(Item)
    BY <1>7, QueueTypes DEF More
  <2>2. left' \in Nat
    BY <1>7, SMTT(90) DEF More, BatchFull
  <2>3. batch' \in Seq(Item)
    BY <1>7, <2>1, SMTT(90) DEF More
  <2> QED
    BY <1>7, <2>1, <2>2, <2>3 DEF More, closevars
<1>8. ASSUME NEW ms \in Seq(Item), NEW good \in BOOLEAN, Transmit(ms, good)
      PROVE  sent' \in Seq(Item) /\ broken' \in BOOLEAN /\ closing' \subseteq Reason
  BY <1>8, SMTT(90) DEF Transmit, Reason
<1>9. CASE Write
  <2>1. sent' \in Seq(Item) /\ broken' \in BOOLEAN /\ closing' \subseteq Reason
    BY <1>8, <1>9 DEF Write
  <2> QED
    BY <1>9, <2>1, SMTT(90) DEF Write, qvars, closevars
<1>10. ASSUME NEW r \in Reason, Disconnect(r) \/ BeginClose(r) PROVE TypeOK'
  BY <1>10, SMTT(90) DEF Disconnect, BeginClose, qvars, runvars, closevars
<1>11. CASE Pushed \/ LockClose \/ Signal \/ CloseTransport
  <2>1. CASE Pushed
    BY <2>1 DEF Pushed, qvars, runvars
  <2>2. CASE LockClose
    BY <2>2 DEF LockClose, qvars, runvars
  <2>3. CASE Signal
    BY <2>3 DEF Signal, qvars, runvars
  <2>4. CASE CloseTransport
    BY <2>4 DEF CloseTransport, qvars, runvars
  <2> QED
    BY <1>11, <2>1, <2>2, <2>3, <2>4
<1>12. CASE Shut
  <2>1. messages' \in Seq(Item) /\ qclosed' \in BOOLEAN /\ ok' \in BOOLEAN /\ out' \in Seq(Item)
    BY <1>12, QueueTypes DEF Shut
  <2> QED
    BY <1>12, <2>1 DEF Shut, Woken
<1>13. CASE Flush
  <2>1. sent' \in Seq(Item) /\ broken' \in BOOLEAN /\ closing' \subseteq Reason
    BY <1>8, <1>13 DEF Flush
  <2> QED
    BY <1>13, <2>1, SMTT(90) DEF Flush, qvars, runvars
<1>14. CASE UNCHANGED vars
  BY <1>14, SMTT(90) DEF vars, qvars, runvars, closevars
<1>15. {"connectionClosed", "other"} \subseteq Reason
  BY DEF Reason
<1> QED
  BY <1>1, <1>2, <1>3, <1>4, <1>5, <1>6, <1>7, <1>9, <1>10, <1>11, <1>12, <1>13, <1>14, <1>15
     DEF Next, RunLoop, Closer

-----------------------------------------------------------------------------
(* Where the goroutines can be: w.mu excludes a batch from a close, the    *)
(* queue is closed exactly from Shut on, and then nothing is in a batch.   *)
Exclusion ==
    /\ run \in {"take", "count", "more", "write"} <=> mu = "run"
    /\ closer \in {"shut", "flush", "signal"} <=> mu = "closer"
    /\ status = "open" <=> closer = "none"
    /\ qclosed <=> closer \in {"flush", "signal", "transport", "done"}
    /\ qclosed => messages = <<>> /\ run \notin {"count", "more", "write"}
    /\ run \notin {"count", "more", "write"} => batch = <<>>
    /\ closer # "flush" => remaining = <<>>
    /\ closer = "flush" => Flushes(reason)
    /\ tclosed => closer = "done"

(* Unless a write failed or a close discarded the queue, every accepted    *)
(* message has been sent, is in the hands of the run loop or the closer,   *)
(* or is queued, in that order.                                            *)
NothingLost ==
    ~broken /\ (qclosed => Flushes(reason))
        => accepted = (sent \o (batch \o remaining)) \o messages

Inv == TypeOK /\ Exclusion /\ NothingLost /\ SentInOrder

LEMMA ExclusionStep == TypeOK /\ Exclusion /\ [Next]_vars => Exclusion'
<1> SUFFICES ASSUME TypeOK, Exclusion, [Next]_vars PROVE Exclusion'
  OBVIOUS
<1>0. /\ messages \in Seq(Item) /\ out \in Seq(Item) /\ qclosed \in BOOLEAN /\ tclosed \in BOOLEAN
      /\ run \in {"wait", "asleep", "delay", "lock", "take", "count", "more", "write", "stopped"}
      /\ mu \in {"free", "run", "closer"} /\ status \in {"open", "closed"}
      /\ closer \in {"none", "push", "lock", "shut", "flush", "signal", "transport", "done"}
  BY DEF TypeOK
<1>1. ASSUME NEW m \in Item, Enqueue(m) PROVE Exclusion'
  <2>1. /\ qclosed' = qclosed /\ (qclosed => messages' = messages)
        /\ run' = run \/ (run = "asleep" /\ run' = "delay")
        /\ UNCHANGED <<mu, status, closer, batch, remaining, reason, tclosed>>
    BY <1>1 DEF Enqueue, Woken, Queue!Add, closevars
  <2> QED
    BY <1>0, <2>1 DEF Exclusion, Flushes
<1>2. ASSUME NEW m \in Item, CheckSize(m) PROVE Exclusion'
  BY <1>2 DEF CheckSize, qvars, runvars, closevars, Exclusion, Flushes
<1>3. CASE Wait
  BY <1>0, <1>3 DEF Wait, qvars, closevars, Exclusion, Flushes
<1>4. CASE DelayPasses \/ DelayCut
  BY <1>4, SMTT(90) DEF DelayPasses, DelayCut, qvars, closevars, Exclusion, Flushes
<1>5. CASE LockSend
  BY <1>5 DEF LockSend, qvars, closevars, Exclusion, Flushes
<1>6. CASE Take
  <2>1. /\ qclosed' = qclosed /\ batch' = out' /\ run = "take"
        /\ (messages = <<>> => ~ok' /\ out' = <<>> /\ messages' = messages)
        /\ (messages # <<>> => ok')
        /\ (ok' => run' = "count" /\ mu' = mu)
        /\ (~ok' => run' \in {"stopped", "wait"} /\ mu' = "free")
        /\ UNCHANGED <<status, closer, remaining, reason, tclosed>>
    BY <1>6 DEF Take, Queue!Remove, closevars
  <2> QED
    BY <1>0, <2>1 DEF Exclusion, Flushes
<1>7. CASE Count
  BY <1>0, <1>7 DEF Count, qvars, closevars, Exclusion, Flushes
<1>8. CASE More
  <2>1. /\ qclosed' = qclosed /\ run = "more" /\ ~qclosed
        /\ run' \in {"more", "write"} /\ mu' = mu
        /\ UNCHANGED <<status, closer, remaining, reason, tclosed>>
    BY <1>8 DEF More, Queue!Remove, closevars, Exclusion
  <2> QED
    BY <1>0, <2>1 DEF Exclusion, Flushes
<1>9. CASE BatchReady
  BY <1>9 DEF BatchReady, qvars, closevars, Exclusion, Flushes
<1>10. CASE Write
  <2>1. run' \in {"wait", "stopped"}
    BY <1>10 DEF Write
  <2> QED
    BY <1>0, <1>10, <2>1 DEF Write, qvars, closevars, Exclusion, Flushes
<1>11. ASSUME NEW r \in Reason, Disconnect(r) PROVE Exclusion'
  BY <1>11 DEF Disconnect, qvars, runvars, closevars, Exclusion, Flushes
<1>12. ASSUME NEW r \in Reason, BeginClose(r) PROVE Exclusion'
  BY <1>0, <1>12 DEF BeginClose, qvars, runvars, Exclusion, Flushes
<1>13. CASE Pushed
  BY <1>0, <1>13 DEF Pushed, qvars, runvars, Exclusion, Flushes
<1>14. CASE LockClose
  BY <1>0, <1>14 DEF LockClose, qvars, runvars, Exclusion, Flushes
<1>15. CASE Shut
  <2>1. /\ qclosed' = TRUE /\ messages' = <<>> /\ remaining' = out' /\ closer = "shut"
        /\ (out' # <<>> => Flushes(reason) /\ closer' = "flush")
        /\ (out' = <<>> => closer' = "signal")
        /\ run' = run \/ (run = "asleep" /\ run' = "delay")
        /\ UNCHANGED <<status, batch, mu, reason, tclosed>>
    BY <1>15 DEF Shut, Queue!Close, Queue!CloseRemaining, Woken
  <2> QED
    BY <1>0, <2>1 DEF Exclusion, Flushes
<1>16. CASE Flush
  BY <1>0, <1>16 DEF Flush, qvars, runvars, Exclusion, Flushes
<1>17. CASE Signal
  BY <1>0, <1>17 DEF Signal, qvars, runvars, Exclusion, Flushes
<1>18. CASE CloseTransport
  BY <1>0, <1>18 DEF CloseTransport, qvars, runvars, Exclusion, Flushes
<1>19. CASE UNCHANGED vars
  BY <1>19 DEF vars, qvars, runvars, closevars, Exclusion, Flushes
<1>20. {"connectionClosed", "other"} \subseteq Reason
  BY DEF Reason
<1> QED
  BY <1>1, <1>2, <1>3, <1>4, <1>5, <1>6, <1>7, <1>8, <1>9, <1>10, <1>11, <1>12, <1>13, <1>14,
     <1>15, <1>16, <1>17, <1>18, <1>19, <1>20
     DEF Next, RunLoop, Closer

LEMMA InvStep == Inv /\ [Next]_vars => Inv'
<1> SUFFICES ASSUME Inv, [Next]_vars PROVE NothingLost' /\ SentInOrder'
  BY TypeStep, ExclusionStep DEF Inv
<1> DEFINE Held == batch \o remaining
           Quiet == UNCHANGED <<accepted, sent, messages, batch, remaining>>
<1>0. /\ messages \in Seq(Item) /\ accepted \in Seq(Item) /\ sent \in Seq(Item)
      /\ batch \in Seq(Item) /\ remaining \in Seq(Item)
      /\ broken \in BOOLEAN /\ qclosed \in BOOLEAN /\ tclosed \in BOOLEAN
      /\ IsPrefix(sent, accepted)
  BY DEF Inv, TypeOK, SentInOrder
<1>1. ASSUME Quiet, broken' = broken, qclosed' = qclosed, qclosed => reason' = reason
      PROVE  NothingLost' /\ SentInOrder'
  BY <1>1 DEF Inv, NothingLost, SentInOrder, Flushes
<1>2. ASSUME NEW m \in Item, Enqueue(m) PROVE NothingLost' /\ SentInOrder'
  <2>1. qclosed' = qclosed /\ UNCHANGED <<sent, batch, remaining, broken, reason>>
    BY <1>2 DEF Enqueue, Queue!Add, closevars
  <2>2. CASE qclosed
    <3>1. accepted' = accepted /\ messages' = messages
      BY <1>2, <2>2 DEF Enqueue, Queue!Add
    <3> QED
      BY <1>1, <2>1, <3>1
  <2>3. CASE ~qclosed
    <3>1. accepted' = Append(accepted, m) /\ messages' = Append(messages, m)
      BY <1>2, <2>3 DEF Enqueue, Queue!Add
    <3>2. SentInOrder'
      BY <1>0, <2>1, <3>1, PrefixOfAppend DEF SentInOrder
    <3>3. ASSUME ~broken PROVE accepted' = (sent \o Held) \o messages'
      <4> DEFINE before == sent \o Held
      <4>1. accepted = before \o messages
        BY <2>3, <3>3 DEF Inv, NothingLost
      <4>2. before \in Seq(Item)
        BY <1>0, ConcatProperties
      <4>3. Append(before \o messages, m) = before \o Append(messages, m)
        <5> HIDE DEF before
        <5> QED
          BY <1>0, <4>2, AppendConcat
      <4> QED
        BY <3>1, <4>1, <4>3
    <3> QED
      BY <2>1, <3>2, <3>3 DEF NothingLost
  <2> QED
    BY <2>2, <2>3
<1>3. ASSUME NEW m \in Item, CheckSize(m) PROVE NothingLost' /\ SentInOrder'
  BY <1>1, <1>3 DEF CheckSize, qvars, runvars, closevars
<1>4. CASE Wait \/ DelayPasses \/ DelayCut \/ LockSend \/ Count \/ BatchReady
  BY <1>1, <1>4 DEF Wait, DelayPasses, DelayCut, LockSend, Count, BatchReady, qvars, closevars
<1>5. ASSUME Take \/ More PROVE NothingLost' /\ SentInOrder'
  <2>1. /\ qclosed' = qclosed /\ UNCHANGED <<accepted, sent, remaining, broken, reason>>
        /\ Queue!Remove
    BY <1>5 DEF Take, More, Queue!Remove, closevars
  <2>2. (Take => batch = <<>>) /\ (More => ~qclosed) /\ remaining = <<>>
    BY <1>5 DEF Take, More, Inv, Exclusion
  <2>3. CASE messages = <<>>
    <3>1. messages' = messages /\ out' = <<>> /\ ok' = FALSE
      BY <2>1, <2>3 DEF Queue!Remove
    <3>2. batch' = batch
      <4>1. CASE Take
        BY <2>2, <3>1, <4>1 DEF Take
      <4>2. CASE More
        BY <1>0, <2>2, <3>1, <4>2, ConcatEmptySeq DEF More
      <4> QED
        BY <1>5, <4>1, <4>2
    <3> QED
      BY <1>1, <2>1, <3>1, <3>2
  <2>4. CASE messages # <<>>
    <3>1. messages' = Tail(messages) /\ out' = <<Head(messages)>> /\ ok' = TRUE
      BY <2>1, <2>4 DEF Queue!Remove
    <3>2. Head(messages) \in Item /\ <<Head(messages)>> \in Seq(Item) /\ Tail(messages) \in Seq(Item)
      BY <1>0, <2>4, HeadTailProperties, SMTT(90)
    <3>3. batch' = batch \o <<Head(messages)>>
      <4>1. CASE Take
        BY <2>2, <3>1, <3>2, <4>1, ConcatEmptySeq DEF Take
      <4>2. CASE More
        BY <3>1, <4>2 DEF More
      <4> QED
        BY <1>5, <4>1, <4>2
    <3>4. /\ batch \o remaining = batch /\ batch' \o remaining' = batch'
      <4>1. batch' \in Seq(Item)
        BY <1>0, <3>2, <3>3, ConcatProperties
      <4> QED
        BY <1>0, <2>1, <2>2, <4>1, ConcatEmptySeq
    <3>5. (sent \o batch) \o messages = ((sent \o batch) \o <<Head(messages)>>) \o Tail(messages)
      <4>1. sent \o batch \in Seq(Item)
        BY <1>0, ConcatProperties
      <4> QED
        BY <1>0, <2>4, <4>1, HeadMoves
    <3>6. (sent \o batch) \o <<Head(messages)>> = sent \o (batch \o <<Head(messages)>>)
      <4> DEFINE first == <<Head(messages)>>
      <4>1. first \in Seq(Item)
        BY <3>2
      <4>2. (sent \o batch) \o first = sent \o (batch \o first)
        <5> HIDE DEF first
        <5> QED
          BY <1>0, <4>1, Associates, SMTT(20)
      <4> QED
        BY <4>2
    <3>7. NothingLost'
      BY <2>1, <3>1, <3>3, <3>4, <3>5, <3>6 DEF Inv, NothingLost, Flushes
    <3> QED
      BY <1>0, <2>1, <3>7 DEF SentInOrder
  <2> QED
    BY <2>3, <2>4
<1>6. CASE Write
  <2>1. PICK good \in BOOLEAN : Transmit(batch, good)
    BY <1>6 DEF Write
  <2>2. /\ ~qclosed /\ ~tclosed /\ remaining = <<>> /\ qclosed' = qclosed /\ batch' = <<>>
        /\ UNCHANGED <<accepted, messages, remaining, reason>>
    BY <1>6 DEF Write, qvars, closevars, Inv, Exclusion
  <2>3. CASE good
    <3>1. sent' = sent \o batch /\ ~broken /\ ~broken'
      BY <2>1, <2>2, <2>3 DEF Transmit
    <3>2. accepted = (sent \o batch) \o messages
      BY <1>0, <2>2, <3>1, ConcatEmptySeq DEF Inv, NothingLost
    <3>3. sent \o batch \in Seq(Item)
      BY <1>0, ConcatProperties
    <3>4. SentInOrder'
      BY <1>0, <2>2, <3>1, <3>2, <3>3, PrefixOfConcat DEF SentInOrder
    <3>5. sent' \o (batch' \o remaining') = sent \o batch
      BY <2>2, <3>1, <3>3, ConcatEmptySeq, EmptySeq
    <3> QED
      BY <2>2, <3>2, <3>4, <3>5 DEF NothingLost
  <2>4. CASE ~good
    <3>1. sent' = sent /\ broken'
      BY <2>1, <2>4 DEF Transmit
    <3> QED
      BY <1>0, <2>2, <3>1 DEF NothingLost, SentInOrder
  <2> QED
    BY <2>3, <2>4
<1>7. ASSUME NEW r \in Reason, Disconnect(r) PROVE NothingLost' /\ SentInOrder'
  BY <1>1, <1>7 DEF Disconnect, qvars, runvars, closevars
<1>8. ASSUME NEW r \in Reason, BeginClose(r) PROVE NothingLost' /\ SentInOrder'
  <2>1. ~qclosed
    BY <1>8 DEF BeginClose, Inv, Exclusion
  <2> QED
    BY <1>1, <1>8, <2>1 DEF BeginClose, qvars, runvars
<1>9. CASE Pushed \/ LockClose \/ Signal \/ CloseTransport
  BY <1>1, <1>9 DEF Pushed, LockClose, Signal, CloseTransport, qvars, runvars
<1>10. CASE Shut
  <2>1. /\ batch = <<>> /\ remaining = <<>> /\ ~qclosed
    BY <1>10 DEF Shut, Inv, Exclusion
  <2>2. UNCHANGED <<accepted, sent, batch, broken, reason>> /\ messages' = <<>> /\ remaining' = out'
    BY <1>10 DEF Shut, Queue!Close, Queue!CloseRemaining
  <2>3. ASSUME ~broken, Flushes(reason) PROVE accepted = (sent \o (batch \o out')) \o <<>>
    <3>1. out' = messages
      BY <1>10, <2>3 DEF Shut, Queue!CloseRemaining
    <3>2. accepted = (sent \o (<<>> \o <<>>)) \o messages
      BY <2>1, <2>3 DEF Inv, NothingLost
    <3>3. sent \o (<<>> \o <<>>) = sent /\ <<>> \o messages = messages
      BY <1>0, ConcatEmptySeq, EmptySeq
    <3>4. sent \o messages \in Seq(Item)
      BY <1>0, ConcatProperties
    <3> QED
      BY <2>1, <3>1, <3>2, <3>3, <3>4, ConcatEmptySeq
  <2>4. NothingLost'
    BY <1>10, <2>2, <2>3, SMTT(90) DEF NothingLost, Flushes, Shut, Queue!Close, Queue!CloseRemaining
  <2> QED
    BY <1>0, <2>2, <2>4 DEF SentInOrder
<1>11. CASE Flush
  <2>1. PICK good \in BOOLEAN : Transmit(remaining, good)
    BY <1>11 DEF Flush
  <2>2. /\ qclosed /\ Flushes(reason) /\ ~tclosed /\ batch = <<>> /\ messages = <<>>
        /\ qclosed' = qclosed /\ remaining' = <<>>
        /\ UNCHANGED <<accepted, messages, batch, reason>>
    BY <1>11 DEF Flush, qvars, runvars, Inv, Exclusion
  <2>3. CASE good
    <3>1. sent' = sent \o remaining /\ ~broken /\ ~broken'
      BY <2>1, <2>2, <2>3 DEF Transmit
    <3>2. sent \o remaining \in Seq(Item) /\ <<>> \o remaining = remaining
      BY <1>0, ConcatProperties, ConcatEmptySeq
    <3>3. accepted = (sent \o remaining) \o <<>>
      BY <2>2, <3>1, <3>2 DEF Inv, NothingLost
    <3>4. SentInOrder'
      BY <2>2, <3>1, <3>2, <3>3, EmptySeq, PrefixOfConcat DEF SentInOrder
    <3>5. sent' \o (batch' \o remaining') = sent \o remaining
      BY <2>2, <3>1, <3>2, ConcatEmptySeq, EmptySeq
    <3> QED
      BY <2>2, <3>3, <3>4, <3>5 DEF NothingLost
  <2>4. CASE ~good
    <3>1. sent' = sent /\ broken'
      BY <2>1, <2>4 DEF Transmit
    <3> QED
      BY <1>0, <2>2, <3>1 DEF NothingLost, SentInOrder
  <2> QED
    BY <2>3, <2>4
<1>12. CASE UNCHANGED vars
  BY <1>1, <1>12 DEF vars, qvars, runvars, closevars
<1>13. {"connectionClosed", "other"} \subseteq Reason
  BY DEF Reason
<1> QED
  BY <1>2, <1>3, <1>4, <1>5, <1>6, <1>7, <1>8, <1>9, <1>10, <1>11, <1>12, <1>13
     DEF Next, RunLoop, Closer

LEMMA InvInit == Init => Inv
<1> SUFFICES ASSUME Init PROVE Inv
  OBVIOUS
<1>1. TypeOK
  <2>1. /\ messages \in Seq(Item) /\ out \in Seq(Item) /\ accepted \in Seq(Item)
        /\ sent \in Seq(Item) /\ batch \in Seq(Item) /\ remaining \in Seq(Item)
    BY EmptySeq DEF Init, Queue!Init
  <2>2. /\ qclosed \in BOOLEAN /\ ok \in BOOLEAN /\ closeCh \in BOOLEAN
        /\ broken \in BOOLEAN /\ tclosed \in BOOLEAN
    BY DEF Init, Queue!Init
  <2> QED
    BY <2>1, <2>2 DEF Init, TypeOK, Reason
<1>2. Exclusion
  BY DEF Init, Queue!Init, Exclusion
<1>3. sent = <<>> /\ accepted = <<>> /\ batch = <<>> /\ remaining = <<>> /\ messages = <<>>
  BY DEF Init, Queue!Init
<1>4. <<>> \o <<>> = <<>> /\ <<>> \in Seq(Item)
  BY ConcatEmptySeq, EmptySeq
<1>5. NothingLost /\ SentInOrder
  BY <1>3, <1>4, PrefixOfConcat DEF NothingLost, SentInOrder
<1> QED
  BY <1>1, <1>2, <1>5 DEF Inv

LEMMA Invariance == Spec => []Inv
  BY InvInit, InvStep, PTL DEF Spec

(* For any messages, frame size, queue limit and delay, the connection     *)
(* takes a prefix of what enqueue accepted: waitSendMessage and close      *)
(* never reorder, repeat or skip a message.                                *)
THEOREM WritesAreInOrder == Spec => []SentInOrder
  BY Invariance, PTL DEF Inv

(* For any messages, frame size, queue limit and delay, a close that       *)
(* flushes has sent every accepted message when writer.close returns,      *)
(* unless a write failed.                                                  *)
THEOREM FlushIsComplete == Spec => []FlushLosesNothing
<1>1. Inv => FlushLosesNothing
  <2> SUFFICES ASSUME Inv, closer \in {"transport", "done"}, Flushes(reason), ~broken
               PROVE  sent = accepted
    BY DEF FlushLosesNothing
  <2>1. messages = <<>> /\ batch = <<>> /\ remaining = <<>> /\ sent \in Seq(Item)
    BY DEF Inv, Exclusion, TypeOK
  <2>2. accepted = (sent \o (<<>> \o <<>>)) \o <<>>
    BY <2>1 DEF Inv, NothingLost
  <2> QED
    BY <2>1, <2>2, ConcatEmptySeq, EmptySeq
<1> QED
  BY <1>1, Invariance, PTL
====
