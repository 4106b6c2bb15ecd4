-------------------------- MODULE Triggers_proofs --------------------------
(***************************************************************************)
(* Proofs that a trigger whose row says "scheduled" has its entry in a     *)
(* cron, and that an entry in a cron has its row, with the exceptions of   *)
(* ScheduledHasEntry and EntriesAreStored, for any workflows and triggers. *)
(***************************************************************************)
EXTENDS Triggers, TLAPS

(* Zenon proves what no other prover is named for.                         *)
USE ZenonT(90)

Messages == [t : Ids, action : {"", "delete"}]
Calling == [t : Ids \union {None}, at : {"idle", "add", "run", "update"}, live : BOOLEAN]

Types ==
  /\ plan \in Plans
  /\ triggers \in [Ids -> {"none", "deliver", "scheduled"}]
  /\ adding \in [Ids -> {"new", "inserted", "done"}]
  /\ deleting \in [Ids -> {"no", "read", "deleted", "done"}]
  /\ subject \in [Workflows -> Seq(Messages)]
  /\ callback \in [Workflows -> Calling]
  /\ entries \subseteq [t : Ids, live : BOOLEAN]
  /\ senders \in [Workflows -> Seq(Ids)]
  /\ loop \in [Workflows -> Ids \union {None}]
  /\ seen \in [replaced : SUBSET Ids, forgotten : SUBSET Ids, late : SUBSET Ids,
               doubled : SUBSET Ids]

-----------------------------------------------------------------------------
(* What the invariant says of one trigger.                                 *)

HasEntry(t) == \E e \in entries : e.t = t
Kept(t) == HasEntry(t) \/ t \in seen.replaced \/ t \in seen.forgotten
Running(t) ==
  \E w \in Workflows : loop[w] = t \/ \E i \in 1 .. Len(senders[w]) : senders[w][i] = t
InCall(t) == \E w \in Workflows : callback[w].at # "idle" /\ callback[w].t = t

\* Nothing of the trigger has come to the scheduler yet.
Untouched(t) == triggers[t] # "scheduled" /\ ~ HasEntry(t) /\ ~ Running(t)
Deleted(t) == triggers[t] = "none" /\ adding[t] # "new"

\* The handlers: what is not published is not known to the runner, and a row
\* that is gone does not come back.
Handlers ==
  \A t \in Ids :
    /\ adding[t] = "new" => triggers[t] = "none"
    /\ adding[t] # "done" => Untouched(t) /\ ~ InCall(t)
    /\ deleting[t] = "read" => adding[t] # "new"
    /\ deleting[t] = "deleted" => Deleted(t)

\* A message is in the subscription of the trigger's workflow.  A creation is
\* there once, before anything of the trigger has come to the scheduler.
Rightly(w, m) ==
  /\ Of(m.t).wf = w
  /\ m.action = "delete" => Deleted(m.t)
  /\ m.action = "" => adding[m.t] = "done" /\ Untouched(m.t) /\ ~ InCall(m.t)
Posted == \A w \in Workflows : \A i \in 1 .. Len(subject[w]) : Rightly(w, subject[w][i])
Once ==
  \A w \in Workflows : \A i, j \in 1 .. Len(subject[w]) :
    subject[w][i].action = "" /\ subject[w][i] = subject[w][j] => i = j

\* A callback is of the trigger's workflow, and adds the entry before it
\* updates the row.
Sound(w, k) ==
  k.at # "idle" =>
    /\ k.t \in Ids /\ Of(k.t).wf = w /\ adding[k.t] = "done"
    /\ k.at \in {"add", "run"} => Untouched(k.t)
    /\ k.at = "run" => Of(k.t).schedule # "good"
    /\ k.at = "update" /\ Of(k.t).schedule = "good" => Kept(k.t)
Calls == \A w \in Workflows : Sound(w, callback[w])

\* What runs, and what is said to be scheduled, was added.
Added ==
  \A t \in Ids :
    /\ Running(t) => Kept(t) \/ triggers[t] = "none"
    /\ triggers[t] = "scheduled" /\ Of(t).schedule = "good" => Kept(t)

Inv == Types /\ Handlers /\ Posted /\ Once /\ Calls /\ Added

LEMMA InvIsScheduled == Inv => ScheduledHasEntry
BY DEF Inv, Added, Kept, HasEntry, ScheduledHasEntry

-----------------------------------------------------------------------------
(* Sequences and helpers.                                                  *)

LEMMA AppendAt ==
  ASSUME NEW S, NEW s \in Seq(S), NEW e \in S
  PROVE  /\ Append(s, e) \in Seq(S)
         /\ \A i \in 1 .. Len(Append(s, e)) :
              \/ i \in 1 .. Len(s) /\ Append(s, e)[i] = s[i]
              \/ i = Len(s) + 1 /\ Append(s, e)[i] = e
BY SMTT(90)

LEMMA TailAt ==
  ASSUME NEW S, NEW s \in Seq(S), s # <<>>
  PROVE  /\ Tail(s) \in Seq(S) /\ Len(s) \in Nat /\ 1 \in 1 .. Len(s)
         /\ Head(s) = s[1] /\ Head(s) \in S
         /\ \A i \in 1 .. Len(Tail(s)) : i + 1 \in 1 .. Len(s) /\ Tail(s)[i] = s[i + 1]
         /\ \A i, j \in 1 .. Len(Tail(s)) : i + 1 = j + 1 => i = j
         /\ \A i \in 1 .. Len(Tail(s)) : i + 1 # 1
BY SMTT(90)

LEMMA NoneIsNoId == Types => None \notin Ids
BY PlansAssumption DEF Types, None, Ids

LEMMA InvHoldsFirst == Init => Inv
<1> SUFFICES ASSUME Init PROVE Inv
  OBVIOUS
<1>1. Types
  BY SMTT(90) DEF Init, Types, Idle, Calling, None, Ids, Messages
<1>2. \A t \in Ids : ~ HasEntry(t) /\ ~ Running(t) /\ ~ InCall(t)
  BY PlansAssumption, SMTT(90) DEF Init, HasEntry, Running, InCall, Idle, None, Ids
<1> QED
  BY <1>1, <1>2, SMTT(90) DEF Init, Inv, Handlers, Posted, Once, Calls, Sound, Added, Untouched, Idle

\* What is said of a trigger stays as long as its parts do.
LEMMA Steady ==
  ASSUME UNCHANGED plan
  PROVE  /\ Ids' = Ids
         /\ \A t : Of(t)' = Of(t)
         /\ UNCHANGED entries => \A t : HasEntry(t)' = HasEntry(t)
         /\ UNCHANGED <<senders, loop>> => \A t : Running(t)' = Running(t)
         /\ UNCHANGED callback => \A t : InCall(t)' = InCall(t)
         /\ UNCHANGED <<entries, seen>> => \A t : Kept(t)' = Kept(t)
BY DEF Ids, Of, HasEntry, Running, InCall, Kept

\* A step that leaves all of this alone keeps the invariant.
LEMMA QuietStep ==
  Inv /\ UNCHANGED <<plan, triggers, adding, deleting, subject, callback, entries,
                     senders, loop, seen>> => Inv'
<1> SUFFICES ASSUME Inv, UNCHANGED <<plan, triggers, adding, deleting, subject, callback,
                                     entries, senders, loop, seen>>
             PROVE  Inv'
  OBVIOUS
<1>1. Types'
  BY DEF Inv, Types, Ids, Messages, Calling
<1>2. \A t : /\ Untouched(t)' = Untouched(t) /\ Deleted(t)' = Deleted(t)
            /\ Kept(t)' = Kept(t) /\ Running(t)' = Running(t) /\ InCall(t)' = InCall(t)
  BY Steady DEF Untouched, Deleted
<1>3. Handlers' /\ Added'
  BY <1>2, Steady DEF Inv, Handlers, Added
<1>4. ASSUME NEW w, NEW m PROVE Rightly(w, m)' <=> Rightly(w, m)
  BY <1>2, Steady DEF Rightly
<1>7. ASSUME NEW w, NEW m PROVE Sound(w, m)' <=> Sound(w, m)
  BY <1>2, Steady DEF Sound
<1>5. Posted' /\ Once' /\ Calls'
  BY <1>4, <1>7 DEF Inv, Posted, Once, Calls
<1> QED
  BY <1>1, <1>3, <1>5 DEF Inv

-----------------------------------------------------------------------------
(* A message comes to a subscription, and the first is taken from it.      *)

LEMMA PostedOne ==
  ASSUME Types, NEW w \in Workflows, NEW m \in Messages, subject' = Published(w, m)
  PROVE  /\ subject' \in [Workflows -> Seq(Messages)]
         /\ \A v \in Workflows : \A i \in 1 .. Len(subject'[v]) :
              \/ i \in 1 .. Len(subject[v]) /\ subject'[v][i] = subject[v][i]
              \/ v = w /\ subject'[v][i] = m /\ i = Len(subject[v]) + 1
<1>1. CASE subject' = subject
  BY <1>1 DEF Types
<1>2. CASE subject' = [subject EXCEPT ![w] = Append(@, m)]
  <2>1. subject[w] \in Seq(Messages)
    BY DEF Types
  <2>2. \A v \in Workflows : subject'[v] = IF v = w THEN Append(subject[w], m) ELSE subject[v]
    BY <1>2 DEF Types
  <2>3. subject' \in [Workflows -> Seq(Messages)]
    BY <1>2, <2>1, AppendAt, SMTT(90) DEF Types
  <2>4. \A i \in 1 .. Len(Append(subject[w], m)) :
          \/ i \in 1 .. Len(subject[w]) /\ Append(subject[w], m)[i] = subject[w][i]
          \/ i = Len(subject[w]) + 1 /\ Append(subject[w], m)[i] = m
    BY <2>1, AppendAt
  <2>5. ASSUME NEW v \in Workflows, NEW i \in 1 .. Len(subject'[v])
        PROVE  \/ i \in 1 .. Len(subject[v]) /\ subject'[v][i] = subject[v][i]
               \/ v = w /\ subject'[v][i] = m /\ i = Len(subject[v]) + 1
    <3>1. CASE v = w
      <4>1. subject'[v] = Append(subject[w], m)
        BY <2>2, <3>1
      <4> QED
        BY <2>4, <3>1, <4>1
    <3>2. CASE v # w
      <4>1. subject'[v] = subject[v]
        BY <2>2, <3>2
      <4> QED
        BY <4>1
    <3> QED
      BY <3>1, <3>2
  <2> QED
    BY <2>3, <2>5
<1> QED
  BY <1>1, <1>2 DEF Published

LEMMA TakenOne ==
  ASSUME Types, NEW w \in Workflows, NEW a, Handling(w, a)
  PROVE  /\ subject' \in [Workflows -> Seq(Messages)]
         /\ subject[w] # <<>> /\ 1 \in 1 .. Len(subject[w])
         /\ Head(subject[w]) = subject[w][1] /\ subject[w][1] \in Messages
         /\ subject[w][1].action = a
         /\ \A v \in Workflows : \A i \in 1 .. Len(subject'[v]) :
              \E k \in 1 .. Len(subject[v]) :
                subject'[v][i] = subject[v][k] /\ (v = w => k # 1)
         /\ Once => Once'
<1>1. subject[w] \in Seq(Messages) /\ subject[w] # <<>>
  BY DEF Types, Handling
<1>2. \A v \in Workflows : subject'[v] = IF v = w THEN Tail(subject[w]) ELSE subject[v]
  BY DEF Types, Handling
<1>3. subject' \in [Workflows -> Seq(Messages)]
  BY <1>1, TailAt DEF Types, Handling
<1>6. /\ \A i \in 1 .. Len(Tail(subject[w])) :
          /\ i + 1 \in 1 .. Len(subject[w]) /\ i + 1 # 1
          /\ Tail(subject[w])[i] = subject[w][i + 1]
      /\ \A i, j \in 1 .. Len(Tail(subject[w])) : i + 1 = j + 1 => i = j
  BY <1>1, TailAt
<1>4. \A v \in Workflows : \A i \in 1 .. Len(subject'[v]) :
        \E k \in 1 .. Len(subject[v]) :
          subject'[v][i] = subject[v][k] /\ (v = w => k # 1)
  <2> TAKE v \in Workflows
  <2>1. CASE v = w
    <3> TAKE i \in 1 .. Len(subject'[v])
    <3>1. subject'[v] = Tail(subject[w])
      BY <1>2, <2>1
    <3>2. /\ i + 1 \in 1 .. Len(subject[v]) /\ i + 1 # 1
          /\ subject'[v][i] = subject[v][i + 1]
      BY <1>6, <2>1, <3>1
    <3> QED
      BY <3>2
  <2>2. CASE v # w
    BY <1>2, <2>2
  <2> QED
    BY <2>1, <2>2
<1>5. ASSUME Once PROVE Once'
  <2> SUFFICES ASSUME NEW v \in Workflows, NEW i \in 1 .. Len(subject'[v]),
                      NEW j \in 1 .. Len(subject'[v]),
                      subject'[v][i].action = "", subject'[v][i] = subject'[v][j]
               PROVE  i = j
    BY DEF Once
  <2>1. CASE v = w
    <3>1. subject'[w] = Tail(subject[w])
      BY <1>2
    <3>3. /\ i + 1 \in 1 .. Len(subject[w]) /\ j + 1 \in 1 .. Len(subject[w])
          /\ subject'[v][i] = subject[w][i + 1] /\ subject'[v][j] = subject[w][j + 1]
      BY <1>6, <2>1, <3>1
    <3>2. i + 1 = j + 1
      BY <1>5, <3>3 DEF Once
    <3> QED
      BY <1>6, <2>1, <3>1, <3>2
  <2>2. CASE v # w
    BY <1>2, <1>5, <2>2 DEF Once
  <2> QED
    BY <2>1, <2>2
<1>7. /\ 1 \in 1 .. Len(subject[w]) /\ Head(subject[w]) = subject[w][1]
      /\ subject[w][1] \in Messages
  BY <1>1, SMTT(90)
<1>8. subject[w][1].action = a
  BY <1>7 DEF Handling
<1> QED
  BY <1>1, <1>3, <1>4, <1>5, <1>7, <1>8

LEMMA MessagesAre ==
  Types => \A w \in Workflows : \A i \in 1 .. Len(subject[w]) : subject[w][i] \in Messages
BY SMTT(90) DEF Types

LEMMA PostedSame ==
  ASSUME Inv, UNCHANGED subject,
         \A v \in Workflows, y \in Messages : Rightly(v, y) => Rightly(v, y)'
  PROVE  Posted' /\ Once'
<1>1. \A w \in Workflows : \A i \in 1 .. Len(subject[w]) : subject[w][i] \in Messages
  BY MessagesAre DEF Inv
<1>2. Posted'
  BY <1>1 DEF Inv, Posted
<1>3. Once'
  BY DEF Inv, Once
<1> QED
  BY <1>2, <1>3

LEMMA PostedMore ==
  ASSUME Inv, NEW w \in Workflows, NEW m \in Messages, subject' = Published(w, m),
         \A v \in Workflows, x \in Messages : Rightly(v, x) => Rightly(v, x)',
         Rightly(w, m)',
         m.action = "" => \A i \in 1 .. Len(subject[w]) : subject[w][i] # m
  PROVE  Posted' /\ Once'
<1>1. \A v \in Workflows : \A i \in 1 .. Len(subject[v]) :
        subject[v][i] \in Messages /\ Rightly(v, subject[v][i])
  BY MessagesAre DEF Inv, Posted
<1>2. \A v \in Workflows : \A i \in 1 .. Len(subject'[v]) :
        \/ i \in 1 .. Len(subject[v]) /\ subject'[v][i] = subject[v][i]
        \/ v = w /\ subject'[v][i] = m /\ i = Len(subject[v]) + 1
  BY PostedOne DEF Inv
<1>3. Posted'
  <2> SUFFICES ASSUME NEW v \in Workflows, NEW i \in 1 .. Len(subject'[v])
               PROVE  Rightly(v, subject[v][i])'
    BY DEF Posted
  <2>1. PICK x : x = subject'[v][i]
    OBVIOUS
  <2>2. (x \in Messages /\ Rightly(v, x)) \/ (v = w /\ x = m)
    BY <1>1, <1>2, <2>1
  <2>3. Rightly(v, x)'
    BY <2>2
  <2> QED
    BY <2>1, <2>3
<1>4. Once'
  <2> SUFFICES ASSUME NEW v \in Workflows, NEW i \in 1 .. Len(subject'[v]),
                      NEW j \in 1 .. Len(subject'[v]),
                      subject'[v][i].action = "", subject'[v][i] = subject'[v][j]
               PROVE  i = j
    BY DEF Once
  <2>1. CASE i \in 1 .. Len(subject[v]) /\ subject'[v][i] = subject[v][i]
    <3>1. CASE j \in 1 .. Len(subject[v]) /\ subject'[v][j] = subject[v][j]
      BY <2>1, <3>1 DEF Inv, Once
    <3>2. CASE v = w /\ subject'[v][j] = m
      BY <2>1, <3>2
    <3> QED
      BY <1>2, <3>1, <3>2
  <2>2. CASE v = w /\ subject'[v][i] = m /\ i = Len(subject[v]) + 1
    <3>1. CASE j \in 1 .. Len(subject[v]) /\ subject'[v][j] = subject[v][j]
      BY <2>2, <3>1
    <3>2. CASE v = w /\ subject'[v][j] = m /\ j = Len(subject[v]) + 1
      BY <2>2, <3>2
    <3> QED
      BY <1>2, <3>1, <3>2
  <2> QED
    BY <1>2, <2>1, <2>2
<1> QED
  BY <1>3, <1>4

\* What is said of messages holds of those that were there.
LEMMA PostedFrom ==
  ASSUME Types, Posted,
         \A v \in Workflows, y \in Messages : Rightly(v, y) => Rightly(v, y)',
         \A v \in Workflows : \A i \in 1 .. Len(subject'[v]) :
           \E k \in 1 .. Len(subject[v]) : subject'[v][i] = subject[v][k]
  PROVE  Posted'
<1> SUFFICES ASSUME NEW v \in Workflows, NEW i \in 1 .. Len(subject'[v])
             PROVE  Rightly(v, subject[v][i])'
  BY DEF Posted
<1>1. PICK k \in 1 .. Len(subject[v]) : subject'[v][i] = subject[v][k]
  OBVIOUS
<1>2. PICK x : x = subject[v][k]
  OBVIOUS
<1>3. x \in Messages /\ Rightly(v, x)
  BY <1>2, MessagesAre DEF Posted
<1>4. Rightly(v, x)'
  BY <1>3
<1> QED
  BY <1>1, <1>2, <1>4

LEMMA PostedBut ==
  ASSUME Types, Posted, NEW m,
         \A v \in Workflows, y \in Messages : Rightly(v, y) /\ y # m => Rightly(v, y)',
         \A v \in Workflows : \A i \in 1 .. Len(subject'[v]) :
           \E k \in 1 .. Len(subject[v]) : subject'[v][i] = subject[v][k] /\ subject[v][k] # m
  PROVE  Posted'
<1> SUFFICES ASSUME NEW v \in Workflows, NEW i \in 1 .. Len(subject'[v])
             PROVE  Rightly(v, subject[v][i])'
  BY DEF Posted
<1>1. PICK k \in 1 .. Len(subject[v]) : subject'[v][i] = subject[v][k] /\ subject[v][k] # m
  OBVIOUS
<1>2. PICK x : x = subject[v][k]
  OBVIOUS
<1>3. x \in Messages /\ Rightly(v, x) /\ x # m
  BY <1>1, <1>2, MessagesAre DEF Posted
<1>4. Rightly(v, x)'
  BY <1>3
<1> QED
  BY <1>1, <1>2, <1>4

-----------------------------------------------------------------------------
(* The handlers of the HTTP server.                                        *)

\* They leave the scheduler alone, and never say that a trigger is scheduled.
LEMMA HandlersOnly ==
  ASSUME Inv, UNCHANGED <<plan, callback, entries, senders, loop>>,
         UNCHANGED <<seen.replaced, seen.forgotten>>,
         \A x \in Ids : triggers'[x] = "scheduled" => triggers[x] = "scheduled",
         \A x \in Ids : triggers[x] = "none" /\ adding[x] # "new" => triggers'[x] = "none",
         \A x \in Ids : adding[x] = "done" => adding'[x] = "done",
         \A x \in Ids : adding[x] # "new" => adding'[x] # "new"
  PROVE  /\ Ids' = Ids
         /\ \A x \in Ids : /\ Untouched(x) => Untouched(x)'
                           /\ Deleted(x) => Deleted(x)'
                           /\ Running(x)' = Running(x) /\ InCall(x)' = InCall(x)
         /\ \A v \in Workflows, y \in Messages : Rightly(v, y) => Rightly(v, y)'
         /\ Calls' /\ Added'
<1>1. /\ Ids' = Ids /\ \A x : Of(x)' = Of(x)
      /\ \A x : HasEntry(x)' = HasEntry(x) /\ Running(x)' = Running(x)
                /\ InCall(x)' = InCall(x)
  BY Steady
<1>2. \A x : Kept(x)' = Kept(x)
  BY <1>1 DEF Kept
<1>3. \A x \in Ids : (Untouched(x) => Untouched(x)') /\ (Deleted(x) => Deleted(x)')
  BY <1>1 DEF Untouched, Deleted
<1>4. ASSUME NEW w \in Workflows, NEW m \in Messages, Rightly(w, m)
      PROVE  Rightly(w, m)'
  BY <1>1, <1>3, <1>4 DEF Rightly, Messages
<1>5. ASSUME NEW w \in Workflows PROVE Sound(w, callback[w])'
  BY <1>1, <1>2, <1>3 DEF Inv, Calls, Sound
<1>6. \A x \in Ids : Running(x) => adding[x] # "new"
  BY DEF Inv, Handlers, Untouched, Types
<1>7. Added'
  BY <1>1, <1>2, <1>6 DEF Inv, Added
<1> QED
  BY <1>1, <1>3, <1>4, <1>5, <1>7 DEF Calls

LEMMA InsertTriggerStep ==
  ASSUME Inv, NEW t \in Ids, InsertTrigger(t)
  PROVE  Inv'
<1>1. /\ triggers[t] = "none" /\ adding[t] = "new" /\ triggers'[t] # "scheduled"
      /\ adding'[t] \in {"inserted", "done"}
      /\ \A x \in Ids \ {t} : triggers'[x] = triggers[x] /\ adding'[x] = adding[x]
  BY DEF Inv, Types, Handlers, InsertTrigger
<1>2. Types'
  BY DEF Inv, Types, InsertTrigger, Ids, Messages, Calling, sched
<1>3. /\ Ids' = Ids
      /\ \A x \in Ids : /\ Untouched(x) => Untouched(x)'
                        /\ Deleted(x) => Deleted(x)'
                        /\ Running(x)' = Running(x) /\ InCall(x)' = InCall(x)
      /\ \A v \in Workflows, y \in Messages : Rightly(v, y) => Rightly(v, y)'
      /\ Calls' /\ Added'
  <2>1. UNCHANGED <<plan, callback, entries, senders, loop, seen>>
    BY DEF InsertTrigger, sched
  <2> QED
    BY <1>1, <2>1, HandlersOnly
<1>4. Handlers'
  BY <1>1, <1>3 DEF Inv, Handlers, InsertTrigger
<1>5. Posted' /\ Once'
  BY <1>3, PostedSame DEF InsertTrigger
<1> QED
  BY <1>2, <1>3, <1>4, <1>5 DEF Inv

LEMMA GetTriggersByIDStep ==
  ASSUME Inv, NEW t \in Ids, GetTriggersByID(t)
  PROVE  Inv'
<1>1. /\ adding[t] # "new" /\ UNCHANGED <<triggers, adding>>
      /\ deleting'[t] = "read" /\ \A x \in Ids \ {t} : deleting'[x] = deleting[x]
  BY DEF Inv, Types, Handlers, GetTriggersByID
<1>2. Types'
  BY DEF Inv, Types, GetTriggersByID, Ids, Messages, Calling, sched
<1>3. /\ Ids' = Ids
      /\ \A x \in Ids : /\ Untouched(x) => Untouched(x)'
                        /\ Deleted(x) => Deleted(x)'
                        /\ Running(x)' = Running(x) /\ InCall(x)' = InCall(x)
      /\ \A v \in Workflows, y \in Messages : Rightly(v, y) => Rightly(v, y)'
      /\ Calls' /\ Added'
  <2>1. UNCHANGED <<plan, callback, entries, senders, loop, seen>>
    BY DEF GetTriggersByID, sched
  <2> QED
    BY <1>1, <2>1, HandlersOnly
<1>4. Handlers'
  BY <1>1, <1>3 DEF Inv, Handlers
<1>5. Posted' /\ Once'
  BY <1>3, PostedSame DEF GetTriggersByID
<1> QED
  BY <1>2, <1>3, <1>4, <1>5 DEF Inv

LEMMA DeleteTriggerByIDStep ==
  ASSUME Inv, NEW t \in Ids, DeleteTriggerByID(t)
  PROVE  Inv'
<1>1. /\ adding[t] # "new" /\ UNCHANGED adding
      /\ deleting'[t] = "deleted" /\ triggers'[t] = "none"
      /\ \A x \in Ids \ {t} : deleting'[x] = deleting[x] /\ triggers'[x] = triggers[x]
  BY DEF Inv, Types, Handlers, DeleteTriggerByID
<1>2. Types'
  BY DEF Inv, Types, DeleteTriggerByID, Ids, Messages, Calling, sched
<1>3. /\ Ids' = Ids
      /\ \A x \in Ids : /\ Untouched(x) => Untouched(x)'
                        /\ Deleted(x) => Deleted(x)'
                        /\ Running(x)' = Running(x) /\ InCall(x)' = InCall(x)
      /\ \A v \in Workflows, y \in Messages : Rightly(v, y) => Rightly(v, y)'
      /\ Calls' /\ Added'
  <2>1. UNCHANGED <<plan, callback, entries, senders, loop, seen>>
    BY DEF DeleteTriggerByID, sched
  <2> QED
    BY <1>1, <2>1, HandlersOnly
<1>4. Deleted(t)'
  BY <1>1 DEF Deleted
<1>5. Handlers'
  BY <1>1, <1>3, <1>4 DEF Inv, Handlers
<1>6. Posted' /\ Once'
  BY <1>3, PostedSame DEF DeleteTriggerByID
<1> QED
  BY <1>2, <1>3, <1>5, <1>6 DEF Inv

\* The one message of the creation, of which the runner knows nothing yet.
LEMMA PublishTriggerStep ==
  ASSUME Inv, NEW t \in Ids, PublishTrigger(t)
  PROVE  Inv'
<1>0. PICK w, m : w = Of(t).wf /\ m = [t |-> t, action |-> ""]
  OBVIOUS
<1>1. /\ adding[t] = "inserted" /\ adding'[t] = "done"
      /\ UNCHANGED <<triggers, deleting>>
      /\ \A x \in Ids \ {t} : adding'[x] = adding[x]
  BY DEF Inv, Types, PublishTrigger
<1>2. w \in Workflows /\ m \in Messages /\ subject' = Published(w, m)
  BY <1>0, PlansAssumption DEF Inv, Types, Messages, PublishTrigger, Of, Ids
<1>3. Types'
  <2>1. subject' \in [Workflows -> Seq(Messages)]
    BY <1>2, PostedOne DEF Inv
  <2> QED
    BY <2>1 DEF Inv, Types, PublishTrigger, Ids, Messages, Calling, sched
<1>4. /\ Ids' = Ids
      /\ \A x \in Ids : /\ Untouched(x) => Untouched(x)'
                        /\ Deleted(x) => Deleted(x)'
                        /\ Running(x)' = Running(x) /\ InCall(x)' = InCall(x)
      /\ \A v \in Workflows, y \in Messages : Rightly(v, y) => Rightly(v, y)'
      /\ Calls' /\ Added'
  <2>1. UNCHANGED <<plan, callback, entries, senders, loop, seen>>
    BY DEF PublishTrigger, sched
  <2> QED
    BY <1>1, <2>1, HandlersOnly
<1>5. Handlers'
  BY <1>1, <1>4 DEF Inv, Handlers
<1>6. Rightly(w, m)'
  <2>1. Untouched(t)' /\ ~ InCall(t)'
    BY <1>1, <1>4 DEF Inv, Handlers
  <2> QED
    BY <1>0, <1>1, <2>1 DEF Rightly, PublishTrigger, Of
<1>7. \A i \in 1 .. Len(subject[w]) : subject[w][i] # m
  <2>1. ~ Rightly(w, m)
    BY <1>0, <1>1 DEF Rightly
  <2> QED
    BY <1>2, <2>1 DEF Inv, Posted
<1>8. Posted' /\ Once'
  BY <1>2, <1>4, <1>6, <1>7, PostedMore
<1> QED
  BY <1>3, <1>4, <1>5, <1>8 DEF Inv

LEMMA PublishDeleteStep ==
  ASSUME Inv, NEW t \in Ids, PublishDelete(t)
  PROVE  Inv'
<1>0. PICK w, m : w = Of(t).wf /\ m = [t |-> t, action |-> "delete"]
  OBVIOUS
<1>1. /\ Deleted(t) /\ deleting'[t] = "done"
      /\ UNCHANGED <<triggers, adding>>
      /\ \A x \in Ids \ {t} : deleting'[x] = deleting[x]
  BY DEF Inv, Types, Handlers, PublishDelete
<1>2. w \in Workflows /\ m \in Messages /\ subject' = Published(w, m)
  BY <1>0, PlansAssumption DEF Inv, Types, Messages, PublishDelete, Of, Ids
<1>3. Types'
  <2>1. subject' \in [Workflows -> Seq(Messages)]
    BY <1>2, PostedOne DEF Inv
  <2>2. seen' \in [replaced : SUBSET Ids, forgotten : SUBSET Ids, late : SUBSET Ids,
                   doubled : SUBSET Ids]
    BY DEF Inv, Types, PublishDelete
  <2> QED
    BY <2>1, <2>2 DEF Inv, Types, PublishDelete, Ids, Messages, Calling, sched
<1>4. /\ Ids' = Ids
      /\ \A x \in Ids : /\ Untouched(x) => Untouched(x)'
                        /\ Deleted(x) => Deleted(x)'
                        /\ Running(x)' = Running(x) /\ InCall(x)' = InCall(x)
      /\ \A v \in Workflows, y \in Messages : Rightly(v, y) => Rightly(v, y)'
      /\ Calls' /\ Added'
  <2>1. UNCHANGED <<plan, callback, entries, senders, loop>>
    BY DEF PublishDelete, sched
  <2>2. UNCHANGED <<seen.replaced, seen.forgotten>>
    BY DEF Inv, Types, PublishDelete
  <2> QED
    BY <1>1, <2>1, <2>2, HandlersOnly
<1>5. Handlers'
  BY <1>1, <1>4 DEF Inv, Handlers
<1>6. Rightly(w, m)'
  BY <1>0, <1>1, <1>4 DEF Rightly, PublishDelete, Of
<1>8. m.action # ""
  BY <1>0
<1>7. Posted' /\ Once'
  BY <1>2, <1>4, <1>6, <1>8, PostedMore
<1> QED
  BY <1>3, <1>4, <1>5, <1>7 DEF Inv

-----------------------------------------------------------------------------
(* The callback of a subscription.                                         *)

\* A message of a trigger has no callback of another workflow.
LEMMA OneCallback ==
  ASSUME Inv, NEW w \in Workflows, NEW v \in Workflows, callback[v].at # "idle",
         Of(callback[v].t).wf = w
  PROVE  v = w
BY DEF Inv, Calls, Sound

\* The entry that RemoveEntry takes is its own, or it is replaced.
LEMMA RemovedOne ==
  ASSUME Inv, NEW t \in Ids, RemoveEntry(t), UNCHANGED plan,
         seen' = [seen EXCEPT !.replaced = @ \union Ousted(t)]
  PROVE  /\ entries' \subseteq entries
         /\ seen' \in [replaced : SUBSET Ids, forgotten : SUBSET Ids,
                       late : SUBSET Ids, doubled : SUBSET Ids]
         /\ \A x \in Ids : HasEntry(x)' => HasEntry(x)
         /\ \A x \in Ids \ {t} : Kept(x) => Kept(x)'
         /\ \A x \in Ids : ~ HasEntry(x) /\ Kept(x) => Kept(x)'
<1>1. entries' \subseteq entries
  BY DEF RemoveEntry
<1>2. Ousted(t) \subseteq Ids
  BY SMTT(90) DEF Inv, Types, Ousted
<1>3. /\ seen' \in [replaced : SUBSET Ids, forgotten : SUBSET Ids,
                    late : SUBSET Ids, doubled : SUBSET Ids]
      /\ seen'.replaced = seen.replaced \union Ousted(t)
      /\ seen'.forgotten = seen.forgotten
  BY <1>2 DEF Inv, Types
<1>4. ASSUME NEW x \in Ids, HasEntry(x), x # t PROVE Kept(x)'
  <2>1. PICK e \in entries : e.t = x
    BY <1>4 DEF HasEntry
  <2>2. CASE e \in entries'
    BY <2>1, <2>2 DEF Kept, HasEntry
  <2>3. CASE e \notin entries'
    <3>1. x \in Ousted(t)
      BY <1>4, <2>1, <2>3 DEF Ousted
    <3> QED
      BY <1>3, <3>1 DEF Kept
  <2> QED
    BY <2>2, <2>3
<1>5. \A x \in Ids : ~ HasEntry(x) /\ Kept(x) => Kept(x)'
  BY <1>3 DEF Kept
<1> QED
  BY <1>1, <1>3, <1>4, <1>5 DEF HasEntry

LEMMA HandleDeleteStep ==
  ASSUME Inv, NEW w \in Workflows, HandleDelete(w)
  PROVE  Inv'
<1>1. PICK t : t = Head(subject[w]).t
  OBVIOUS
<1>2. /\ subject' \in [Workflows -> Seq(Messages)]
      /\ 1 \in 1 .. Len(subject[w]) /\ subject[w][1] \in Messages
      /\ subject[w][1].t = t /\ subject[w][1].action = "delete"
      /\ \A v \in Workflows : \A i \in 1 .. Len(subject'[v]) :
           \E k \in 1 .. Len(subject[v]) : subject'[v][i] = subject[v][k]
      /\ Once'
  BY <1>1, TakenOne, SMTT(90) DEF Inv, HandleDelete
<1>3. t \in Ids /\ Of(t).wf = w /\ Deleted(t)
  <2>1. Rightly(w, subject[w][1])
    BY <1>2 DEF Inv, Posted
  <2> QED
    BY <1>2, <2>1 DEF Rightly, Messages
<1>4. /\ RemoveEntry(t) /\ seen' = [seen EXCEPT !.replaced = @ \union Ousted(t)]
      /\ UNCHANGED <<plan, triggers, adding, deleting, callback, senders, loop>>
      /\ callback[w].at = "idle"
  BY <1>1, SMTT(90) DEF HandleDelete, Handling, http, Idle
<1>5. /\ entries' \subseteq entries
      /\ seen' \in [replaced : SUBSET Ids, forgotten : SUBSET Ids,
                    late : SUBSET Ids, doubled : SUBSET Ids]
      /\ \A x \in Ids : HasEntry(x)' => HasEntry(x)
      /\ \A x \in Ids \ {t} : Kept(x) => Kept(x)'
  BY <1>3, <1>4, RemovedOne
<1>6. Ids' = Ids /\ \A x : Of(x)' = Of(x) /\ Running(x)' = Running(x) /\ InCall(x)' = InCall(x)
  BY <1>4, Steady
<1>7. Types'
  BY <1>2, <1>4, <1>5 DEF Inv, Types, Ids, Messages, Calling
<1>8. \A x \in Ids : (Untouched(x) => Untouched(x)') /\ (Deleted(x) => Deleted(x)')
  BY <1>4, <1>5, <1>6 DEF Untouched, Deleted
<1>9. Handlers'
  BY <1>4, <1>6, <1>8 DEF Inv, Handlers
<1>10. ASSUME NEW v \in Workflows, NEW y \in Messages, Rightly(v, y)
       PROVE  Rightly(v, y)'
  BY <1>4, <1>6, <1>8, <1>10 DEF Rightly, Messages
<1>11. Posted'
  BY <1>2, <1>10, PostedFrom DEF Inv
<1>12. ASSUME NEW v \in Workflows PROVE Sound(v, callback[v])'
  <2>1. callback[v].at # "idle" => callback[v].t # t
    BY <1>3, <1>4, OneCallback
  <2>2. Sound(v, callback[v])
    BY DEF Inv, Calls
  <2> QED
    BY <1>4, <1>5, <1>6, <1>8, <2>1, <2>2 DEF Sound
<1>13. Added'
  BY <1>3, <1>4, <1>5, <1>6 DEF Inv, Added, Deleted
<1> QED
  BY <1>2, <1>7, <1>9, <1>11, <1>12, <1>13 DEF Inv, Calls

\* The creation leaves the subscription, in which there was no other.
LEMMA HandleAddStep ==
  ASSUME Inv, NEW w \in Workflows, HandleAdd(w)
  PROVE  Inv'
<1>1. PICK m : m = subject[w][1]
  OBVIOUS
<1>2. /\ subject' \in [Workflows -> Seq(Messages)]
      /\ 1 \in 1 .. Len(subject[w]) /\ m \in Messages /\ m.action = ""
      /\ Head(subject[w]) = m
      /\ \A v \in Workflows : \A i \in 1 .. Len(subject'[v]) :
           \E k \in 1 .. Len(subject[v]) :
             subject'[v][i] = subject[v][k] /\ (v = w => k # 1)
      /\ Once'
  BY <1>1, TakenOne DEF Inv, HandleAdd
<1>3. PICK t \in Ids : t = m.t
  BY <1>2 DEF Messages
<1>4. Rightly(w, m)
  BY <1>1, <1>2 DEF Inv, Posted
<1>5. Of(t).wf = w /\ adding[t] = "done" /\ Untouched(t) /\ ~ InCall(t)
  BY <1>2, <1>3, <1>4 DEF Rightly
<1>6. PICK c \in Calling :
        c = [t |-> t, at |-> "add", live |-> worker[w] = "listening"]
  <2>1. PICK b \in BOOLEAN : b = (worker[w] = "listening")
    OBVIOUS
  <2>2. [t |-> t, at |-> "add", live |-> b] \in Calling
    BY DEF Calling
  <2> QED
    BY <2>1, <2>2
<1>7. /\ RemoveEntry(t) /\ seen' = [seen EXCEPT !.replaced = @ \union Ousted(t)]
      /\ callback' = [callback EXCEPT ![w] = c] /\ callback[w].at = "idle"
      /\ UNCHANGED <<plan, triggers, adding, deleting, senders, loop>>
  <2>1. callback' = [callback EXCEPT ![w] = c]
    <3>1. callback' = [callback EXCEPT ![w] =
            [t |-> m.t, at |-> "add", live |-> worker[w] = "listening"]]
      BY <1>2 DEF HandleAdd
    <3> QED
      BY <1>3, <1>6, <3>1
  <2>2. /\ RemoveEntry(t) /\ seen' = [seen EXCEPT !.replaced = @ \union Ousted(t)]
        /\ callback[w] = Idle
        /\ UNCHANGED <<plan, triggers, adding, deleting, senders, loop>>
    BY <1>2, <1>3 DEF HandleAdd, Handling, http
  <2> QED
    BY <2>1, <2>2, SMTT(90) DEF Idle
<1>8. /\ callback'[w] = c /\ \A v \in Workflows \ {w} : callback'[v] = callback[v]
      /\ callback' \in [Workflows -> Calling]
  BY <1>7 DEF Inv, Types
<1>9. /\ entries' \subseteq entries
      /\ seen' \in [replaced : SUBSET Ids, forgotten : SUBSET Ids,
                    late : SUBSET Ids, doubled : SUBSET Ids]
      /\ \A x \in Ids : HasEntry(x)' => HasEntry(x)
      /\ \A x \in Ids \ {t} : Kept(x) => Kept(x)'
      /\ \A x \in Ids : ~ HasEntry(x) /\ Kept(x) => Kept(x)'
  BY <1>7, RemovedOne
<1>10. Ids' = Ids /\ \A x : Of(x)' = Of(x) /\ Running(x)' = Running(x)
  BY <1>7, Steady
<1>11. Types'
  BY <1>2, <1>7, <1>8, <1>9 DEF Inv, Types, Ids, Messages, Calling
<1>12. /\ \A x \in Ids : (Untouched(x) => Untouched(x)') /\ (Deleted(x) => Deleted(x)')
       /\ \A x \in Ids \ {t} : ~ InCall(x) => ~ InCall(x)'
  <2>1. \A x \in Ids : (Untouched(x) => Untouched(x)') /\ (Deleted(x) => Deleted(x)')
    BY <1>7, <1>9, <1>10 DEF Untouched, Deleted
  <2>2. \A x \in Ids \ {t} : ~ InCall(x) => ~ InCall(x)'
    BY <1>6, <1>8, SMTT(90) DEF InCall
  <2> QED
    BY <2>1, <2>2
<1>13. Handlers'
  BY <1>5, <1>7, <1>10, <1>12 DEF Inv, Handlers
<1>14. ASSUME NEW v \in Workflows, NEW y \in Messages, Rightly(v, y), y # m
       PROVE  Rightly(v, y)'
  <2>1. y.action = "" => y.t # t
    <3>1. /\ y = [t |-> y.t, action |-> y.action]
          /\ m = [t |-> m.t, action |-> m.action]
      BY <1>2 DEF Messages
    <3> QED
      BY <1>2, <1>3, <1>14, <3>1
  <2> QED
    BY <1>7, <1>10, <1>12, <1>14, <2>1 DEF Rightly, Messages
<1>15. ASSUME NEW v \in Workflows, NEW i \in 1 .. Len(subject'[v])
       PROVE  \E k \in 1 .. Len(subject[v]) : subject'[v][i] = subject[v][k] /\ subject[v][k] # m
  <2>1. PICK k \in 1 .. Len(subject[v]) : subject'[v][i] = subject[v][k] /\ (v = w => k # 1)
    BY <1>2
  <2>2. CASE v = w
    <3>1. k \in 1 .. Len(subject[w]) /\ k # 1
      BY <2>1, <2>2
    <3>2. subject[w][1].action = "" /\ 1 \in 1 .. Len(subject[w])
      BY <1>1, <1>2
    <3>3. subject[w][1] = subject[w][k] => 1 = k
      BY <3>1, <3>2 DEF Inv, Once
    <3> QED
      BY <1>1, <2>1, <2>2, <3>1, <3>3
  <2>3. CASE v # w
    <3>1. ~ Rightly(v, m)
      BY <1>3, <1>5, <2>3 DEF Rightly
    <3> QED
      BY <2>1, <3>1 DEF Inv, Posted
  <2> QED
    BY <2>2, <2>3
<1>16. Posted'
  BY <1>14, <1>15, PostedBut DEF Inv
<1>17. ASSUME NEW v \in Workflows PROVE Sound(v, callback[v])'
  <2>1. CASE v = w
    BY <1>3, <1>5, <1>6, <1>7, <1>8, <1>10, <1>12, <2>1 DEF Sound
  <2>2. CASE v # w
    <3>1. callback[v].at # "idle" => callback[v].t # t
      BY <1>5, <2>2, OneCallback
    <3>2. Sound(v, callback[v])
      BY DEF Inv, Calls
    <3> QED
      BY <1>7, <1>8, <1>9, <1>10, <1>12, <2>2, <3>1, <3>2 DEF Sound
  <2> QED
    BY <2>1, <2>2
<1>18. Added'
  BY <1>5, <1>7, <1>9, <1>10 DEF Inv, Added, Untouched
<1> QED
  BY <1>2, <1>11, <1>13, <1>16, <1>17, <1>18 DEF Inv, Calls

\* The callback goes on with the same trigger.
LEMMA CallMoves ==
  ASSUME Inv, NEW w \in Workflows, NEW to \in {"run", "update"},
         callback[w].at # "idle", callback' = [callback EXCEPT ![w].at = to],
         Sound(w, [callback[w] EXCEPT !.at = to]),
         UNCHANGED <<plan, triggers, adding, deleting, subject, entries, senders, loop, seen>>
  PROVE  Inv'
<1>0. callback[w] \in Calling
  BY DEF Inv, Types
<1>1. PICK c \in Calling : c = [callback[w] EXCEPT !.at = to]
  <2>1. [callback[w] EXCEPT !.at = to] \in Calling
    BY <1>0 DEF Calling
  <2> QED
    BY <2>1
<1>2. c.t = callback[w].t /\ c.at # "idle"
  BY <1>0, <1>1 DEF Calling
<1>3. /\ callback' \in [Workflows -> Calling]
      /\ callback'[w] = c /\ \A v \in Workflows \ {w} : callback'[v] = callback[v]
  BY <1>1 DEF Inv, Types
<1>4. \A x : InCall(x)' <=> InCall(x)
  BY <1>2, <1>3 DEF InCall
<1>5. /\ Ids' = Ids
      /\ \A x : Of(x)' = Of(x) /\ Running(x)' = Running(x) /\ Kept(x)' = Kept(x)
      /\ \A x : Untouched(x)' = Untouched(x) /\ Deleted(x)' = Deleted(x)
  BY Steady DEF Untouched, Deleted
<1>6. Types'
  BY <1>3 DEF Inv, Types, Ids, Messages, Calling
<1>7. Handlers' /\ Added'
  BY <1>4, <1>5 DEF Inv, Handlers, Added
<1>8. ASSUME NEW v \in Workflows, NEW y \in Messages, Rightly(v, y)
      PROVE  Rightly(v, y)'
  BY <1>4, <1>5, <1>8 DEF Rightly
<1>9. Posted' /\ Once'
  BY <1>8, PostedSame
<1>10. ASSUME NEW v \in Workflows PROVE Sound(v, callback[v])'
  <2>1. CASE v = w
    <3>1. Sound(w, c)
      BY <1>1
    <3> QED
      BY <1>3, <1>5, <2>1, <3>1 DEF Sound
  <2>2. CASE v # w
    <3>1. Sound(v, callback[v])
      BY DEF Inv, Calls
    <3> QED
      BY <1>3, <1>5, <2>2, <3>1 DEF Sound
  <2> QED
    BY <2>1, <2>2
<1> QED
  BY <1>6, <1>7, <1>9, <1>10 DEF Inv, Calls

\* Without a schedule that can be parsed there is nothing to add.
LEMMA RunStep ==
  ASSUME Inv, NEW w \in Workflows, AddJobFails(w) \/ RunNow(w) \/ RunReturns(w)
  PROVE  Inv'
<1>1. PICK to \in {"run", "update"} :
        /\ callback' = [callback EXCEPT ![w].at = to]
        /\ callback[w].at \in {"add", "run"}
        /\ callback[w].at = "add" => Of(callback[w].t).schedule # "good"
        /\ to = "run" => callback[w].at = "add"
  BY DEF AddJobFails, RunNow, RunReturns, Goes
<1>2. UNCHANGED <<plan, triggers, adding, deleting, subject, entries, senders, loop, seen>>
  BY DEF AddJobFails, RunNow, RunReturns, http, sched
<1>3. Sound(w, callback[w]) /\ callback[w] \in Calling
  BY DEF Inv, Types, Calls
<1>4. Sound(w, [callback[w] EXCEPT !.at = to])
  <2>1. PICK c : c = [callback[w] EXCEPT !.at = to]
    OBVIOUS
  <2>2. c.t = callback[w].t /\ c.at = to
    BY <1>3, <2>1 DEF Calling
  <2>3. Sound(w, c)
    BY <1>1, <1>3, <2>2 DEF Sound
  <2> QED
    BY <2>1, <2>3
<1> QED
  BY <1>1, <1>2, <1>4, CallMoves

LEMMA AddJobStep ==
  ASSUME Inv, NEW w \in Workflows, AddJob(w)
  PROVE  Inv'
<1>1. PICK t, c : t = callback[w].t /\ c = [callback[w] EXCEPT !.at = "update"]
  OBVIOUS
<1>2. callback[w] \in Calling /\ callback[w].at = "add" /\ Sound(w, callback[w])
  BY DEF Inv, Types, Calls, AddJob, Goes
<1>3. t \in Ids /\ Of(t).wf = w /\ adding[t] = "done" /\ InCall(t)
  BY <1>1, <1>2 DEF Sound, InCall
<1>4. c \in Calling /\ c.t = t /\ c.at = "update"
  BY <1>1, <1>2 DEF Calling
<1>5. /\ callback' = [callback EXCEPT ![w] = c]
      /\ entries' = entries \union {[t |-> t, live |-> callback[w].live]}
      /\ UNCHANGED <<plan, triggers, adding, deleting, subject, senders, loop>>
  BY <1>1, <1>2 DEF AddJob, Goes, http, Inv, Types
<1>6. /\ callback' \in [Workflows -> Calling]
      /\ callback'[w] = c /\ \A v \in Workflows \ {w} : callback'[v] = callback[v]
  BY <1>4, <1>5 DEF Inv, Types
<1>7. /\ seen' \in [replaced : SUBSET Ids, forgotten : SUBSET Ids,
                    late : SUBSET Ids, doubled : SUBSET Ids]
      /\ UNCHANGED <<seen.replaced, seen.forgotten>>
  <2>1. UNION {{e.t, t} : e \in EntriesOf(t)} \subseteq Ids
    BY <1>3, SMTT(90) DEF Inv, Types, EntriesOf
  <2>2. seen' = [seen EXCEPT !.doubled = @ \union UNION {{e.t, t} : e \in EntriesOf(t)}]
    BY <1>1 DEF AddJob
  <2> QED
    BY <2>1, <2>2 DEF Inv, Types
<1>8. [t |-> t, live |-> callback[w].live] \in [t : Ids, live : BOOLEAN]
  BY <1>2, <1>3 DEF Calling
<1>9. Types'
  BY <1>5, <1>6, <1>7, <1>8 DEF Inv, Types, Ids, Messages, Calling
<1>10. /\ HasEntry(t)' /\ \A x \in Ids \ {t} : HasEntry(x)' <=> HasEntry(x)
       /\ \A x \in Ids : Kept(x) => Kept(x)'
  <2>1. HasEntry(t)' /\ \A x \in Ids \ {t} : HasEntry(x)' <=> HasEntry(x)
    <3>1. [t |-> t, live |-> callback[w].live].t = t
      OBVIOUS
    <3>2. HasEntry(t)'
      BY <1>5, <3>1 DEF HasEntry
    <3>3. \A x \in Ids \ {t} : HasEntry(x)' <=> HasEntry(x)
      BY <1>5, <3>1 DEF HasEntry
    <3> QED
      BY <3>2, <3>3
  <2> QED
    BY <1>7, <2>1 DEF Kept
<1>11. /\ Ids' = Ids /\ \A x : Of(x)' = Of(x) /\ Running(x)' = Running(x)
       /\ \A x : InCall(x)' <=> InCall(x)
  <2>1. \A x : InCall(x)' <=> InCall(x)
    BY <1>1, <1>2, <1>4, <1>6 DEF InCall
  <2> QED
    BY <1>5, <2>1, Steady
<1>12. \A x \in Ids : /\ x # t /\ Untouched(x) => Untouched(x)'
                      /\ Deleted(x) => Deleted(x)'
  BY <1>5, <1>10, <1>11 DEF Untouched, Deleted
<1>13. Handlers'
  BY <1>3, <1>5, <1>11, <1>12 DEF Inv, Handlers
<1>14. ASSUME NEW v \in Workflows, NEW y \in Messages, Rightly(v, y)
       PROVE  Rightly(v, y)'
  BY <1>3, <1>5, <1>11, <1>12, <1>14 DEF Rightly, Messages
<1>15. Posted' /\ Once'
  BY <1>5, <1>14, PostedSame
<1>16. ASSUME NEW v \in Workflows PROVE Sound(v, callback[v])'
  <2>1. CASE v = w
    <3>1. Kept(t)'
      BY <1>10 DEF Kept
    <3> QED
      BY <1>3, <1>4, <1>5, <1>6, <1>11, <2>1, <3>1 DEF Sound
  <2>2. CASE v # w
    <3>1. callback[v].at # "idle" => callback[v].t # t
      BY <1>3, <2>2, OneCallback
    <3>2. Sound(v, callback[v])
      BY DEF Inv, Calls
    <3> QED
      BY <1>5, <1>6, <1>10, <1>11, <1>12, <2>2, <3>1, <3>2 DEF Sound
  <2> QED
    BY <2>1, <2>2
<1>17. Added'
  BY <1>5, <1>10, <1>11 DEF Inv, Added
<1> QED
  BY <1>9, <1>13, <1>15, <1>16, <1>17 DEF Inv, Calls

\* The row of a trigger that has been through a callback says "scheduled", if
\* it is still there.
LEMMA UpdatedOne ==
  ASSUME Inv, NEW t \in Ids, triggers' = Updated(t),
         UNCHANGED <<plan, adding, deleting, subject, entries, seen>>,
         callback' \in [Workflows -> Calling], loop' \in [Workflows -> Ids \union {None}],
         UNCHANGED senders,
         \A x \in Ids : Running(x)' => Running(x),
         \A x \in Ids : InCall(x)' => InCall(x),
         InCall(t) \/ Running(t), adding[t] = "done",
         Of(t).schedule = "good" => Kept(t) \/ triggers[t] = "none",
         \A v \in Workflows : \/ callback'[v].at = "idle"
                              \/ /\ callback'[v] = callback[v]
                                 /\ callback[v].t = t => callback[v].at = "update"
  PROVE  Inv'
<1>1. /\ \A x \in Ids \ {t} : triggers'[x] = triggers[x]
      /\ triggers'[t] \in {"none", "scheduled"}
      /\ \A x \in Ids : triggers[x] = "none" => triggers'[x] = "none"
      /\ triggers' \in [Ids -> {"none", "deliver", "scheduled"}]
  BY DEF Inv, Types, Updated
<1>2. Types'
  BY <1>1 DEF Inv, Types, Ids, Messages, Calling
<1>3. /\ Ids' = Ids
      /\ \A x : Of(x)' = Of(x) /\ HasEntry(x)' = HasEntry(x) /\ Kept(x)' = Kept(x)
  BY Steady
<1>4. \A x \in Ids : /\ x # t /\ Untouched(x) => Untouched(x)'
                     /\ Deleted(x) => Deleted(x)'
  BY <1>1, <1>3 DEF Untouched, Deleted
<1>5. Handlers'
  BY <1>1, <1>3, <1>4 DEF Inv, Handlers
<1>6. ASSUME NEW v \in Workflows, NEW y \in Messages, Rightly(v, y)
      PROVE  Rightly(v, y)'
  <2>1. y.action = "" => y.t # t
    BY <1>6 DEF Rightly, Untouched
  <2> QED
    BY <1>3, <1>4, <1>6, <2>1 DEF Rightly, Messages
<1>7. Posted' /\ Once'
  BY <1>6, PostedSame
<1>8. ASSUME NEW v \in Workflows PROVE Sound(v, callback[v])'
  <2>1. CASE callback'[v].at = "idle"
    BY <2>1 DEF Sound
  <2>2. CASE callback'[v] = callback[v] /\ (callback[v].t = t => callback[v].at = "update")
    <3>1. Sound(v, callback[v])
      BY DEF Inv, Calls
    <3> QED
      BY <1>3, <1>4, <2>2, <3>1 DEF Sound
  <2> QED
    BY <2>1, <2>2
<1>9. Added'
  BY <1>1, <1>3 DEF Inv, Added
<1> QED
  BY <1>2, <1>5, <1>7, <1>8, <1>9 DEF Inv, Calls

LEMMA UpdateTriggerStep ==
  ASSUME Inv, NEW w \in Workflows, UpdateTrigger(w)
  PROVE  Inv'
<1>1. PICK t : t = callback[w].t
  OBVIOUS
<1>2. Sound(w, callback[w]) /\ callback[w].at = "update"
  BY DEF Inv, Calls, UpdateTrigger
<1>3. /\ t \in Ids /\ Of(t).wf = w /\ adding[t] = "done" /\ InCall(t)
      /\ Of(t).schedule = "good" => Kept(t)
  BY <1>1, <1>2 DEF Sound, InCall
<1>4. /\ triggers' = Updated(t) /\ callback' = [callback EXCEPT ![w] = Idle]
      /\ UNCHANGED <<plan, adding, deleting, subject, entries, senders, loop, seen>>
  BY <1>1 DEF UpdateTrigger, http, sched
<1>5. /\ callback' \in [Workflows -> Calling] /\ callback'[w].at = "idle"
      /\ \A v \in Workflows \ {w} : callback'[v] = callback[v]
  BY <1>4 DEF Inv, Types, Calling, Idle, None
<1>6. /\ \A x \in Ids : Running(x)' => Running(x)
      /\ \A x \in Ids : InCall(x)' => InCall(x)
      /\ loop' \in [Workflows -> Ids \union {None}]
  <2>1. \A x \in Ids : InCall(x)' => InCall(x)
    BY <1>5 DEF InCall
  <2> QED
    BY <1>4, <2>1, Steady DEF Inv, Types
<1>7. \A v \in Workflows : \/ callback'[v].at = "idle"
                           \/ /\ callback'[v] = callback[v]
                              /\ callback[v].t = t => callback[v].at = "update"
  <2> TAKE v \in Workflows
  <2>1. CASE v = w
    BY <1>5, <2>1
  <2>2. CASE v # w
    BY <1>3, <1>5, <2>2, OneCallback
  <2> QED
    BY <2>1, <2>2
<1> QED
  BY <1>3, <1>4, <1>5, <1>6, <1>7, UpdatedOne

-----------------------------------------------------------------------------
(* The crons and the loop.                                                 *)

LEMMA FinishTriggerStep ==
  ASSUME Inv, NEW w \in Workflows, FinishTrigger(w)
  PROVE  Inv'
<1>1. PICK t : t = loop[w]
  OBVIOUS
<1>2. t \in Ids /\ Running(t)
  BY <1>1 DEF Inv, Types, FinishTrigger, Running
<1>3. /\ triggers' = Updated(t) /\ loop' = [loop EXCEPT ![w] = None]
      /\ UNCHANGED <<plan, adding, deleting, subject, callback, entries, senders, seen>>
  BY <1>1 DEF FinishTrigger, http
<1>4. adding[t] = "done" /\ (Kept(t) \/ triggers[t] = "none")
  BY <1>2 DEF Inv, Handlers, Added, Untouched
<1>5. /\ loop' \in [Workflows -> Ids \union {None}]
      /\ \A v \in Workflows : loop'[v] = loop[v] \/ loop'[v] = None
  BY <1>3 DEF Inv, Types
<1>6. \A x \in Ids : Running(x)' => Running(x)
  <2>1. None \notin Ids
    BY NoneIsNoId DEF Inv
  <2> QED
    BY <1>3, <1>5, <2>1 DEF Running
<1>7. callback' \in [Workflows -> Calling] /\ \A x \in Ids : InCall(x)' => InCall(x)
  BY <1>3, Steady DEF Inv, Types
<1>8. \A v \in Workflows : \/ callback'[v].at = "idle"
                           \/ /\ callback'[v] = callback[v]
                              /\ callback[v].t = t => callback[v].at = "update"
  BY <1>2, <1>3, SMTT(90) DEF Inv, Types, Calling, Calls, Sound, Untouched
<1> QED
  BY <1>2, <1>3, <1>4, <1>5, <1>6, <1>7, <1>8, UpdatedOne

\* A step of the loop's alone runs only what was running or has its entry.
LEMMA LoopStep ==
  ASSUME Inv, senders' \in [Workflows -> Seq(Ids)],
         loop' \in [Workflows -> Ids \union {None}],
         UNCHANGED <<plan, triggers, adding, deleting, subject, callback, entries, seen>>,
         \A x \in Ids : Running(x)' => Running(x) \/ HasEntry(x)
  PROVE  Inv'
<1>1. /\ Ids' = Ids /\ \A x : Of(x)' = Of(x) /\ HasEntry(x)' = HasEntry(x)
      /\ \A x : InCall(x)' = InCall(x) /\ Kept(x)' = Kept(x)
  BY Steady
<1>2. \A x \in Ids : (Untouched(x) => Untouched(x)') /\ (Deleted(x) => Deleted(x)')
  BY <1>1 DEF Untouched, Deleted
<1>3. Types'
  BY DEF Inv, Types, Ids, Messages, Calling
<1>4. Handlers'
  BY <1>1, <1>2 DEF Inv, Handlers
<1>5. ASSUME NEW v \in Workflows, NEW y \in Messages, Rightly(v, y)
      PROVE  Rightly(v, y)'
  BY <1>1, <1>2, <1>5 DEF Rightly, Messages
<1>6. Posted' /\ Once'
  BY <1>5, PostedSame
<1>7. ASSUME NEW v \in Workflows PROVE Sound(v, callback[v])'
  <2>1. Sound(v, callback[v])
    BY DEF Inv, Calls
  <2> QED
    BY <1>1, <1>2, <2>1 DEF Sound
<1>8. Added'
  BY <1>1 DEF Inv, Added, Kept
<1> QED
  BY <1>3, <1>4, <1>6, <1>7, <1>8 DEF Inv, Calls

LEMMA ReceiveStep ==
  ASSUME Inv, NEW w \in Workflows, Receive(w)
  PROVE  Inv'
<1>1. senders[w] \in Seq(Ids) /\ senders[w] # <<>>
  BY DEF Inv, Types, Receive
<1>2. /\ UNCHANGED <<plan, triggers, adding, deleting, subject, callback, entries, seen>>
      /\ loop' = [loop EXCEPT ![w] = Head(senders[w])]
      /\ senders' = [senders EXCEPT ![w] = Tail(senders[w])]
  BY DEF Receive, http
<1>3. /\ Tail(senders[w]) \in Seq(Ids) /\ Head(senders[w]) \in Ids
      /\ 1 \in 1 .. Len(senders[w]) /\ Head(senders[w]) = senders[w][1]
      /\ \A i \in 1 .. Len(Tail(senders[w])) :
           i + 1 \in 1 .. Len(senders[w]) /\ Tail(senders[w])[i] = senders[w][i + 1]
  BY <1>1, TailAt
<1>4. /\ loop' \in [Workflows -> Ids \union {None}] /\ senders' \in [Workflows -> Seq(Ids)]
      /\ loop'[w] = Head(senders[w]) /\ senders'[w] = Tail(senders[w])
      /\ \A v \in Workflows \ {w} : loop'[v] = loop[v] /\ senders'[v] = senders[v]
  BY <1>2, <1>3 DEF Inv, Types
<1>5. ASSUME NEW x \in Ids, Running(x)' PROVE Running(x)
  <2>1. PICK v \in Workflows :
          loop'[v] = x \/ \E i \in 1 .. Len(senders'[v]) : senders'[v][i] = x
    BY <1>5 DEF Running
  <2>2. CASE v = w
    <3>1. CASE loop'[w] = x
      BY <1>3, <1>4, <3>1 DEF Running
    <3>2. CASE \E i \in 1 .. Len(senders'[w]) : senders'[w][i] = x
      <4>1. PICK i \in 1 .. Len(Tail(senders[w])) : Tail(senders[w])[i] = x
        BY <1>4, <3>2
      <4>2. i + 1 \in 1 .. Len(senders[w]) /\ senders[w][i + 1] = x
        BY <1>3, <4>1
      <4> QED
        BY <4>2 DEF Running
    <3> QED
      BY <2>1, <2>2, <3>1, <3>2
  <2>3. CASE v # w
    BY <1>4, <2>1, <2>3 DEF Running
  <2> QED
    BY <2>2, <2>3
<1> QED
  BY <1>2, <1>4, <1>5, LoopStep

LEMMA FireStep ==
  ASSUME Inv, NEW t \in Ids, Fire(t)
  PROVE  Inv'
<1>1. PICK w \in Workflows : w = Of(t).wf
  BY PlansAssumption DEF Inv, Types, Of, Ids
<1>2. /\ UNCHANGED <<plan, triggers, adding, deleting, subject, callback, entries, loop, seen>>
      /\ senders' = [senders EXCEPT ![w] = Append(senders[w], t)]
      /\ senders[w] \in Seq(Ids)
  BY <1>1 DEF Fire, http, Inv, Types
<1>3. HasEntry(t)
  <2>1. [t |-> t, live |-> TRUE].t = t
    OBVIOUS
  <2> QED
    BY <2>1 DEF Fire, HasEntry
<1>4. /\ Append(senders[w], t) \in Seq(Ids)
      /\ \A i \in 1 .. Len(Append(senders[w], t)) :
           \/ i \in 1 .. Len(senders[w]) /\ Append(senders[w], t)[i] = senders[w][i]
           \/ Append(senders[w], t)[i] = t
  BY <1>2, AppendAt
<1>5. /\ loop' \in [Workflows -> Ids \union {None}] /\ senders' \in [Workflows -> Seq(Ids)]
      /\ senders'[w] = Append(senders[w], t)
      /\ \A v \in Workflows \ {w} : senders'[v] = senders[v]
  BY <1>2, <1>4 DEF Inv, Types
<1>6. ASSUME NEW x \in Ids, Running(x)' PROVE Running(x) \/ HasEntry(x)
  <2>1. PICK v \in Workflows :
          loop[v] = x \/ \E i \in 1 .. Len(senders'[v]) : senders'[v][i] = x
    BY <1>2, <1>6 DEF Running
  <2>2. CASE v = w
    BY <1>3, <1>4, <1>5, <2>1, <2>2 DEF Running
  <2>3. CASE v # w
    BY <1>5, <2>1, <2>3 DEF Running
  <2> QED
    BY <2>2, <2>3
<1> QED
  BY <1>2, <1>5, <1>6, LoopStep

-----------------------------------------------------------------------------
(* The end of a workflow, and of the process.                              *)

LEMMA DestroySucceedsStep ==
  ASSUME Inv, NEW w \in Workflows, DestroySucceeds(w)
  PROVE  Inv'
<1>1. /\ triggers' = [t \in Ids |-> IF Of(t).wf = w THEN "none" ELSE triggers[t]]
      /\ subject' = [subject EXCEPT ![w] = <<>>]
      /\ UNCHANGED <<plan, adding, deleting, callback, entries, senders, loop, seen>>
  BY DEF DestroySucceeds, http, sched
<1>2. \A x \in Ids : triggers'[x] = triggers[x] \/ triggers'[x] = "none"
  BY <1>1
<1>3. /\ Ids' = Ids
      /\ \A x \in Ids : /\ Untouched(x) => Untouched(x)'
                        /\ Deleted(x) => Deleted(x)'
                        /\ Running(x)' = Running(x) /\ InCall(x)' = InCall(x)
      /\ \A v \in Workflows, y \in Messages : Rightly(v, y) => Rightly(v, y)'
      /\ Calls' /\ Added'
  BY <1>1, <1>2, HandlersOnly
<1>4. /\ subject' \in [Workflows -> Seq(Messages)] /\ subject'[w] = <<>>
      /\ \A v \in Workflows \ {w} : subject'[v] = subject[v]
  BY <1>1, SMTT(90) DEF Inv, Types
<1>5. Types'
  <2>1. triggers' \in [Ids -> {"none", "deliver", "scheduled"}]
    BY <1>1 DEF Inv, Types
  <2> QED
    BY <1>1, <1>4, <2>1 DEF Inv, Types, Ids, Messages, Calling
<1>6. Handlers'
  BY <1>1, <1>2, <1>3 DEF Inv, Handlers
<1>7. \A v \in Workflows : \A i \in 1 .. Len(subject'[v]) :
        v # w /\ i \in 1 .. Len(subject[v]) /\ subject'[v][i] = subject[v][i]
  BY <1>4, SMTT(90)
<1>8. Posted'
  <2>1. \A v \in Workflows : \A i \in 1 .. Len(subject'[v]) :
          \E k \in 1 .. Len(subject[v]) : subject'[v][i] = subject[v][k]
    BY <1>7
  <2> QED
    BY <1>3, <2>1, PostedFrom DEF Inv
<1>9. Once'
  <2> SUFFICES ASSUME NEW v \in Workflows, NEW i \in 1 .. Len(subject'[v]),
                      NEW j \in 1 .. Len(subject'[v]),
                      subject'[v][i].action = "", subject'[v][i] = subject'[v][j]
               PROVE  i = j
    BY DEF Once
  <2>1. /\ i \in 1 .. Len(subject[v]) /\ subject'[v][i] = subject[v][i]
        /\ j \in 1 .. Len(subject[v]) /\ subject'[v][j] = subject[v][j]
    BY <1>7
  <2> QED
    BY <2>1 DEF Inv, Once
<1> QED
  BY <1>3, <1>5, <1>6, <1>8, <1>9 DEF Inv

\* What was scheduled is forgotten, and nothing else is left.
LEMMA RestartStep ==
  ASSUME Inv, Restarted, UNCHANGED <<plan, triggers, adding, deleting>>
  PROVE  Inv'
<1>1. /\ callback' = [w \in Workflows |-> Idle] /\ loop' = [w \in Workflows |-> None]
      /\ senders' = [w \in Workflows |-> <<>>] /\ subject' = [w \in Workflows |-> <<>>]
      /\ entries' = {}
      /\ seen' = [seen EXCEPT !.forgotten = @ \union {t \in Ids : triggers[t] = "scheduled"}]
  BY DEF Restarted
<1>2. Ids' = Ids /\ \A x : Of(x)' = Of(x)
  BY Steady
<1>3. /\ seen' \in [replaced : SUBSET Ids, forgotten : SUBSET Ids,
                    late : SUBSET Ids, doubled : SUBSET Ids]
      /\ seen'.replaced = seen.replaced
      /\ seen'.forgotten = seen.forgotten \union {t \in Ids : triggers[t] = "scheduled"}
  BY <1>1 DEF Inv, Types
<1>4. Types'
  <2>1. callback' \in [Workflows -> Calling]
    BY <1>1 DEF Calling, Idle
  <2>2. /\ subject' \in [Workflows -> Seq(Messages)] /\ senders' \in [Workflows -> Seq(Ids)]
        /\ loop' \in [Workflows -> Ids \union {None}]
    BY <1>1, SMTT(90)
  <2>3. entries' \subseteq [t : Ids, live : BOOLEAN]
    BY <1>1
  <2> QED
    BY <1>3, <2>1, <2>2, <2>3 DEF Inv, Types, Ids, Messages, Calling
<1>5. \A x \in Ids : ~ HasEntry(x)' /\ ~ Running(x)' /\ ~ InCall(x)'
  <2>1. None \notin Ids
    BY NoneIsNoId DEF Inv
  <2> QED
    BY <1>1, <2>1, SMTT(90) DEF HasEntry, Running, InCall, Idle
<1>6. \A x \in Ids : (Untouched(x) => Untouched(x)') /\ (Deleted(x) => Deleted(x)')
  BY <1>5 DEF Untouched, Deleted
<1>7. Handlers'
  BY <1>2, <1>5, <1>6 DEF Inv, Handlers
<1>8. Posted' /\ Once' /\ Calls'
  BY <1>1, SMTT(90) DEF Posted, Once, Calls, Sound, Idle
<1>9. Added'
  BY <1>2, <1>3, <1>5 DEF Inv, Added, Kept
<1> QED
  BY <1>4, <1>7, <1>8, <1>9 DEF Inv

-----------------------------------------------------------------------------
(* Every step.                                                             *)

LEMMA NextStep == Inv /\ [Next]_vars => Inv'
<1> SUFFICES ASSUME Inv, [Next]_vars PROVE Inv'
  OBVIOUS
<1>1. ASSUME NEW t \in Ids, InsertTrigger(t) PROVE Inv'
  BY <1>1, InsertTriggerStep
<1>2. ASSUME NEW t \in Ids, PublishTrigger(t) PROVE Inv'
  BY <1>2, PublishTriggerStep
<1>3. ASSUME NEW t \in Ids, GetTriggersByID(t) PROVE Inv'
  BY <1>3, GetTriggersByIDStep
<1>4. ASSUME NEW t \in Ids, DeleteTriggerByID(t) PROVE Inv'
  BY <1>4, DeleteTriggerByIDStep
<1>5. ASSUME NEW t \in Ids, PublishDelete(t) PROVE Inv'
  BY <1>5, PublishDeleteStep
<1>6. ASSUME NEW t \in Ids, Fire(t) PROVE Inv'
  BY <1>6, FireStep
<1>7. ASSUME NEW w \in Workflows, \/ Subscribe(w) \/ SetPoints(w) \/ SetTriggerCh(w)
                                 \/ DestroyBegins(w) \/ DestroyFails(w)
      PROVE  Inv'
  <2>1. UNCHANGED <<plan, triggers, adding, deleting, subject, callback, entries,
                    senders, loop, seen>>
    BY <1>7 DEF Subscribe, SetPoints, SetTriggerCh, DestroyBegins, DestroyFails,
       http, sched
  <2> QED
    BY <2>1, QuietStep
<1>8. ASSUME NEW w \in Workflows, HandleDelete(w) PROVE Inv'
  BY <1>8, HandleDeleteStep
<1>9. ASSUME NEW w \in Workflows, HandleAdd(w) PROVE Inv'
  BY <1>9, HandleAddStep
<1>10. ASSUME NEW w \in Workflows, AddJob(w) PROVE Inv'
  BY <1>10, AddJobStep
<1>11. ASSUME NEW w \in Workflows, AddJobFails(w) \/ RunNow(w) \/ RunReturns(w) PROVE Inv'
  BY <1>11, RunStep
<1>12. ASSUME Crash \/ \E w \in Workflows : RunPanics(w) PROVE Inv'
  <2>1. Restarted /\ UNCHANGED <<plan, triggers, adding, deleting>>
    BY <1>12 DEF Crash, RunPanics, http
  <2> QED
    BY <2>1, RestartStep
<1>13. ASSUME NEW w \in Workflows, UpdateTrigger(w) PROVE Inv'
  BY <1>13, UpdateTriggerStep
<1>14. ASSUME NEW w \in Workflows, Receive(w) PROVE Inv'
  BY <1>14, ReceiveStep
<1>15. ASSUME NEW w \in Workflows, FinishTrigger(w) PROVE Inv'
  BY <1>15, FinishTriggerStep
<1>16. ASSUME NEW w \in Workflows, DestroySucceeds(w) PROVE Inv'
  BY <1>16, DestroySucceedsStep
<1>17. CASE UNCHANGED vars
  <2>1. UNCHANGED <<plan, triggers, adding, deleting, subject, callback, entries,
                    senders, loop, seen>>
    BY <1>17 DEF vars
  <2> QED
    BY <2>1, QuietStep
<1> QED
  BY <1>1, <1>2, <1>3, <1>4, <1>5, <1>6, <1>7, <1>8, <1>9, <1>10, <1>11, <1>12, <1>13,
     <1>14, <1>15, <1>16, <1>17 DEF Next

\* A row whose status says that it is scheduled has its entry in a cron, for
\* any workflows, triggers, deletions and crashes, with the exceptions that
\* ScheduledHasEntry names (handleTrigger, handleTriggerSchedule).
THEOREM ScheduledIsAdded == Spec => []ScheduledHasEntry
<1>1. Inv => ScheduledHasEntry
  BY InvIsScheduled
<1> QED
  BY <1>1, InvHoldsFirst, NextStep, PTL DEF Spec

-----------------------------------------------------------------------------
(* The second strand: what becomes of a row that is deleted.               *)

Creation(t) == [t |-> t, action |-> ""]
Deletion(t) == [t |-> t, action |-> "delete"]
Holds(w, m) == \E i \in 1 .. Len(subject[w]) : subject[w][i] = m

\* The trigger may still get an entry.
Coming(t) ==
  \/ Holds(Of(t).wf, Creation(t))
  \/ \E w \in Workflows : callback[w].at = "add" /\ callback[w].t = t

\* The runner has nothing of the trigger, and nothing will come.
Gone(t) == adding[t] = "done" /\ ~ HasEntry(t) /\ ~ Coming(t)

\* The exceptions of EntriesAreStored.
Excused(t) == t \in seen.late \/ Of(t).wf \in dropped \/ t \in seen.doubled

\* The deletion of a row is about to be published, is on its way, or is over.
Answered(t) ==
  Deleted(t) /\ ~ Excused(t) =>
    deleting[t] = "deleted" \/ Holds(Of(t).wf, Deletion(t)) \/ Gone(t)

\* A deletion is in the subscription after the creation, or it is late.
Order ==
  \A w \in Workflows : \A i \in 1 .. Len(subject[w]) :
    subject[w][i].action = "delete" =>
      \/ subject[w][i].t \in seen.late
      \/ /\ adding[subject[w][i].t] = "done"
         /\ \A j \in 1 .. Len(subject[w]) :
              subject[w][j] = Creation(subject[w][i].t) => j < i

\* A worker that is not up has nothing of its triggers, and one whose
\* connection is closed has lost its row.
Off(w) ==
  /\ subject[w] = <<>> /\ callback[w].at = "idle"
  /\ \A e \in entries : Of(e.t).wf # w
Workers ==
  /\ worker \in [Workflows -> Subscribed \union {"off", "closed"}]
  /\ \A w \in Workflows : /\ worker[w] = "off" => Off(w)
                          /\ worker[w] = "closed" => w \in dropped

\* An object has one entry, or both were added at the same time.
Doubles ==
  \A e, f \in entries : e # f /\ Object(e.t) = Object(f.t) => e.t \in seen.doubled

Fate == Order /\ Workers /\ Doubles /\ \A t \in Ids : Answered(t)

LEMMA FateIsStored == Inv /\ Fate => EntriesAreStored
<1> SUFFICES ASSUME Inv, Fate, NEW e \in entries,
                    triggers[e.t] = "none", deleting[e.t] # "deleted", ~ Excused(e.t)
             PROVE  \E i \in 1..Len(subject[Of(e.t).wf]) :
                      subject[Of(e.t).wf][i] = [t |-> e.t, action |-> "delete"]
  BY DEF EntriesAreStored, Excused
<1>1. e.t \in Ids /\ HasEntry(e.t)
  BY DEF Inv, Types, HasEntry
<1>2. adding[e.t] = "done"
  BY <1>1 DEF Inv, Handlers, Untouched
<1>3. Deleted(e.t)
  BY <1>2 DEF Deleted
<1>4. Holds(Of(e.t).wf, Deletion(e.t))
  BY <1>1, <1>3 DEF Fate, Answered, Gone
<1> QED
  BY <1>4 DEF Holds, Deletion

LEMMA FateHoldsFirst == Init => Fate
<1> SUFFICES ASSUME Init PROVE Fate
  OBVIOUS
<1>1. Order
  BY SMTT(90) DEF Init, Order
<1>2. Workers
  BY DEF Init, Workers, Off, Idle
<1>3. Doubles
  BY DEF Init, Doubles
<1>4. \A t \in Ids : Answered(t)
  BY DEF Init, Answered, Deleted
<1> QED
  BY <1>1, <1>2, <1>3, <1>4 DEF Fate

-----------------------------------------------------------------------------
(* What keeps each part.                                                   *)

\* What is answered stays so, unless the deletion leaves the subscription.
LEMMA AnsweredKeeps ==
  ASSUME Fate, UNCHANGED plan, NEW t \in Ids,
         seen.late \subseteq seen'.late, seen.doubled \subseteq seen'.doubled,
         dropped \subseteq dropped',
         Deleted(t)' => Deleted(t) \/ Answered(t)',
         deleting[t] = "deleted" => deleting'[t] = "deleted" \/ Answered(t)',
         Holds(Of(t).wf, Deletion(t)) => Holds(Of(t).wf, Deletion(t))' \/ Answered(t)',
         Gone(t) => Gone(t)' \/ Answered(t)'
  PROVE  Answered(t)'
<1>1. Answered(t)
  BY DEF Fate
<1>2. Of(t)' = Of(t)
  BY DEF Of
<1>3. Excused(t) => Excused(t)'
  BY <1>2 DEF Excused
<1> QED
  BY <1>1, <1>3 DEF Answered

LEMMA GoneKeeps ==
  ASSUME NEW t, adding[t] = "done" => adding'[t] = "done", HasEntry(t)' => HasEntry(t),
         Coming(t)' => Coming(t)
  PROVE  Gone(t) => Gone(t)'
BY DEF Gone

\* The deletions in a subscription that stays, or is emptied.
LEMMA OrderSame ==
  ASSUME Types, Order, seen.late \subseteq seen'.late,
         \A x \in Ids : adding[x] = "done" => adding'[x] = "done",
         \A v \in Workflows : subject'[v] = subject[v] \/ subject'[v] = <<>>
  PROVE  Order'
<1> SUFFICES ASSUME NEW v \in Workflows, NEW i \in 1 .. Len(subject'[v]),
                    subject'[v][i].action = "delete", subject'[v][i].t \notin seen'.late
             PROVE  /\ adding'[subject'[v][i].t] = "done"
                    /\ \A j \in 1 .. Len(subject'[v]) :
                         subject'[v][j] = Creation(subject'[v][i].t) => j < i
  BY DEF Order, Creation
<1>1. subject'[v] = subject[v]
  BY SMTT(90)
<1>2. PICK m : m = subject[v][i]
  OBVIOUS
<1>3. m.t \in Ids
  BY <1>1, <1>2, MessagesAre DEF Messages
<1>4. m.action = "delete" /\ m.t \notin seen.late
  BY <1>1, <1>2
<1>5. /\ adding[m.t] = "done"
      /\ \A j \in 1 .. Len(subject[v]) : subject[v][j] = Creation(m.t) => j < i
  BY <1>1, <1>2, <1>4 DEF Order
<1> QED
  BY <1>1, <1>2, <1>3, <1>5

\* The entries of an object, when none is added.
LEMMA DoublesFewer ==
  ASSUME Doubles, UNCHANGED plan, entries' \subseteq entries,
         seen.doubled \subseteq seen'.doubled
  PROVE  Doubles'
<1>1. \A x : Object(x)' = Object(x)
  BY DEF Object, Of
<1> QED
  BY <1>1 DEF Doubles

\* A worker that stays off, when its parts do.
LEMMA WorkersKeep ==
  ASSUME Workers, UNCHANGED plan, dropped \subseteq dropped',
         worker' \in [Workflows -> Subscribed \union {"off", "closed"}],
         \A v \in Workflows : worker'[v] = "off" => worker[v] = "off",
         \A v \in Workflows : worker'[v] = "closed" => worker[v] = "closed" \/ v \in dropped',
         \A v \in Workflows : worker[v] = "off" =>
           /\ subject'[v] = <<>> /\ callback'[v].at = "idle"
           /\ \A e \in entries' : e \in entries \/ Of(e.t).wf # v
  PROVE  Workers'
<1>1. \A x : Of(x)' = Of(x)
  BY DEF Of
<1>2. ASSUME NEW v \in Workflows, worker'[v] = "off" PROVE Off(v)'
  BY <1>1, <1>2 DEF Workers, Off
<1>3. \A v \in Workflows : worker'[v] = "closed" => v \in dropped'
  BY DEF Workers
<1> QED
  BY <1>2, <1>3 DEF Workers, Subscribed

\* A step that adds no message, entry or new callback.
LEMMA FateQuiet ==
  ASSUME Inv, Fate, UNCHANGED <<plan, subject, entries, seen, dropped>>,
         \A x \in Ids : adding[x] = "done" => adding'[x] = "done",
         \A x \in Ids : deleting[x] = "deleted" => deleting'[x] = "deleted",
         \A x \in Ids : Deleted(x)' =>
           Deleted(x) \/ deleting'[x] = "deleted" \/ Of(x).wf \in dropped,
         \A v \in Workflows : callback'[v].at = "add" => callback'[v] = callback[v],
         \A v \in Workflows : callback[v].at = "idle" => callback'[v].at = "idle",
         worker' \in [Workflows -> Subscribed \union {"off", "closed"}],
         \A v \in Workflows : worker'[v] \in {"off", "closed"} => worker'[v] = worker[v]
  PROVE  Fate'
<1>1. Ids' = Ids /\ \A x : Of(x)' = Of(x) /\ HasEntry(x)' = HasEntry(x)
  BY Steady
<1>2. \A w, m : Holds(w, m)' = Holds(w, m)
  BY DEF Holds
<1>3. \A x : Coming(x)' => Coming(x)
  BY <1>1, <1>2 DEF Coming
<1>4. ASSUME NEW x \in Ids PROVE Answered(x)'
  <2>1. Gone(x) => Gone(x)'
    BY <1>1, <1>3, GoneKeeps
  <2>2. Deleted(x)' => Deleted(x) \/ Answered(x)'
    BY <1>1 DEF Answered, Excused
  <2>3. Holds(Of(x).wf, Deletion(x)) => Holds(Of(x).wf, Deletion(x))'
    BY <1>1, <1>2 DEF Deletion
  <2>4. /\ seen.late \subseteq seen'.late /\ seen.doubled \subseteq seen'.doubled
        /\ dropped \subseteq dropped'
    OBVIOUS
  <2> QED
    BY <2>1, <2>2, <2>3, <2>4, AnsweredKeeps
<1>5. Order'
  BY OrderSame DEF Inv, Fate
<1>6. Workers'
  <2>1. \A v \in Workflows : worker[v] = "off" =>
          /\ subject'[v] = <<>> /\ callback'[v].at = "idle"
          /\ \A e \in entries' : e \in entries \/ Of(e.t).wf # v
    BY DEF Fate, Workers, Off
  <2>2. dropped \subseteq dropped'
    OBVIOUS
  <2>3. \A v \in Workflows : /\ worker'[v] = "off" => worker[v] = "off"
                             /\ worker'[v] = "closed" => worker[v] = "closed"
    OBVIOUS
  <2> QED
    BY <2>1, <2>2, <2>3, WorkersKeep DEF Fate
<1>7. Doubles'
  BY DoublesFewer DEF Fate
<1> QED
  BY <1>1, <1>4, <1>5, <1>6, <1>7 DEF Fate

\* The handlers, but for what they publish.
LEMMA RowsFate ==
  ASSUME Inv, Fate, NEW t \in Ids,
         InsertTrigger(t) \/ GetTriggersByID(t) \/ DeleteTriggerByID(t)
  PROVE  Fate'
<1>1. UNCHANGED <<plan, subject, worker, callback, entries, seen, dropped>>
  BY DEF InsertTrigger, GetTriggersByID, DeleteTriggerByID, sched, ending
<1>2. \A x \in Ids : adding[x] = "done" => adding'[x] = "done"
  BY DEF Inv, Types, InsertTrigger, GetTriggersByID, DeleteTriggerByID
<1>3. \A x \in Ids : deleting[x] = "deleted" => deleting'[x] = "deleted"
  BY DEF Inv, Types, InsertTrigger, GetTriggersByID, DeleteTriggerByID
<1>4. ASSUME NEW x \in Ids, Deleted(x)'
      PROVE  Deleted(x) \/ deleting'[x] = "deleted" \/ Of(x).wf \in dropped
  <2>1. CASE InsertTrigger(t)
    <3>1. CASE x = t
      BY <1>4, <2>1, <3>1 DEF Inv, Types, InsertTrigger, Deleted
    <3>2. CASE x # t
      BY <1>4, <2>1, <3>2 DEF Inv, Types, InsertTrigger, Deleted
    <3> QED
      BY <3>1, <3>2
  <2>2. CASE GetTriggersByID(t)
    BY <1>4, <2>2 DEF GetTriggersByID, Deleted
  <2>3. CASE DeleteTriggerByID(t)
    <3>1. CASE x = t
      BY <2>3, <3>1 DEF Inv, Types, DeleteTriggerByID
    <3>2. CASE x # t
      BY <1>4, <2>3, <3>2 DEF Inv, Types, DeleteTriggerByID, Deleted
    <3> QED
      BY <3>1, <3>2
  <2> QED
    BY <2>1, <2>2, <2>3
<1>5. /\ worker' \in [Workflows -> Subscribed \union {"off", "closed"}]
      /\ \A v \in Workflows : worker'[v] \in {"off", "closed"} => worker'[v] = worker[v]
  BY <1>1 DEF Fate, Workers
<1>6. \A v \in Workflows : /\ callback'[v].at = "add" => callback'[v] = callback[v]
                           /\ callback[v].at = "idle" => callback'[v].at = "idle"
  BY <1>1
<1> QED
  BY <1>1, <1>2, <1>3, <1>4, <1>5, <1>6, FateQuiet

\* The rest that leaves the messages and the entries alone.
LEMMA OthersFate ==
  ASSUME Inv, Fate, UNCHANGED <<plan, adding, deleting, subject, entries, seen, dropped>>,
         \A x \in Ids : triggers'[x] = "none" => triggers[x] = "none",
         \A v \in Workflows : callback'[v].at = "add" => callback'[v] = callback[v],
         \A v \in Workflows : callback[v].at = "idle" => callback'[v].at = "idle",
         worker' \in [Workflows -> Subscribed \union {"off", "closed"}],
         \A v \in Workflows : worker'[v] \in {"off", "closed"} => worker'[v] = worker[v]
  PROVE  Fate'
<1>1. \A x \in Ids : Deleted(x)' => Deleted(x)
  BY DEF Deleted
<1>2. /\ \A x \in Ids : adding[x] = "done" => adding'[x] = "done"
      /\ \A x \in Ids : deleting[x] = "deleted" => deleting'[x] = "deleted"
  OBVIOUS
<1> QED
  BY <1>1, <1>2, FateQuiet

LEMMA WorkerFate ==
  ASSUME Inv, Fate, NEW w \in Workflows,
         \/ Subscribe(w) \/ SetPoints(w) \/ SetTriggerCh(w)
         \/ DestroyBegins(w) \/ DestroyFails(w)
  PROVE  Fate'
<1>1. UNCHANGED <<plan, triggers, adding, deleting, subject, callback, entries, seen, dropped>>
  BY DEF Subscribe, SetPoints, SetTriggerCh, DestroyBegins, DestroyFails, http, sched,
               ending
<1>2. PICK s \in Subscribed : worker' = [worker EXCEPT ![w] = s] \/ worker' = worker
  BY DEF Subscribe, SetPoints, SetTriggerCh, DestroyBegins, DestroyFails, Subscribed
<1>3. worker \in [Workflows -> Subscribed \union {"off", "closed"}]
  BY DEF Fate, Workers
<1>4. /\ worker' \in [Workflows -> Subscribed \union {"off", "closed"}]
      /\ \A v \in Workflows : worker'[v] \in {"off", "closed"} => worker'[v] = worker[v]
  BY <1>2, <1>3 DEF Subscribed
<1> QED
  BY <1>1, <1>4, OthersFate

LEMMA CallbackFate ==
  ASSUME Inv, Fate, NEW w \in Workflows,
         AddJobFails(w) \/ RunNow(w) \/ RunReturns(w) \/ UpdateTrigger(w)
  PROVE  Fate'
<1>1. UNCHANGED <<plan, adding, deleting, subject, worker, entries, seen, dropped>>
  BY DEF AddJobFails, RunNow, RunReturns, UpdateTrigger, http, sched, ending
<1>2. PICK c : callback' = [callback EXCEPT ![w] = c] /\ c.at # "add"
  <2>1. callback[w] \in Calling /\ callback \in [Workflows -> Calling]
    BY DEF Inv, Types
  <2>2. CASE UpdateTrigger(w)
    <3>1. Idle.at # "add"
      BY DEF Idle
    <3> QED
      BY <2>2, <3>1 DEF UpdateTrigger
  <2>3. CASE AddJobFails(w) \/ RunNow(w) \/ RunReturns(w)
    <3>1. PICK to \in {"run", "update"} : callback' = [callback EXCEPT ![w].at = to]
      BY <2>3 DEF AddJobFails, RunNow, RunReturns, Goes
    <3>2. PICK c : c = [callback[w] EXCEPT !.at = to]
      OBVIOUS
    <3>3. c.at = to
      BY <2>1, <3>2 DEF Calling
    <3>4. callback' = [callback EXCEPT ![w] = c]
      BY <3>1, <3>2
    <3>5. to # "add"
      OBVIOUS
    <3> QED
      BY <3>3, <3>4, <3>5
  <2> QED
    BY <2>2, <2>3
<1>3. callback[w].at # "idle"
  BY DEF AddJobFails, RunNow, RunReturns, UpdateTrigger, Goes
<1>4. callback'[w] = c /\ \A v \in Workflows \ {w} : callback'[v] = callback[v]
  BY <1>2 DEF Inv, Types
<1>5. \A v \in Workflows : /\ callback'[v].at = "add" => callback'[v] = callback[v]
                           /\ callback[v].at = "idle" => callback'[v].at = "idle"
  BY <1>2, <1>3, <1>4
<1>6. \A x \in Ids : triggers'[x] = "none" => triggers[x] = "none"
  BY DEF Inv, Types, AddJobFails, RunNow, RunReturns, UpdateTrigger, Updated
<1>7. /\ worker' \in [Workflows -> Subscribed \union {"off", "closed"}]
      /\ \A v \in Workflows : worker'[v] \in {"off", "closed"} => worker'[v] = worker[v]
  BY <1>1 DEF Fate, Workers
<1> QED
  BY <1>1, <1>5, <1>6, <1>7, OthersFate

LEMMA LoopFate ==
  ASSUME Inv, Fate,
         \/ \E t \in Ids : Fire(t)
         \/ \E w \in Workflows : Receive(w) \/ FinishTrigger(w)
         \/ UNCHANGED vars
  PROVE  Fate'
<1>1. UNCHANGED <<plan, adding, deleting, subject, worker, callback, entries, seen, dropped>>
  BY DEF Fire, Receive, FinishTrigger, vars, http, ending
<1>2. triggers' = triggers \/ \E t : triggers' = Updated(t)
  BY DEF Fire, Receive, FinishTrigger, vars
<1>3. \A x \in Ids : triggers'[x] = "none" => triggers[x] = "none"
  BY <1>2 DEF Inv, Types, Updated
<1>4. /\ worker' \in [Workflows -> Subscribed \union {"off", "closed"}]
      /\ \A v \in Workflows : worker'[v] \in {"off", "closed"} => worker'[v] = worker[v]
  BY <1>1 DEF Fate, Workers
<1>5. \A v \in Workflows : /\ callback'[v].at = "add" => callback'[v] = callback[v]
                           /\ callback[v].at = "idle" => callback'[v].at = "idle"
  BY <1>1
<1> QED
  BY <1>1, <1>3, <1>4, <1>5, OthersFate

-----------------------------------------------------------------------------
(* A message is published.                                                 *)

\* It is the last, the others keep their places, and a worker that is up
\* gets it.
LEMMA PublishedHolds ==
  ASSUME Types, NEW w \in Workflows, NEW m \in Messages, subject' = Published(w, m)
  PROVE  /\ \A v \in Workflows : \A i \in 1 .. Len(subject[v]) :
              i \in 1 .. Len(subject'[v]) /\ subject'[v][i] = subject[v][i]
         /\ \A v \in Workflows : \A x : Holds(v, x) => Holds(v, x)'
         /\ \A v \in Workflows : \A x : Holds(v, x)' => Holds(v, x) \/ (v = w /\ x = m)
         /\ worker[w] \in Subscribed => Holds(w, m)'
         /\ \A v \in Workflows : worker[v] \notin Subscribed => subject'[v] = subject[v]
<1>1. \A v \in Workflows : subject[v] \in Seq(Messages)
  BY DEF Types
<1>2. subject' = subject \/ subject' = [subject EXCEPT ![w] = Append(@, m)]
  BY DEF Published
<1>3. \A v \in Workflows : \A i \in 1 .. Len(subject[v]) :
        i \in 1 .. Len(subject'[v]) /\ subject'[v][i] = subject[v][i]
  <2> TAKE v \in Workflows
  <2>1. CASE subject' = subject
    BY <2>1
  <2>2. CASE subject' = [subject EXCEPT ![w] = Append(@, m)]
    <3>1. subject'[v] = subject[v] \/ subject'[v] = Append(subject[v], m)
      BY <2>2 DEF Types
    <3> QED
      BY <1>1, <3>1, SMTT(90)
  <2> QED
    BY <1>2, <2>1, <2>2
<1>4. \A v \in Workflows : \A x : Holds(v, x) => Holds(v, x)'
  BY <1>3 DEF Holds
<1>5. \A v \in Workflows : \A i \in 1 .. Len(subject'[v]) :
        \/ i \in 1 .. Len(subject[v]) /\ subject'[v][i] = subject[v][i]
        \/ v = w /\ subject'[v][i] = m /\ i = Len(subject[v]) + 1
  BY PostedOne
<1>6. ASSUME NEW v \in Workflows, NEW x, Holds(v, x)' PROVE Holds(v, x) \/ (v = w /\ x = m)
  <2>1. PICK i \in 1 .. Len(subject'[v]) : subject'[v][i] = x
    BY <1>6 DEF Holds
  <2>2. (i \in 1 .. Len(subject[v]) /\ subject[v][i] = x) \/ (v = w /\ x = m)
    BY <1>5, <2>1
  <2> QED
    BY <2>2 DEF Holds
<1>7. ASSUME worker[w] \in Subscribed PROVE Holds(w, m)'
  <2>1. subject'[w] = Append(subject[w], m)
    BY <1>7 DEF Published, Types
  <2>2. \E i \in 1 .. Len(subject'[w]) : subject'[w][i] = m
    <3>1. /\ Len(subject[w]) + 1 \in 1 .. Len(subject'[w])
          /\ subject'[w][Len(subject[w]) + 1] = m
      BY <1>1, <2>1, SMTT(90)
    <3> QED
      BY <3>1
  <2> QED
    BY <2>2 DEF Holds
<1>8. \A v \in Workflows : worker[v] \notin Subscribed => subject'[v] = subject[v]
  <2> TAKE v \in Workflows
  <2>1. CASE v = w
    BY <2>1 DEF Published
  <2>2. CASE v # w
    BY <1>2, <2>2 DEF Types
  <2> QED
    BY <2>1, <2>2
<1> QED
  BY <1>3, <1>4, <1>6, <1>7, <1>8

\* A deletion comes last, and a creation comes when its deletion is late.
LEMMA OrderMore ==
  ASSUME Inv, Order, NEW w \in Workflows, NEW m \in Messages, subject' = Published(w, m),
         seen.late \subseteq seen'.late,
         \A x \in Ids : adding[x] = "done" => adding'[x] = "done",
         m.action = "delete" => adding'[m.t] = "done" \/ m.t \in seen'.late,
         \A x \in Ids : m = Creation(x) => adding[x] # "done"
  PROVE  Order'
<1> SUFFICES ASSUME NEW v \in Workflows, NEW i \in 1 .. Len(subject'[v]),
                    subject'[v][i].action = "delete", subject'[v][i].t \notin seen'.late
             PROVE  /\ adding'[subject'[v][i].t] = "done"
                    /\ \A j \in 1 .. Len(subject'[v]) :
                         subject'[v][j] = Creation(subject'[v][i].t) => j < i
  BY DEF Order, Creation
<1>1. \A k \in 1 .. Len(subject'[v]) :
        \/ k \in 1 .. Len(subject[v]) /\ subject'[v][k] = subject[v][k]
        \/ v = w /\ subject'[v][k] = m /\ k = Len(subject[v]) + 1
  BY PostedOne DEF Inv
<1>2. PICK x : x = subject'[v][i].t
  OBVIOUS
<1>3. Len(subject[v]) \in Nat
  BY SMTT(90) DEF Inv, Types
<1>4. /\ \A k \in 1 .. Len(subject[v]) : k < Len(subject[v]) + 1
      /\ Creation(x).action # "delete" /\ Creation(x).t = x
  <2>1. \A k \in 1 .. Len(subject[v]) : k < Len(subject[v]) + 1
    BY <1>3, SMTT(90)
  <2> QED
    BY <2>1 DEF Creation
<1>5. CASE i \in 1 .. Len(subject[v]) /\ subject'[v][i] = subject[v][i]
  <2>1. x \in Ids
    BY <1>2, <1>5, MessagesAre DEF Inv, Messages
  <2>2. subject[v][i].action = "delete" /\ subject[v][i].t = x /\ x \notin seen.late
    BY <1>2, <1>5
  <2>3. /\ adding[x] = "done"
        /\ \A j \in 1 .. Len(subject[v]) : subject[v][j] = Creation(x) => j < i
    BY <1>5, <2>2 DEF Order
  <2>4. m # Creation(x)
    BY <2>1, <2>3
  <2> QED
    BY <1>1, <1>2, <2>1, <2>3, <2>4
<1>6. CASE v = w /\ subject'[v][i] = m /\ i = Len(subject[v]) + 1
  <2>1. m.action = "delete" /\ m.t = x /\ x \notin seen'.late
    BY <1>2, <1>6
  <2>2. m # Creation(x)
    BY <1>4, <2>1
  <2>3. \A j \in 1 .. Len(subject'[v]) : subject'[v][j] = Creation(x) => j < i
    BY <1>1, <1>4, <1>6, <2>2
  <2> QED
    BY <1>2, <2>1, <2>3
<1> QED
  BY <1>1, <1>5, <1>6

\* What is published does not come to a worker that is off.
LEMMA QuietWorkers ==
  ASSUME Workers, UNCHANGED <<plan, worker, callback, entries, dropped>>,
         \A v \in Workflows : worker[v] \notin Subscribed => subject'[v] = subject[v]
  PROVE  Workers'
<1>1. \A v \in Workflows : worker[v] = "off" => worker[v] \notin Subscribed
  BY DEF Subscribed
<1>2. \A x : Of(x)' = Of(x)
  BY DEF Of
<1>3. ASSUME NEW v \in Workflows, worker'[v] = "off" PROVE Off(v)'
  BY <1>1, <1>2, <1>3 DEF Workers, Off
<1> QED
  BY <1>3 DEF Workers, Subscribed

LEMMA PublishTriggerFate ==
  ASSUME Inv, Fate, NEW t \in Ids, PublishTrigger(t)
  PROVE  Fate'
<1>0. PICK w, m : w = Of(t).wf /\ m = Creation(t)
  OBVIOUS
<1>1. /\ adding[t] = "inserted" /\ \A x \in Ids : adding[x] = "done" => adding'[x] = "done"
      /\ \A x \in Ids : adding'[x] # "new" => adding[x] # "new"
  BY DEF Inv, Types, PublishTrigger
<1>2. UNCHANGED <<plan, triggers, deleting, worker, callback, entries, seen, dropped>>
  BY DEF PublishTrigger, sched, ending
<1>3. w \in Workflows
  BY <1>0, PlansAssumption DEF Inv, Types, Of, Ids
<1>4. m \in Messages /\ subject' = Published(w, m)
  BY <1>0 DEF Messages, PublishTrigger, Creation
<1>5. \A x : /\ Creation(x) = m => x = t
             /\ Deletion(x) # m
  <2>1. \A x : Creation(x).t = x /\ Creation(x).action = "" /\ Deletion(x).action = "delete"
    BY DEF Creation, Deletion
  <2> QED
    BY <1>0, <2>1
<1>6. /\ \A v \in Workflows : \A x : Holds(v, x) => Holds(v, x)'
      /\ \A v \in Workflows : \A x : Holds(v, x)' => Holds(v, x) \/ (v = w /\ x = m)
      /\ \A v \in Workflows : worker[v] \notin Subscribed => subject'[v] = subject[v]
  BY <1>3, <1>4, PublishedHolds DEF Inv
<1>7. /\ Ids' = Ids /\ \A x : Of(x)' = Of(x) /\ HasEntry(x)' = HasEntry(x)
      /\ \A x \in Ids : Of(x).wf \in Workflows
  BY <1>2, Steady, PlansAssumption DEF Inv, Types, Of, Ids
<1>8. ASSUME NEW x \in Ids PROVE Answered(x)'
  <2>1. Deleted(x)' => Deleted(x)
    BY <1>1, <1>2 DEF Deleted
  <2>2. Holds(Of(x).wf, Deletion(x)) => Holds(Of(x).wf, Deletion(x))'
    BY <1>6, <1>7 DEF Deletion
  <2>3. Gone(x) => x # t
    BY <1>1 DEF Gone
  <2>4. x # t => (Coming(x)' => Coming(x))
    BY <1>2, <1>5, <1>6, <1>7 DEF Coming
  <2>5. Gone(x) => Gone(x)'
    BY <1>1, <1>7, <2>3, <2>4, GoneKeeps
  <2>6. /\ seen.late \subseteq seen'.late /\ seen.doubled \subseteq seen'.doubled
        /\ dropped \subseteq dropped' /\ deleting' = deleting
    BY <1>2
  <2> QED
    BY <1>2, <2>1, <2>2, <2>5, <2>6, AnsweredKeeps
<1>9. Order'
  <2>1. m.action # "delete"
    BY <1>0 DEF Creation
  <2>2. \A x \in Ids : m = Creation(x) => adding[x] # "done"
    BY <1>1, <1>5
  <2>3. seen.late \subseteq seen'.late
    BY <1>2
  <2> QED
    BY <1>1, <1>3, <1>4, <2>1, <2>2, <2>3, OrderMore DEF Fate
<1>10. Workers'
  BY <1>2, <1>6, QuietWorkers DEF Fate
<1>11. Doubles'
  <2>1. entries' \subseteq entries /\ seen.doubled \subseteq seen'.doubled
    BY <1>2
  <2> QED
    BY <1>2, <2>1, DoublesFewer DEF Fate
<1> QED
  BY <1>7, <1>8, <1>9, <1>10, <1>11 DEF Fate

LEMMA PublishDeleteFate ==
  ASSUME Inv, Fate, NEW t \in Ids, PublishDelete(t)
  PROVE  Fate'
<1>0. PICK w, m : w = Of(t).wf /\ m = Deletion(t)
  OBVIOUS
<1>1. UNCHANGED <<plan, triggers, adding, worker, callback, entries, dropped>>
  BY DEF PublishDelete, sched, ending
<1>2. /\ seen.late \subseteq seen'.late /\ seen'.doubled = seen.doubled
      /\ adding[t] = "done" \/ t \in seen'.late
      /\ \A x \in Ids \ {t} : deleting'[x] = deleting[x]
  BY DEF Inv, Types, PublishDelete
<1>3. w \in Workflows
  BY <1>0, PlansAssumption DEF Inv, Types, Of, Ids
<1>4. m \in Messages /\ subject' = Published(w, m)
  BY <1>0 DEF Messages, PublishDelete, Deletion
<1>5. \A x : Creation(x) # m
  <2>1. \A x : Creation(x).action = "" /\ m.action = "delete"
    BY <1>0 DEF Creation, Deletion
  <2> QED
    BY <2>1
<1>6. /\ \A v \in Workflows : \A x : Holds(v, x) => Holds(v, x)'
      /\ \A v \in Workflows : \A x : Holds(v, x)' => Holds(v, x) \/ (v = w /\ x = m)
      /\ worker[w] \in Subscribed => Holds(w, m)'
      /\ \A v \in Workflows : worker[v] \notin Subscribed => subject'[v] = subject[v]
  BY <1>3, <1>4, PublishedHolds DEF Inv
<1>7. /\ Ids' = Ids /\ \A x : Of(x)' = Of(x) /\ HasEntry(x)' = HasEntry(x)
      /\ \A x \in Ids : Of(x).wf \in Workflows
  BY <1>1, Steady, PlansAssumption DEF Inv, Types, Of, Ids
<1>8. \A x \in Ids : Coming(x)' => Coming(x)
  BY <1>1, <1>5, <1>6, <1>7 DEF Coming
<1>9. ASSUME ~ Excused(t)' PROVE Holds(Of(t).wf, Deletion(t))' \/ Gone(t)'
  <2>1. adding'[t] = "done" /\ w \notin dropped
    BY <1>0, <1>1, <1>2, <1>7, <1>9 DEF Excused
  <2>2. CASE worker[w] \in Subscribed
    BY <1>0, <1>6, <1>7, <2>2 DEF Deletion
  <2>3. CASE worker[w] \notin Subscribed
    <3>1. Off(w)
      BY <1>3, <2>1, <2>3 DEF Fate, Workers
    <3>2. \A x : ~ Holds(w, x)
      BY <3>1, SMTT(90) DEF Off, Holds
    <3>3. ~ HasEntry(t)
      BY <1>0, <3>1 DEF Off, HasEntry
    <3>4. \A v \in Workflows : callback[v].at = "add" => callback[v].t # t
      BY <1>0, <3>1 DEF Inv, Calls, Sound, Off
    <3>5. ~ Coming(t)
      BY <1>0, <3>2, <3>4 DEF Coming
    <3> QED
      BY <1>7, <1>8, <2>1, <3>3, <3>5 DEF Gone
  <2> QED
    BY <2>2, <2>3
<1>10. ASSUME NEW x \in Ids PROVE Answered(x)'
  <2>1. Deleted(x)' => Deleted(x)
    BY <1>1 DEF Deleted
  <2>2. Holds(Of(x).wf, Deletion(x)) => Holds(Of(x).wf, Deletion(x))'
    BY <1>6, <1>7 DEF Deletion
  <2>3. Gone(x) => Gone(x)'
    BY <1>1, <1>7, <1>8, GoneKeeps
  <2>4. x = t => Answered(x)'
    BY <1>9 DEF Answered
  <2>5. dropped \subseteq dropped' /\ seen.doubled \subseteq seen'.doubled
    BY <1>1, <1>2
  <2> QED
    BY <1>1, <1>2, <2>1, <2>2, <2>3, <2>4, <2>5, AnsweredKeeps
<1>11. Order'
  <2>1. m.t = t
    BY <1>0 DEF Deletion
  <2> QED
    BY <1>1, <1>2, <1>3, <1>4, <1>5, <2>1, OrderMore DEF Fate
<1>12. Workers'
  BY <1>1, <1>6, QuietWorkers DEF Fate
<1>13. Doubles'
  <2>1. entries' \subseteq entries /\ seen.doubled \subseteq seen'.doubled
    BY <1>1, <1>2
  <2> QED
    BY <1>1, <2>1, DoublesFewer DEF Fate
<1> QED
  BY <1>7, <1>10, <1>11, <1>12, <1>13 DEF Fate

-----------------------------------------------------------------------------
(* The first message is taken.                                             *)

LEMMA TakenHolds ==
  ASSUME Types, NEW w \in Workflows, NEW a, Handling(w, a)
  PROVE  /\ Len(subject[w]) \in Nat
         /\ \A i \in 1 .. Len(subject'[w]) :
              i + 1 \in 1 .. Len(subject[w]) /\ subject'[w][i] = subject[w][i + 1]
         /\ \A v \in Workflows \ {w} : subject'[v] = subject[v]
         /\ \A v \in Workflows : \A x : Holds(v, x)' => Holds(v, x)
         /\ \A v \in Workflows : \A x : Holds(v, x) => Holds(v, x)' \/ x = subject[w][1]
<1>1. subject[w] \in Seq(Messages) /\ subject[w] # <<>>
  BY DEF Types, Handling
<1>2. \A v \in Workflows : subject'[v] = IF v = w THEN Tail(subject[w]) ELSE subject[v]
  BY DEF Types, Handling
<1>3. /\ subject'[w] = Tail(subject[w])
      /\ \A v \in Workflows \ {w} : subject'[v] = subject[v]
  BY <1>2
<1>4. \A i \in 1 .. Len(subject'[w]) :
        i + 1 \in 1 .. Len(subject[w]) /\ subject'[w][i] = subject[w][i + 1]
  <2>1. \A i \in 1 .. Len(Tail(subject[w])) :
          i + 1 \in 1 .. Len(subject[w]) /\ Tail(subject[w])[i] = subject[w][i + 1]
    BY <1>1, TailAt
  <2> QED
    BY <1>3, <2>1
<1>5. \A i \in 1 .. Len(subject[w]) :
        i = 1 \/ \E j \in 1 .. Len(subject'[w]) : subject'[w][j] = subject[w][i]
  <2> TAKE i \in 1 .. Len(subject[w])
  <2>1. CASE i # 1
    <3>1. i - 1 \in 1 .. Len(subject'[w]) /\ subject'[w][i - 1] = subject[w][i]
      BY <1>1, <1>3, <2>1, SMTT(90)
    <3> QED
      BY <3>1
  <2> QED
    BY <2>1
<1>6. ASSUME NEW v \in Workflows, NEW x, Holds(v, x)' PROVE Holds(v, x)
  <2>1. CASE v = w
    BY <1>4, <1>6, <2>1 DEF Holds
  <2>2. CASE v # w
    BY <1>3, <1>6, <2>2 DEF Holds
  <2> QED
    BY <2>1, <2>2
<1>7. ASSUME NEW v \in Workflows, NEW x, Holds(v, x) PROVE Holds(v, x)' \/ x = subject[w][1]
  <2>1. CASE v = w
    BY <1>5, <1>7, <2>1 DEF Holds
  <2>2. CASE v # w
    BY <1>3, <1>7, <2>2 DEF Holds
  <2> QED
    BY <2>1, <2>2
<1>8. Len(subject[w]) \in Nat
  BY <1>1, SMTT(90)
<1> QED
  BY <1>3, <1>4, <1>6, <1>7, <1>8

LEMMA OrderTaken ==
  ASSUME Inv, Order, NEW w \in Workflows, NEW a, Handling(w, a),
         seen'.late = seen.late, UNCHANGED adding
  PROVE  Order'
<1> SUFFICES ASSUME NEW v \in Workflows, NEW i \in 1 .. Len(subject'[v]),
                    subject'[v][i].action = "delete", subject'[v][i].t \notin seen.late
             PROVE  /\ adding[subject'[v][i].t] = "done"
                    /\ \A j \in 1 .. Len(subject'[v]) :
                         subject'[v][j] = Creation(subject'[v][i].t) => j < i
  BY DEF Order, Creation
<1>1. /\ Len(subject[w]) \in Nat
      /\ \A k \in 1 .. Len(subject'[w]) :
           k + 1 \in 1 .. Len(subject[w]) /\ subject'[w][k] = subject[w][k + 1]
      /\ \A u \in Workflows \ {w} : subject'[u] = subject[u]
  BY TakenHolds DEF Inv
<1>2. CASE v = w
  <2>1. PICK x : x = subject'[w][i].t
    OBVIOUS
  <2>2. i + 1 \in 1 .. Len(subject[w]) /\ subject'[w][i] = subject[w][i + 1]
    BY <1>1, <1>2
  <2>3. /\ adding[x] = "done"
        /\ \A j \in 1 .. Len(subject[w]) : subject[w][j] = Creation(x) => j < i + 1
    BY <1>2, <2>1, <2>2 DEF Order
  <2>4. ASSUME NEW j \in 1 .. Len(subject'[w]), subject'[w][j] = Creation(x) PROVE j < i
    <3>1. j + 1 < i + 1
      BY <1>1, <2>3, <2>4
    <3>2. i \in Nat /\ j \in Nat
      BY <1>2, SMTT(90)
    <3> QED
      BY <3>1, <3>2, SMTT(90)
  <2> QED
    BY <1>2, <2>1, <2>3, <2>4
<1>3. CASE v # w
  <2>1. subject'[v] = subject[v]
    BY <1>1, <1>3
  <2> QED
    BY <2>1 DEF Order
<1> QED
  BY <1>2, <1>3

\* A worker that is off takes nothing.
LEMMA TakingIsUp ==
  ASSUME Fate, NEW w \in Workflows, NEW a, Handling(w, a), UNCHANGED <<plan, worker, dropped>>,
         \A v \in Workflows \ {w} : subject'[v] = subject[v] /\ callback'[v] = callback[v],
         entries' \subseteq entries
  PROVE  Workers'
<1>1. worker[w] # "off"
  BY DEF Handling, Subscribed
<1>2. ASSUME NEW v \in Workflows, worker[v] = "off"
      PROVE  /\ subject'[v] = <<>> /\ callback'[v].at = "idle"
             /\ \A e \in entries' : e \in entries \/ Of(e.t).wf # v
  BY <1>1, <1>2 DEF Fate, Workers, Off
<1>3. /\ worker' \in [Workflows -> Subscribed \union {"off", "closed"}]
      /\ dropped \subseteq dropped'
  BY DEF Fate, Workers
<1> QED
  BY <1>2, <1>3, WorkersKeep DEF Fate

LEMMA HandleDeleteFate ==
  ASSUME Inv, Fate, NEW w \in Workflows, HandleDelete(w)
  PROVE  Fate'
<1>1. PICK t : t = Head(subject[w]).t
  OBVIOUS
<1>2. PICK m \in Messages :
        /\ 1 \in 1 .. Len(subject[w]) /\ m = subject[w][1] /\ m.t = t /\ m.action = "delete"
  <2>1. Handling(w, "delete")
    BY DEF HandleDelete
  <2>2. /\ 1 \in 1 .. Len(subject[w]) /\ Head(subject[w]) = subject[w][1]
        /\ subject[w][1] \in Messages /\ subject[w][1].action = "delete"
    BY <2>1, TakenOne DEF Inv
  <2> QED
    BY <1>1, <2>2
<1>3. t \in Ids /\ Of(t).wf = w /\ m = Deletion(t)
  <2>1. Rightly(w, m)
    BY <1>2 DEF Inv, Posted
  <2>2. m = [t |-> m.t, action |-> m.action]
    BY DEF Messages
  <2> QED
    BY <1>2, <2>1, <2>2 DEF Rightly, Messages, Deletion
<1>4. /\ Handling(w, "delete") /\ RemoveEntry(t) /\ callback[w] = Idle
      /\ UNCHANGED <<plan, triggers, adding, deleting, worker, callback, dropped>>
      /\ seen' = [seen EXCEPT !.replaced = @ \union Ousted(t)]
  BY <1>1 DEF HandleDelete, Handling, http, ending
<1>5. seen'.late = seen.late /\ seen'.doubled = seen.doubled
  BY <1>4 DEF Inv, Types
<1>6. entries' \subseteq entries /\ \A x : HasEntry(x)' => HasEntry(x)
  <2>1. entries' \subseteq entries
    BY <1>4 DEF RemoveEntry
  <2> QED
    BY <2>1 DEF HasEntry
<1>7. /\ \A v \in Workflows : \A x : Holds(v, x)' => Holds(v, x)
      /\ \A v \in Workflows : \A x : Holds(v, x) => Holds(v, x)' \/ x = m
      /\ \A v \in Workflows \ {w} : subject'[v] = subject[v]
  BY <1>2, <1>4, TakenHolds DEF Inv
<1>8. /\ Ids' = Ids /\ \A x : Of(x)' = Of(x)
      /\ \A x \in Ids : Of(x).wf \in Workflows
  BY <1>4, Steady, PlansAssumption DEF Inv, Types, Of, Ids
<1>9. \A x \in Ids : Coming(x)' => Coming(x)
  BY <1>4, <1>7, <1>8 DEF Coming
<1>10. ASSUME ~ Excused(t)' PROVE Gone(t)'
  <2>1. t \notin seen.late /\ t \notin seen.doubled
    BY <1>5, <1>10 DEF Excused
  <2>2. /\ adding[t] = "done"
        /\ \A j \in 1 .. Len(subject[w]) : subject[w][j] = Creation(t) => j < 1
    BY <1>2, <2>1 DEF Fate, Order
  <2>3. ~ Holds(w, Creation(t))
    <3>1. \A j \in 1 .. Len(subject[w]) : ~ (j < 1)
      BY SMTT(90)
    <3> QED
      BY <2>2, <3>1 DEF Holds
  <2>4. \A v \in Workflows : callback[v].at = "add" => callback[v].t # t
    <3>1. callback[w].at = "idle"
      BY <1>4, SMTT(90) DEF Idle
    <3> QED
      BY <1>3, <3>1 DEF Inv, Calls, Sound
  <2>5. ~ Coming(t)
    BY <1>3, <2>3, <2>4 DEF Coming
  <2>6. ASSUME HasEntry(t)' PROVE FALSE
    <3>1. PICK e \in entries' : e.t = t
      BY <2>6 DEF HasEntry
    <3>2. e \in EntriesOf(t)
      BY <1>6, <3>1 DEF EntriesOf
    <3>3. PICK f \in EntriesOf(t) : entries' = entries \ {f}
      BY <1>4, <3>2 DEF RemoveEntry
    <3>4. e \in entries /\ f \in entries /\ e # f /\ Object(e.t) = Object(f.t)
      BY <1>6, <3>1, <3>3 DEF EntriesOf
    <3> QED
      BY <2>1, <3>1, <3>4 DEF Fate, Doubles
  <2> QED
    BY <1>3, <1>4, <1>9, <2>2, <2>5, <2>6 DEF Gone
<1>11. ASSUME NEW x \in Ids PROVE Answered(x)'
  <2>1. Deleted(x)' => Deleted(x)
    BY <1>4 DEF Deleted
  <2>2. x = t => Answered(x)'
    BY <1>10 DEF Answered
  <2>3. x # t => Deletion(x) # m
    <3>1. Deletion(x).t = x
      BY DEF Deletion
    <3> QED
      BY <1>2, <3>1
  <2>4. Holds(Of(x).wf, Deletion(x)) => Holds(Of(x).wf, Deletion(x))' \/ Answered(x)'
    BY <1>7, <1>8, <2>2, <2>3 DEF Deletion
  <2>5. Gone(x) => Gone(x)'
    BY <1>4, <1>6, <1>9, GoneKeeps
  <2>6. /\ seen.late \subseteq seen'.late /\ seen.doubled \subseteq seen'.doubled
        /\ dropped \subseteq dropped'
    BY <1>4, <1>5
  <2> QED
    BY <1>4, <2>1, <2>4, <2>5, <2>6, AnsweredKeeps
<1>12. Order'
  BY <1>4, <1>5, OrderTaken DEF Fate
<1>13. Workers'
  BY <1>4, <1>6, <1>7, TakingIsUp
<1>14. Doubles'
  <2>1. seen.doubled \subseteq seen'.doubled
    BY <1>5
  <2> QED
    BY <1>4, <1>6, <2>1, DoublesFewer DEF Fate
<1> QED
  BY <1>8, <1>11, <1>12, <1>13, <1>14 DEF Fate

\* What was in the subscription is now in the callback.
LEMMA HandleAddFate ==
  ASSUME Inv, Fate, NEW w \in Workflows, HandleAdd(w)
  PROVE  Fate'
<1>1. PICK t : t = Head(subject[w]).t
  OBVIOUS
<1>2. PICK m \in Messages :
        /\ 1 \in 1 .. Len(subject[w]) /\ m = subject[w][1] /\ m.t = t /\ m.action = ""
  <2>1. Handling(w, "")
    BY DEF HandleAdd
  <2>2. /\ 1 \in 1 .. Len(subject[w]) /\ Head(subject[w]) = subject[w][1]
        /\ subject[w][1] \in Messages /\ subject[w][1].action = ""
    BY <2>1, TakenOne DEF Inv
  <2> QED
    BY <1>1, <2>2
<1>3. t \in Ids /\ Of(t).wf = w /\ m = Creation(t)
  <2>1. Rightly(w, m)
    BY <1>2 DEF Inv, Posted
  <2>2. m = [t |-> m.t, action |-> m.action]
    BY DEF Messages
  <2> QED
    BY <1>2, <2>1, <2>2 DEF Rightly, Messages, Creation
<1>4. /\ Handling(w, "") /\ RemoveEntry(t)
      /\ UNCHANGED <<plan, triggers, adding, deleting, worker, dropped>>
      /\ seen' = [seen EXCEPT !.replaced = @ \union Ousted(t)]
  BY <1>1 DEF HandleAdd, Handling, http, ending
<1>5. seen'.late = seen.late /\ seen'.doubled = seen.doubled
  BY <1>4 DEF Inv, Types
<1>6. entries' \subseteq entries /\ \A x : HasEntry(x)' => HasEntry(x)
  <2>1. entries' \subseteq entries
    BY <1>4 DEF RemoveEntry
  <2> QED
    BY <2>1 DEF HasEntry
<1>7. PICK c : c.t = t /\ callback' = [callback EXCEPT ![w] = c]
  <2>1. PICK c : c = [t |-> t, at |-> "add", live |-> worker[w] = "listening"]
    OBVIOUS
  <2>2. c.t = t
    BY <2>1
  <2> QED
    BY <1>1, <2>1, <2>2 DEF HandleAdd
<1>8. callback'[w] = c /\ \A v \in Workflows \ {w} : callback'[v] = callback[v]
  BY <1>7 DEF Inv, Types
<1>9. /\ \A v \in Workflows : \A x : Holds(v, x)' => Holds(v, x)
      /\ \A v \in Workflows : \A x : Holds(v, x) => Holds(v, x)' \/ x = m
      /\ \A v \in Workflows \ {w} : subject'[v] = subject[v]
  BY <1>2, <1>4, TakenHolds DEF Inv
<1>10. /\ Ids' = Ids /\ \A x : Of(x)' = Of(x)
       /\ \A x \in Ids : Of(x).wf \in Workflows
  BY <1>4, Steady, PlansAssumption DEF Inv, Types, Of, Ids
<1>11. \A x \in Ids \ {t} : Coming(x)' => Coming(x)
  BY <1>7, <1>8, <1>9, <1>10 DEF Coming
<1>12. Coming(t)
  BY <1>2, <1>3 DEF Coming, Holds
<1>13. ASSUME NEW x \in Ids PROVE Answered(x)'
  <2>1. Deleted(x)' => Deleted(x)
    BY <1>4 DEF Deleted
  <2>2. Deletion(x) # m
    <3>1. Deletion(x).action = "delete"
      BY DEF Deletion
    <3> QED
      BY <1>2, <3>1
  <2>3. Holds(Of(x).wf, Deletion(x)) => Holds(Of(x).wf, Deletion(x))'
    BY <1>9, <1>10, <2>2 DEF Deletion
  <2>4. Gone(x) => x # t
    BY <1>12 DEF Gone
  <2>5. Gone(x) => Gone(x)'
    BY <1>4, <1>6, <1>11, <2>4, GoneKeeps
  <2>6. /\ seen.late \subseteq seen'.late /\ seen.doubled \subseteq seen'.doubled
        /\ dropped \subseteq dropped'
    BY <1>4, <1>5
  <2> QED
    BY <1>4, <2>1, <2>3, <2>5, <2>6, AnsweredKeeps
<1>14. Order'
  BY <1>4, <1>5, OrderTaken DEF Fate
<1>15. Workers'
  BY <1>4, <1>6, <1>8, <1>9, TakingIsUp
<1>16. Doubles'
  <2>1. seen.doubled \subseteq seen'.doubled
    BY <1>5
  <2> QED
    BY <1>4, <1>6, <2>1, DoublesFewer DEF Fate
<1> QED
  BY <1>10, <1>13, <1>14, <1>15, <1>16 DEF Fate

-----------------------------------------------------------------------------
(* An entry is added, a workflow ends, the process ends.                   *)

LEMMA AddJobFate ==
  ASSUME Inv, Fate, NEW w \in Workflows, AddJob(w)
  PROVE  Fate'
<1>1. PICK t, n : t = callback[w].t /\ n = [t |-> t, live |-> callback[w].live]
  OBVIOUS
<1>2. callback[w].at = "add" /\ callback' = [callback EXCEPT ![w].at = "update"]
  BY DEF AddJob, Goes
<1>3. t \in Ids /\ Of(t).wf = w /\ Coming(t)
  <2>1. callback[w].at # "idle"
    BY <1>2
  <2> QED
    BY <1>1, <1>2, <2>1 DEF Inv, Calls, Sound, Coming
<1>4. /\ entries' = entries \union {n} /\ n.t = t
      /\ UNCHANGED <<plan, triggers, adding, deleting, subject, worker, dropped>>
      /\ seen' = [seen EXCEPT !.doubled = @ \union UNION {{e.t, t} : e \in EntriesOf(t)}]
  BY <1>1 DEF AddJob, http, ending
<1>5. /\ seen'.late = seen.late
      /\ seen'.doubled = seen.doubled \union UNION {{e.t, t} : e \in EntriesOf(t)}
  BY <1>4 DEF Inv, Types
<1>6. /\ \A v \in Workflows : callback'[v].at = "add" => callback'[v] = callback[v]
      /\ \A v \in Workflows \ {w} : callback'[v] = callback[v]
  BY <1>2 DEF Inv, Types, Calling
<1>7. Ids' = Ids /\ \A x : Of(x)' = Of(x) /\ Object(x)' = Object(x)
  BY <1>4, Steady DEF Object
<1>8. \A x, v : Holds(v, x)' = Holds(v, x)
  BY <1>4 DEF Holds
<1>9. \A x : Coming(x)' => Coming(x)
  BY <1>6, <1>7, <1>8 DEF Coming
<1>10. \A x : x # t => (HasEntry(x)' => HasEntry(x))
  BY <1>4 DEF HasEntry
<1>11. ASSUME NEW x \in Ids PROVE Answered(x)'
  <2>1. Deleted(x)' => Deleted(x)
    BY <1>4 DEF Deleted
  <2>2. Holds(Of(x).wf, Deletion(x)) => Holds(Of(x).wf, Deletion(x))'
    BY <1>7, <1>8 DEF Deletion
  <2>3. Gone(x) => x # t
    BY <1>3 DEF Gone
  <2>4. Gone(x) => Gone(x)'
    BY <1>4, <1>9, <1>10, <2>3, GoneKeeps
  <2>5. /\ seen.late \subseteq seen'.late /\ seen.doubled \subseteq seen'.doubled
        /\ dropped \subseteq dropped'
    BY <1>4, <1>5
  <2> QED
    BY <1>4, <2>1, <2>2, <2>4, <2>5, AnsweredKeeps
<1>12. Order'
  <2>1. seen.late \subseteq seen'.late /\ \A v \in Workflows : subject'[v] = subject[v]
    BY <1>4, <1>5
  <2> QED
    BY <1>4, <2>1, OrderSame DEF Inv, Fate
<1>13. Workers'
  <2>1. worker[w] # "off"
    BY <1>2 DEF Fate, Workers, Off
  <2>2. ASSUME NEW v \in Workflows, worker[v] = "off"
        PROVE  /\ subject'[v] = <<>> /\ callback'[v].at = "idle"
               /\ \A e \in entries' : e \in entries \/ Of(e.t).wf # v
    <3>1. v # w /\ Off(v)
      BY <2>1, <2>2 DEF Fate, Workers
    <3> QED
      BY <1>3, <1>4, <1>6, <3>1 DEF Off
  <2>3. /\ worker' \in [Workflows -> Subscribed \union {"off", "closed"}]
        /\ dropped \subseteq dropped'
    BY <1>4 DEF Fate, Workers
  <2> QED
    BY <1>4, <2>2, <2>3, WorkersKeep DEF Fate
<1>14. ASSUME NEW e \in entries', NEW f \in entries', e # f, Object(e.t) = Object(f.t)
       PROVE  e.t \in seen'.doubled
  <2>1. CASE e \in entries /\ f \in entries
    BY <1>5, <1>14, <2>1 DEF Fate, Doubles
  <2>2. CASE e = n \/ f = n
    <3>1. PICK g \in entries : Object(g.t) = Object(t) /\ e.t \in {g.t, t}
      BY <1>4, <1>14, <2>2
    <3>2. g \in EntriesOf(t)
      BY <3>1 DEF EntriesOf
    <3> QED
      BY <1>5, <3>1, <3>2
  <2> QED
    BY <1>4, <2>1, <2>2
<1>15. Doubles'
  BY <1>7, <1>14 DEF Doubles
<1> QED
  BY <1>7, <1>11, <1>12, <1>13, <1>15 DEF Fate

LEMMA DestroySucceedsFate ==
  ASSUME Inv, Fate, NEW w \in Workflows, DestroySucceeds(w)
  PROVE  Fate'
<1>1. /\ UNCHANGED <<plan, adding, deleting, callback, entries, seen>>
      /\ dropped' = dropped \union {w}
  BY DEF DestroySucceeds, http, sched
<1>2. /\ \A v \in Workflows \ {w} : subject'[v] = subject[v] /\ worker'[v] = worker[v]
      /\ subject'[w] = <<>> /\ worker'[w] = "closed"
      /\ worker' \in [Workflows -> Subscribed \union {"off", "closed"}]
      /\ \A x \in Ids : Of(x).wf # w => triggers'[x] = triggers[x]
  BY DEF Inv, Types, Fate, Workers, DestroySucceeds
<1>3. /\ Ids' = Ids /\ \A x : Of(x)' = Of(x) /\ HasEntry(x)' = HasEntry(x)
      /\ \A x \in Ids : Of(x).wf \in Workflows
  BY <1>1, Steady, PlansAssumption DEF Inv, Types, Of, Ids
<1>4. \A v \in Workflows \ {w} : \A x : Holds(v, x)' = Holds(v, x)
  BY <1>2 DEF Holds
<1>5. ASSUME NEW x \in Ids PROVE Answered(x)'
  <2>1. CASE Of(x).wf = w
    BY <1>1, <1>3, <2>1 DEF Answered, Excused
  <2>2. CASE Of(x).wf # w
    <3>1. Deleted(x)' => Deleted(x)
      BY <1>1, <1>2, <2>2 DEF Deleted
    <3>2. Holds(Of(x).wf, Deletion(x)) => Holds(Of(x).wf, Deletion(x))'
      BY <1>3, <1>4, <2>2 DEF Deletion
    <3>3. Coming(x)' => Coming(x)
      BY <1>1, <1>3, <1>4, <2>2 DEF Coming, Creation
    <3>4. Gone(x) => Gone(x)'
      BY <1>1, <1>3, <3>3, GoneKeeps
    <3>5. /\ seen.late \subseteq seen'.late /\ seen.doubled \subseteq seen'.doubled
          /\ dropped \subseteq dropped'
      BY <1>1
    <3> QED
      BY <1>1, <3>1, <3>2, <3>4, <3>5, AnsweredKeeps
  <2> QED
    BY <2>1, <2>2
<1>6. Order'
  <2>1. /\ seen.late \subseteq seen'.late
        /\ \A v \in Workflows : subject'[v] = subject[v] \/ subject'[v] = <<>>
    BY <1>1, <1>2
  <2> QED
    BY <1>1, <2>1, OrderSame DEF Inv, Fate
<1>7. Workers'
  <2>1. \A v \in Workflows : worker[v] = "off" =>
          /\ subject'[v] = <<>> /\ callback'[v].at = "idle"
          /\ \A e \in entries' : e \in entries \/ Of(e.t).wf # v
    BY <1>1, <1>2 DEF Fate, Workers, Off
  <2>2. \A v \in Workflows : /\ worker'[v] = "off" => worker[v] = "off"
                             /\ worker'[v] = "closed" => worker[v] = "closed" \/ v \in dropped'
    BY <1>1, <1>2
  <2>3. dropped \subseteq dropped'
    BY <1>1
  <2> QED
    BY <1>1, <1>2, <2>1, <2>2, <2>3, WorkersKeep DEF Fate
<1>8. Doubles'
  <2>1. entries' \subseteq entries /\ seen.doubled \subseteq seen'.doubled
    BY <1>1
  <2> QED
    BY <1>1, <2>1, DoublesFewer DEF Fate
<1> QED
  BY <1>3, <1>5, <1>6, <1>7, <1>8 DEF Fate

\* A deletion that the runner loses is of a trigger it has nothing of, either.
LEMMA RestartFate ==
  ASSUME Inv, Fate, Restarted, UNCHANGED <<plan, triggers, adding, deleting, dropped>>
  PROVE  Fate'
<1>1. /\ entries' = {} /\ callback' = [w \in Workflows |-> Idle]
      /\ subject' = [w \in Workflows |-> <<>>] /\ worker' = [w \in Workflows |-> "off"]
  BY DEF Restarted
<1>2. seen'.late = seen.late /\ seen'.doubled = seen.doubled
  BY DEF Inv, Types, Restarted
<1>3. \A v \in Workflows : /\ subject'[v] = <<>> /\ callback'[v].at = "idle"
                           /\ callback'[v].at # "add"
  BY <1>1 DEF Idle
<1>4. \A v \in Workflows : \A x : ~ Holds(v, x)'
  BY <1>3, SMTT(90) DEF Holds
<1>5. /\ Ids' = Ids /\ \A x : Of(x)' = Of(x) /\ ~ HasEntry(x)'
      /\ \A x \in Ids : Of(x).wf \in Workflows
  BY <1>1, Steady, PlansAssumption DEF Inv, Types, Of, Ids, HasEntry
<1>6. \A x \in Ids : ~ Coming(x)'
  BY <1>3, <1>4, <1>5 DEF Coming
<1>7. ASSUME NEW x \in Ids PROVE Answered(x)'
  <2>1. Deleted(x)' => Deleted(x)
    BY DEF Deleted
  <2>2. adding[x] = "done" => Gone(x)'
    BY <1>5, <1>6, <1>7 DEF Gone
  <2>3. Gone(x) => Gone(x)'
    BY <2>2 DEF Gone
  <2>4. ASSUME Holds(Of(x).wf, Deletion(x)) PROVE Answered(x)'
    <3>1. PICK i \in 1 .. Len(subject[Of(x).wf]) : subject[Of(x).wf][i] = Deletion(x)
      BY <2>4 DEF Holds
    <3>2. Deletion(x).t = x /\ Deletion(x).action = "delete"
      BY DEF Deletion
    <3>3. x \in seen.late \/ adding[x] = "done"
      BY <1>5, <3>1, <3>2 DEF Fate, Order
    <3> QED
      BY <1>2, <2>2, <3>3 DEF Answered, Excused
  <2>5. /\ seen.late \subseteq seen'.late /\ seen.doubled \subseteq seen'.doubled
        /\ dropped \subseteq dropped'
    BY <1>2
  <2> QED
    BY <2>1, <2>3, <2>4, <2>5, AnsweredKeeps
<1>8. Order'
  BY <1>2, <1>3, OrderSame DEF Inv, Fate
<1>9. Workers'
  <2>1. \A v \in Workflows : Off(v)' /\ worker'[v] # "closed"
    BY <1>1, <1>3 DEF Off
  <2>2. worker' \in [Workflows -> Subscribed \union {"off", "closed"}]
    BY <1>1
  <2> QED
    BY <2>1, <2>2 DEF Workers, Subscribed
<1>10. Doubles'
  BY <1>1 DEF Doubles
<1> QED
  BY <1>5, <1>7, <1>8, <1>9, <1>10 DEF Fate

LEMMA FateStep == Inv /\ Fate /\ [Next]_vars => Fate'
<1> SUFFICES ASSUME Inv, Fate, [Next]_vars PROVE Fate'
  OBVIOUS
<1>1. ASSUME NEW t \in Ids, InsertTrigger(t) \/ GetTriggersByID(t) \/ DeleteTriggerByID(t)
      PROVE  Fate'
  BY <1>1, RowsFate
<1>2. ASSUME NEW t \in Ids, PublishTrigger(t) PROVE Fate'
  BY <1>2, PublishTriggerFate
<1>3. ASSUME NEW t \in Ids, PublishDelete(t) PROVE Fate'
  BY <1>3, PublishDeleteFate
<1>4. ASSUME NEW w \in Workflows, \/ Subscribe(w) \/ SetPoints(w) \/ SetTriggerCh(w)
                                 \/ DestroyBegins(w) \/ DestroyFails(w)
      PROVE  Fate'
  BY <1>4, WorkerFate
<1>5. ASSUME NEW w \in Workflows, HandleDelete(w) PROVE Fate'
  BY <1>5, HandleDeleteFate
<1>6. ASSUME NEW w \in Workflows, HandleAdd(w) PROVE Fate'
  BY <1>6, HandleAddFate
<1>7. ASSUME NEW w \in Workflows, AddJob(w) PROVE Fate'
  BY <1>7, AddJobFate
<1>8. ASSUME NEW w \in Workflows,
             AddJobFails(w) \/ RunNow(w) \/ RunReturns(w) \/ UpdateTrigger(w)
      PROVE  Fate'
  BY <1>8, CallbackFate
<1>9. ASSUME \/ \E t \in Ids : Fire(t)
             \/ \E w \in Workflows : Receive(w) \/ FinishTrigger(w)
             \/ UNCHANGED vars
      PROVE  Fate'
  BY <1>9, LoopFate
<1>10. ASSUME NEW w \in Workflows, DestroySucceeds(w) PROVE Fate'
  BY <1>10, DestroySucceedsFate
<1>11. ASSUME Crash \/ \E w \in Workflows : RunPanics(w) PROVE Fate'
  <2>1. Restarted /\ UNCHANGED <<plan, triggers, adding, deleting, dropped>>
    BY <1>11 DEF Crash, RunPanics, http
  <2> QED
    BY <2>1, RestartFate
<1> QED
  BY <1>1, <1>2, <1>3, <1>4, <1>5, <1>6, <1>7, <1>8, <1>9, <1>10, <1>11 DEF Next

\* Whatever is scheduled in a cron is stored, or its deletion is on its way to
\* the worker, for any workflows, triggers and crashes, with the exceptions
\* that EntriesAreStored names (handleTrigger, DeleteTriggerWorkflow).
THEOREM ScheduledIsStored == Spec => []EntriesAreStored
<1>1. Inv /\ Fate => EntriesAreStored
  BY FateIsStored
<1>2. Init => Inv /\ Fate
  BY InvHoldsFirst, FateHoldsFirst
<1>3. (Inv /\ Fate) /\ [Next]_vars => (Inv /\ Fate)'
  BY NextStep, FateStep
<1> QED
  BY <1>1, <1>2, <1>3, PTL DEF Spec

============================================================================
