------------------------- MODULE HttpServer_proofs -------------------------
(***************************************************************************)
(* Proof that a committed workflow has the tasks of its own request and    *)
(* nobody else's, for any requests, clients and crashes.                   *)
(***************************************************************************)
EXTENDS HttpServer, FiniteSetTheorems, TLAPS

(* Zenon proves what no other prover is named for.                         *)
USE ZenonT(90)

Stages == {"check", "exist", "insert", "commit", "detail", "publish", "done"}

Types ==
  /\ create \in [Creates -> [at : Stages, wid : Creates \union {None}]]
  /\ workflows \subseteq Creates
  /\ tasks \subseteq [wf : Creates, by : Creates]
  /\ "raced" \in DOMAIN seen

\* Requests for one name that are, or were, in their transactions at once are
\* known to be: two that are in them now; one that is in its transaction while
\* the other has committed; and one that read back the row of another.
Rivals ==
  \A h, i \in Creates : i \in Twins(h) /\ InTransaction(h) =>
    /\ InTransaction(i) => {h, i} \subseteq seen.raced
    /\ i \in workflows => {h, i} \subseteq seen.raced
Borrowed ==
  \A h \in Creates : create[h].at = "commit" =>
    create[h].wid \in Creates /\ (create[h].wid = h \/ {h, create[h].wid} \subseteq seen.raced)

\* Rows are of requests that have committed, and tasks are at home unless both
\* requests are known to have raced.
Committed == \A h \in workflows : create[h].at \in {"detail", "publish", "done"}
AtHome ==
  /\ \A t \in tasks : t.wf = t.by \/ {t.wf, t.by} \subseteq seen.raced
  /\ \A h \in workflows \ seen.raced : [wf |-> h, by |-> h] \in tasks

Inv == Types /\ Rivals /\ Borrowed /\ Committed /\ AtHome

-----------------------------------------------------------------------------
(* The invariant gives the property, and holds at the start.               *)

LEMMA InvIsWhole == Inv => RowsAreWhole
<1> SUFFICES ASSUME Inv, NEW id \in workflows \ seen.raced
             PROVE  {t.by : t \in {t \in tasks : t.wf = id}} = {id}
  BY DEF RowsAreWhole
<1>1. \A t \in tasks : t.wf = id => t.by = id
  BY DEF Inv, AtHome
<1>2. [wf |-> id, by |-> id] \in tasks
  BY DEF Inv, AtHome
<1> QED
  BY <1>1, <1>2

LEMMA InvHoldsFirst == Init => Inv
<1> SUFFICES ASSUME Init PROVE Inv
  OBVIOUS
<1>1. Types
  BY DEF Init, Types, Stages
<1>2. \A h \in Creates : create[h].at = "check"
  BY DEF Init
<1>3. Rivals /\ Borrowed
  BY <1>2 DEF Rivals, Borrowed, InTransaction
<1>4. Committed /\ AtHome
  BY DEF Init, Committed, AtHome
<1> QED
  BY <1>1, <1>3, <1>4 DEF Inv

-----------------------------------------------------------------------------
(* Steps.  The requests are those of the plan, which no step changes.      *)

LEMMA SameRequests ==
  ASSUME plan' = plan
  PROVE  Creates' = Creates /\ \A h : Twins(h)' = Twins(h)
BY DEF Creates, Twins, Key, Asked

\* What requests, rows and tasks are left alone by.
Apart ==
  /\ UNCHANGED <<plan, create, workflows, tasks>>
  /\ seen'.raced = seen.raced /\ "raced" \in DOMAIN seen'

LEMMA ApartStep == ASSUME Inv, Apart PROVE Inv'
<1>0. Creates' = Creates /\ \A h : Twins(h)' = Twins(h)
  BY SameRequests DEF Apart
<1>1. Types'
  BY <1>0 DEF Inv, Types, Apart
<1>2. Rivals'
  BY <1>0 DEF Inv, Rivals, Apart, InTransaction
<1>3. Borrowed'
  BY <1>0 DEF Inv, Borrowed, Apart
<1>4. Committed' /\ AtHome'
  BY DEF Inv, Committed, AtHome, Apart
<1> QED
  BY <1>1, <1>2, <1>3, <1>4 DEF Inv

\* A request that goes on outside its transaction, or leaves it.
Onward(h, to) ==
  /\ create' = [create EXCEPT ![h].at = to]
  /\ to \in {"exist", "detail", "publish", "done"}
  /\ UNCHANGED <<plan, workflows, tasks>>
  /\ seen'.raced = seen.raced /\ "raced" \in DOMAIN seen'
  /\ h \in workflows => to # "exist"

LEMMA OnwardStep == ASSUME Inv, NEW h \in Creates, NEW to, Onward(h, to) PROVE Inv'
<1>0. Creates' = Creates /\ \A i : Twins(i)' = Twins(i)
  BY SameRequests DEF Onward
<1>1. Types'
  BY <1>0 DEF Inv, Types, Stages, Onward
<1>a. \A i \in Creates : /\ InTransaction(i)' => InTransaction(i)
                         /\ create'[i].at = "commit" => create'[i] = create[i]
  BY DEF Inv, Types, Onward, InTransaction
<1>2. Rivals'
  BY <1>0, <1>a DEF Inv, Rivals, Onward
<1>3. Borrowed'
  BY <1>0, <1>a, SMTT(90) DEF Inv, Borrowed, Onward
<1>4. Committed'
  BY DEF Inv, Types, Committed, Onward
<1>5. AtHome'
  BY DEF Inv, AtHome, Onward
<1> QED
  BY <1>1, <1>2, <1>3, <1>4, <1>5 DEF Inv

\* A request enters its transaction when no other for its name has committed,
\* and those that are in theirs are noted.
LEMMA CheckExistStep == ASSUME Inv, NEW h \in Creates, CheckExist(h) PROVE Inv'
<1> DEFINE rivals == {i \in Twins(h) : InTransaction(i)}
<1>0. /\ Creates' = Creates /\ \A i : Twins(i)' = Twins(i)
      /\ UNCHANGED <<workflows, tasks>>
  BY SameRequests DEF CheckExist, tables
<1>1. seen'.raced = seen.raced \union UNION {{h, i} : i \in rivals} /\ "raced" \in DOMAIN seen'
  BY DEF CheckExist, Inv, Types
<1>2. \/ Twins(h) \intersect workflows = {} /\ create' = [create EXCEPT ![h].at = "insert"]
      \/ create' = [create EXCEPT ![h].at = "done"]
  BY DEF CheckExist, At
<1>3. create[h].at = "exist"
  BY DEF CheckExist, At
<1>4. Types'
  BY <1>0, <1>1, <1>2, SMTT(90) DEF Inv, Types, Stages
<1>5. \A i \in Creates \ {h} : create'[i] = create[i]
  BY <1>2 DEF Inv, Types
<1>6. create'[h].at \in {"insert", "done"}
      /\ (create'[h].at = "insert" => Twins(h) \intersect workflows = {})
  BY <1>2 DEF Inv, Types
<1>7. \A i \in rivals : {h, i} \subseteq seen'.raced
  BY <1>1
<1>8. seen.raced \subseteq seen'.raced
  BY <1>1
<1> HIDE DEF rivals
<1>9. Rivals'
  <2> SUFFICES ASSUME NEW g \in Creates, NEW i \in Creates, i \in Twins(g), InTransaction(g)'
               PROVE  /\ InTransaction(i)' => {g, i} \subseteq seen'.raced
                      /\ i \in workflows => {g, i} \subseteq seen'.raced
    BY <1>0 DEF Rivals
  <2>1. i # g /\ g \in Twins(i)
    BY DEF Twins
  <2>2. CASE g = h
    BY <2>1, <2>2, <1>5, <1>6, <1>7 DEF rivals, InTransaction
  <2>3. CASE i = h
    <3>1. InTransaction(g)
      BY <2>1, <2>3, <1>5 DEF InTransaction
    <3>2. g \in rivals
      BY <2>1, <2>3, <3>1 DEF rivals
    <3> QED
      BY <2>3, <3>2, <1>7
  <2>4. CASE g # h /\ i # h
    BY <2>4, <1>5, <1>8 DEF Inv, Rivals, InTransaction
  <2> QED
    BY <2>2, <2>3, <2>4
<1>10. Borrowed'
  BY <1>0, <1>5, <1>6, <1>8 DEF Inv, Borrowed
<1>11. Committed'
  BY <1>0, <1>3, <1>5, <1>6 DEF Inv, Types, Committed
<1>12. AtHome'
  BY <1>0, <1>8 DEF Inv, AtHome
<1> QED
  BY <1>4, <1>9, <1>10, <1>11, <1>12 DEF Inv

\* The row read back is the request's own, or that of a rival that committed.
LEMMA InsertStep == ASSUME Inv, NEW h \in Creates, InsertAndSelect(h) PROVE Inv'
<1>1. PICK id \in {h} \union (Twins(h) \intersect workflows) :
        create[h].at = "insert" /\ create' = [create EXCEPT ![h] = [at |-> "commit", wid |-> id]]
  BY DEF InsertAndSelect
<1>2. /\ Creates' = Creates /\ \A i : Twins(i)' = Twins(i)
      /\ UNCHANGED <<workflows, tasks, seen>>
  BY SameRequests DEF InsertAndSelect, tables
<1>3. id \in Creates /\ (id = h \/ {h, id} \subseteq seen.raced)
  BY <1>1 DEF Inv, Types, Rivals, InTransaction
<1>4. /\ \A i \in Creates \ {h} : create'[i] = create[i]
      /\ create'[h].at = "commit" /\ create'[h].wid = id
  BY <1>1 DEF Inv, Types
<1>5. \A i \in Creates : InTransaction(i)' <=> InTransaction(i)
  BY <1>1, <1>4 DEF InTransaction
<1>6. Types'
  BY <1>1, <1>2, <1>3 DEF Inv, Types, Stages
<1>7. Rivals'
  BY <1>2, <1>5 DEF Inv, Rivals
<1>8. Borrowed'
  BY <1>2, <1>3, <1>4, SMTT(90) DEF Inv, Borrowed
<1>9. Committed' /\ AtHome'
  BY <1>1, <1>2, <1>4 DEF Inv, Types, Committed, AtHome
<1> QED
  BY <1>6, <1>7, <1>8, <1>9 DEF Inv

\* The tasks go to the row read back; a rival still in its transaction was
\* noted when the later of the two entered.
LEMMA CommitStep == ASSUME Inv, NEW h \in Creates, Commit(h) PROVE Inv'
<1>1. CASE UNCHANGED <<workflows, tasks>> /\ create' = [create EXCEPT ![h].at = "done"]
  <2>1. Onward(h, "done")
    BY <1>1 DEF Commit, Onward, Inv, Types
  <2> QED
    BY <2>1, OnwardStep
<1>2. CASE /\ create[h].at = "commit" /\ create' = [create EXCEPT ![h].at = "detail"]
           /\ workflows' = workflows \union {h}
           /\ tasks' = tasks \union {[wf |-> create[h].wid, by |-> h]}
  <2>0. Creates' = Creates /\ (\A i : Twins(i)' = Twins(i)) /\ seen' = seen
    BY SameRequests DEF Commit
  <2>1. /\ \A i \in Creates \ {h} : create'[i] = create[i]
        /\ create'[h].at = "detail"
    BY <1>2 DEF Inv, Types
  <2>2. create[h].wid \in Creates /\ (create[h].wid = h \/ {h, create[h].wid} \subseteq seen.raced)
    BY <1>2 DEF Inv, Borrowed
  <2>3. Types'
    BY <1>2, <2>0, <2>2, SMTT(90) DEF Inv, Types, Stages
  <2>4. Rivals'
    <3> SUFFICES ASSUME NEW g \in Creates, NEW i \in Creates, i \in Twins(g), InTransaction(g)'
                 PROVE  /\ InTransaction(i)' => {g, i} \subseteq seen.raced
                        /\ i \in workflows' => {g, i} \subseteq seen.raced
      BY <2>0 DEF Rivals
    <3>1. g # h /\ InTransaction(g)
      BY <2>1 DEF InTransaction
    <3>2. InTransaction(i)' => InTransaction(i)
      BY <2>1 DEF InTransaction
    <3>3. InTransaction(h)
      BY <1>2 DEF InTransaction
    <3> QED
      BY <1>2, <3>1, <3>2, <3>3 DEF Inv, Rivals
  <2>5. Borrowed'
    BY <2>0, <2>1, SMTT(90) DEF Inv, Borrowed
  <2>6. Committed'
    BY <1>2, <2>1 DEF Inv, Types, Committed
  <2>7. AtHome'
    BY <1>2, <2>0, <2>2, SMTT(90) DEF Inv, AtHome
  <2> QED
    BY <2>3, <2>4, <2>5, <2>6, <2>7 DEF Inv
<1> QED
  BY <1>1, <1>2 DEF Commit, At

\* A row goes with all its tasks.
LEMMA DestroyStep == ASSUME Inv, DestroyWorker PROVE Inv'
<1>1. CASE UNCHANGED <<workflows, tasks>>
  BY <1>1, ApartStep DEF DestroyWorker, Apart, Inv, Types
<1>2. CASE /\ workflows' = workflows \ {Head(events).id}
           /\ tasks' = {t \in tasks : t.wf # Head(events).id}
  <2>0. Creates' = Creates /\ (\A i : Twins(i)' = Twins(i)) /\ UNCHANGED <<create, seen>>
    BY SameRequests DEF DestroyWorker
  <2>1. Types' /\ Committed'
    BY <1>2, <2>0 DEF Inv, Types, Committed
  <2>2. Rivals' /\ Borrowed'
    BY <1>2, <2>0 DEF Inv, Rivals, Borrowed, InTransaction
  <2>3. AtHome'
    BY <1>2, <2>0 DEF Inv, AtHome
  <2> QED
    BY <2>1, <2>2, <2>3 DEF Inv
<1> QED
  BY <1>1, <1>2 DEF DestroyWorker

\* Every request is over.
LEMMA CrashHttpStep == ASSUME Inv, CrashHttp PROVE Inv'
<1>0. /\ Creates' = Creates /\ (\A i : Twins(i)' = Twins(i))
      /\ UNCHANGED <<workflows, tasks>>
      /\ seen'.raced = seen.raced /\ "raced" \in DOMAIN seen'
  BY SameRequests DEF CrashHttp, tables, Inv, Types
<1>1. create' = [h \in Creates |-> [create[h] EXCEPT !.at = "done"]]
  BY DEF CrashHttp
<1>2. Types'
  BY <1>0, <1>1 DEF Inv, Types, Stages
<1>3. \A h \in Creates : create'[h].at = "done"
  BY <1>1 DEF Inv, Types
<1>4. Rivals' /\ Borrowed'
  BY <1>0, <1>3 DEF Rivals, Borrowed, InTransaction
<1>5. Committed' /\ AtHome'
  BY <1>0, <1>3 DEF Inv, Types, Committed, AtHome
<1> QED
  BY <1>2, <1>4, <1>5 DEF Inv

LEMMA NextStep == Inv /\ [Next]_vars => Inv'
<1> SUFFICES ASSUME Inv, [Next]_vars PROVE Inv'
  OBVIOUS
<1>t. "raced" \in DOMAIN seen
  BY DEF Inv, Types
<1>1. ASSUME NEW h \in Creates, CheckWorkflow(h) PROVE Inv'
  <2>1. Onward(h, "exist") \/ Onward(h, "done")
    BY <1>1, <1>t DEF CheckWorkflow, At, Onward, tables, Inv, Committed
  <2> QED
    BY <2>1, OnwardStep
<1>2. ASSUME NEW h \in Creates, CheckExist(h) PROVE Inv'
  BY <1>2, CheckExistStep
<1>3. ASSUME NEW h \in Creates, InsertAndSelect(h) PROVE Inv'
  BY <1>3, InsertStep
<1>4. ASSUME NEW h \in Creates, Commit(h) PROVE Inv'
  BY <1>4, CommitStep
<1>5. ASSUME NEW h \in Creates, ReadBack(h) \/ PublishCreate(h) PROVE Inv'
  <2>1. Onward(h, "publish") \/ Onward(h, "done")
    BY <1>5, <1>t DEF ReadBack, PublishCreate, At, Onward, tables
  <2> QED
    BY <2>1, OnwardStep
<1>6. ASSUME NEW h \in Creates, DropWorkflow(h) \/ LoadWorkflow(h) PROVE Inv'
  <2>1. Apart
    BY <1>6, <1>t DEF DropWorkflow, LoadWorkflow, Apart, tables
  <2> QED
    BY <2>1, ApartStep
<1>7. ASSUME NEW c, DeleteChannels(c) \/ CreateClient(c) PROVE Inv'
  <2>1. Apart
    BY <1>7, <1>t DEF DeleteChannels, CreateClient, SeenInsert, Apart
  <2> QED
    BY <2>1, ApartStep
<1>8. ASSUME NEW l \in Logins, \/ SelectClient(l) \/ InsertClient(l) \/ UpdateClient(l)
                               \/ SendToken(l) \/ Compare(l) \/ AuthTimeout(l)
      PROVE  Inv'
  <2>1. Apart
    BY <1>8, <1>t DEF SelectClient, InsertClient, UpdateClient, SendToken, Compare, AuthTimeout,
                      SeenInsert, Apart, tables
  <2> QED
    BY <2>1, ApartStep
<1>9. CASE \/ PublishToken \/ Answer \/ listenMB \/ GetWorkflows \/ Loaded \/ StartWorker
           \/ StartRunner \/ CrashRunner
  <2>1. Apart
    BY <1>9, <1>t DEF PublishToken, Answer, listenMB, GetWorkflows, Loaded, StartWorker,
                      StartRunner, CrashRunner, Apart, tables
  <2> QED
    BY <2>1, ApartStep
<1>10. CASE DestroyWorker
  BY <1>10, DestroyStep
<1>11. CASE CrashHttp
  BY <1>11, CrashHttpStep
<1>12. CASE UNCHANGED vars
  BY <1>12, <1>t, ApartStep DEF vars, Apart
<1> QED
  BY <1>1, <1>2, <1>3, <1>4, <1>5, <1>6, <1>7, <1>8, <1>9, <1>10, <1>11, <1>12 DEF Next

-----------------------------------------------------------------------------
\* A committed workflow has the tasks and brokers of its own request only,
\* unless two requests for its name were in their transactions at once
\* (storage.CreateWorkflow), for any requests, clients, logins and crashes.
THEOREM RowsStayWhole == Spec => []RowsAreWhole
<1>1. Spec => []Inv
  BY InvHoldsFirst, NextStep, PTL DEF Spec
<1> QED
  BY <1>1, InvIsWhole, PTL

-----------------------------------------------------------------------------
(* A stored workflow can be loaded.  A name that never moved has one row   *)
(* for a user, and what a request found when it was checked is there yet,  *)
(* or its client's name has moved, or its channel was deleted.             *)

IsRow(c) == c = [name |-> c.name, user |-> c.user, id |-> c.id]
Unique ==
  \A c, d \in clients :
    c.name = d.name /\ c.user = d.user /\ c.name \notin seen.moved => c = d
Known(h) ==
  /\ \/ Asked(h).client = "" \/ Asked(h).client \in seen.moved
     \/ \E c \in clients : c.user = Asked(h).user /\ c.name = Asked(h).client
  /\ Asked(h).channel = "" \/ <<Asked(h).user, Asked(h).channel>> \in plan.channels
Checked(h) == create[h].at \in {"exist", "insert", "commit"} \/ h \in workflows

Loads ==
  /\ "moved" \in DOMAIN seen /\ channels \subseteq plan.channels
  /\ \A c \in clients : IsRow(c)
  /\ Unique
  /\ \A h \in Creates : Checked(h) => Known(h)

LEMMA LoadsIsLoaded == Inv /\ Loads => StoredLoads
<1> SUFFICES ASSUME Inv, Loads, NEW id \in workflows \ seen.raced,
                    ClientsOf(id) \intersect seen.moved = {},
                    <<Asked(id).user, Asked(id).channel>> \notin plan.channels \ channels
             PROVE  DetailWorkflow(id) = {"ok"}
  BY DEF StoredLoads
<1>1. id \in Creates /\ Known(id)
  BY DEF Inv, Types, Loads, Checked
<1>2. \A t \in tasks : t.wf = id => t.by = id
  BY DEF Inv, AtHome
<1>3. [wf |-> id, by |-> id] \in tasks
  BY DEF Inv, AtHome
<1>4. ClientsOf(id) = {Asked(id).client} \ {""}
  BY <1>2, <1>3 DEF ClientsOf
<1>5. ASSUME NEW n \in ClientsOf(id)
      PROVE  Cardinality(RowsOf(Asked(id).user, n)) = 1
  <2>1. n = Asked(id).client /\ n # "" /\ n \notin seen.moved
    BY <1>4, <1>5
  <2>2. PICK c \in clients : c.user = Asked(id).user /\ c.name = n
    BY <1>1, <2>1 DEF Known
  <2>3. RowsOf(Asked(id).user, n) = {c}
    BY <2>1, <2>2 DEF Loads, Unique, RowsOf
  <2> QED
    BY <2>3, FS_Singleton
<1>6. \A t \in tasks : t.wf = id => Compiles(t.by)
  BY <1>1, <1>2 DEF Known, Compiles
<1>7. {"panic" : c \in {c \in ClientsOf(id) : Cardinality(RowsOf(Asked(id).user, c)) = 0}}
      \union {"error" : c \in {c \in ClientsOf(id) : Cardinality(RowsOf(Asked(id).user, c)) > 1}}
      = {}
  BY <1>5, SMTT(90)
<1> QED
  BY <1>6, <1>7 DEF DetailWorkflow

LEMMA LoadsHoldsFirst == Init => Loads
<1> SUFFICES ASSUME Init PROVE Loads
  OBVIOUS
<1>1. clients = {[name |-> c.name, user |-> c.user, id |-> 0] : c \in plan.clients}
  BY DEF Init
<1>2. \A c \in clients : IsRow(c) /\ c.id = 0
  BY <1>1, SMTT(90) DEF IsRow
<1>3. Unique
  <2> SUFFICES ASSUME NEW c \in clients, NEW d \in clients, c.name = d.name, c.user = d.user
               PROVE  c = d
    BY DEF Unique
  <2> QED
    BY <1>2 DEF IsRow
<1>4. \A h \in Creates : ~ Checked(h)
  BY DEF Init, Checked
<1> QED
  BY <1>2, <1>3, <1>4 DEF Init, Loads

\* Clients and channels are left alone, and what is checked was checked.
LEMMA LoadsSame ==
  ASSUME Loads, UNCHANGED <<plan, clients, channels>>,
         seen'.moved = seen.moved, "moved" \in DOMAIN seen',
         \A h \in Creates : Checked(h)' => Checked(h) \/ Known(h)
  PROVE  Loads'
<1>1. Creates' = Creates /\ \A h : Asked(h)' = Asked(h)
  BY DEF Creates, Asked
<1>2. \A h : Known(h)' <=> Known(h)
  BY <1>1 DEF Known
<1>3. Unique'
  BY DEF Loads, Unique
<1> QED
  BY <1>1, <1>2, <1>3 DEF Loads, IsRow

\* A row is added: the name had none of the user's, or it has moved.
LEMMA LoadsInsert ==
  ASSUME Loads, NEW r, clients' = Inserted(r), seen' = SeenInsert(r),
         UNCHANGED <<plan, create, workflows, channels>>
  PROVE  Loads'
<1>1. Creates' = Creates /\ \A h : Asked(h)' = Asked(h) /\ Checked(h)' = Checked(h)
  BY DEF Creates, Asked, Checked
<1>2. PICK n : n = [name |-> r.name, user |-> r.user, id |-> Cardinality(clients) + 1]
  OBVIOUS
<1>3. clients' = clients \union {n} /\ n.name = r.name /\ n.user = r.user /\ IsRow(n)
  BY <1>2 DEF Inserted, IsRow
<1>4. /\ "moved" \in DOMAIN seen' /\ seen.moved \subseteq seen'.moved
      /\ r.name \in seen'.moved \/ \A c \in clients : ~ (c.user = r.user /\ c.name = r.name)
  BY DEF Loads, SeenInsert, RowsOf
<1>5. Unique'
  BY <1>3, <1>4 DEF Loads, Unique
<1>6. \A h : Known(h) => Known(h)'
  BY <1>1, <1>3, <1>4 DEF Known
<1> QED
  BY <1>1, <1>3, <1>4, <1>5, <1>6 DEF Loads, IsRow

\* The rows of a name change only if the name moves.
LEMMA LoadsUpdate ==
  ASSUME Loads, NEW l \in Logins, UpdateClient(l)
  PROVE  Loads'
<1> DEFINE me == plan.logins[l]
           mine == {c \in clients : c.name = me.name}
<1>1. Creates' = Creates /\ \A h : Asked(h)' = Asked(h) /\ Checked(h)' = Checked(h)
  BY DEF Creates, Asked, Checked, UpdateClient
<1>2. /\ UNCHANGED <<plan, channels>>
      /\ clients' = (clients \ mine) \union {[c EXCEPT !.user = me.user] : c \in mine}
      /\ seen' = [seen EXCEPT !.moved =
                     IF \A c \in mine : c.user = me.user THEN @ ELSE @ \union {me.name}]
  BY DEF UpdateClient
<1>3. /\ "moved" \in DOMAIN seen' /\ seen.moved \subseteq seen'.moved
      /\ me.name \in seen'.moved \/ \A c \in mine : c.user = me.user
  BY <1>2 DEF Loads
<1>4. \A c \in mine : [c EXCEPT !.user = me.user] = [name |-> c.name, user |-> me.user, id |-> c.id]
  BY SMTT(90) DEF Loads, IsRow
<1>5. \A c \in clients' : IsRow(c) /\ (c \in clients \/ c.name = me.name)
  BY <1>2, <1>4, SMTT(90) DEF Loads, IsRow
<1>6. CASE \A c \in mine : c.user = me.user
  <2>1. \A c \in mine : [c EXCEPT !.user = me.user] = c
    BY <1>4, <1>6 DEF Loads, IsRow
  <2>2. clients' = clients
    BY <1>2, <2>1, SMTT(90)
  <2>3. seen'.moved = seen.moved
    BY <1>2, <1>6 DEF Loads
  <2> QED
    BY <1>1, <1>2, <1>3, <2>2, <2>3, LoadsSame
<1>7. CASE me.name \in seen'.moved
  <2>1. \A c \in clients' : c.name \notin seen'.moved => c \in clients
    BY <1>5, <1>7
  <2>2. \A c \in clients : c.name \notin seen'.moved => c \in clients'
    BY <1>2, <1>7
  <2>3. Unique'
    BY <1>3, <2>1 DEF Loads, Unique
  <2>4. \A h : Known(h) => Known(h)'
    BY <1>1, <1>2, <1>3, <2>2 DEF Known
  <2> QED
    BY <1>1, <1>2, <1>3, <1>5, <2>3, <2>4 DEF Loads
<1> QED
  BY <1>3, <1>6, <1>7

LEMMA LoadsStep == Inv /\ Loads /\ [Next]_vars => Loads'
<1> SUFFICES ASSUME Inv, Loads, [Next]_vars PROVE Loads'
  OBVIOUS
<1>t. "moved" \in DOMAIN seen /\ create \in [Creates -> [at : Stages, wid : Creates \union {None}]]
  BY DEF Inv, Types, Loads
<1>1. ASSUME NEW h \in Creates, CheckWorkflow(h) PROVE Loads'
  <2>1. create'[h].at = "exist" => Known(h)
    BY <1>1, <1>t DEF CheckWorkflow, At, RowsOf, Compiles, Known, Loads
  <2>2. /\ UNCHANGED <<plan, clients, channels, workflows, seen>>
        /\ create'[h].at \in {"exist", "done"}
        /\ \A i \in Creates \ {h} : create'[i] = create[i]
    BY <1>1, <1>t DEF CheckWorkflow, At, tables
  <2>3. \A i \in Creates : Checked(i)' => Checked(i) \/ Known(i)
    BY <2>1, <2>2 DEF Checked
  <2> QED
    BY <1>t, <2>2, <2>3, LoadsSame
<1>2. ASSUME NEW h \in Creates, CheckExist(h) \/ InsertAndSelect(h) PROVE Loads'
  <2>1. /\ UNCHANGED <<plan, clients, channels, workflows>>
        /\ create[h].at \in {"exist", "insert"}
        /\ \A i \in Creates \ {h} : create'[i] = create[i]
        /\ seen'.moved = seen.moved /\ "moved" \in DOMAIN seen'
    BY <1>2, <1>t DEF CheckExist, InsertAndSelect, At, tables
  <2>2. \A i \in Creates : Checked(i)' => Checked(i)
    BY <2>1 DEF Checked
  <2> QED
    BY <2>1, <2>2, LoadsSame
<1>3. ASSUME NEW h \in Creates, Commit(h) PROVE Loads'
  <2>1. /\ UNCHANGED <<plan, clients, channels, seen>>
        /\ create[h].at = "commit" /\ workflows' \subseteq workflows \union {h}
        /\ \A i \in Creates \ {h} : create'[i] = create[i]
    BY <1>3, <1>t DEF Commit, At
  <2>2. \A i \in Creates : Checked(i)' => Checked(i)
    BY <2>1 DEF Checked
  <2> QED
    BY <1>t, <2>1, <2>2, LoadsSame
<1>4. ASSUME NEW h \in Creates, ReadBack(h) \/ PublishCreate(h) PROVE Loads'
  <2>1. /\ UNCHANGED <<plan, clients, channels, workflows>>
        /\ create'[h].at \in {"publish", "done"}
        /\ \A i \in Creates \ {h} : create'[i] = create[i]
        /\ seen'.moved = seen.moved /\ "moved" \in DOMAIN seen'
    BY <1>4, <1>t DEF ReadBack, PublishCreate, At, tables
  <2>2. \A i \in Creates : Checked(i)' => Checked(i)
    BY <2>1 DEF Checked
  <2> QED
    BY <2>1, <2>2, LoadsSame
<1>5. ASSUME NEW c, DeleteChannels(c) PROVE Loads'
  <2>1. /\ UNCHANGED <<plan, create, workflows, clients, seen>>
        /\ channels' \subseteq channels
    BY <1>5 DEF DeleteChannels
  <2>2. Creates' = Creates /\ \A h : Known(h)' = Known(h) /\ Checked(h)' = Checked(h)
    BY <2>1 DEF Creates, Known, Asked, Checked
  <2> QED
    BY <2>1, <2>2 DEF Loads, Unique, IsRow
<1>6. ASSUME NEW c, CreateClient(c) PROVE Loads'
  BY <1>6, LoadsInsert DEF CreateClient
<1>7. ASSUME NEW l \in Logins, InsertClient(l) PROVE Loads'
  <2>1. PICK r : r = plan.logins[l]
    OBVIOUS
  <2> QED
    BY <1>7, <2>1, LoadsInsert DEF InsertClient
<1>8. ASSUME NEW l \in Logins, UpdateClient(l) PROVE Loads'
  BY <1>8, LoadsUpdate
<1>9. ASSUME UNCHANGED <<plan, clients, channels, create>>, workflows' \subseteq workflows,
             seen'.moved = seen.moved, "moved" \in DOMAIN seen'
      PROVE  Loads'
  <2>1. \A i \in Creates : Checked(i)' => Checked(i)
    BY <1>9 DEF Checked
  <2> QED
    BY <1>9, <2>1, LoadsSame
<1>10. ASSUME NEW h \in Creates, DropWorkflow(h) \/ LoadWorkflow(h) PROVE Loads'
  BY <1>10, <1>t, <1>9 DEF DropWorkflow, LoadWorkflow, tables
<1>11. ASSUME NEW l \in Logins, \/ SelectClient(l) \/ SendToken(l) \/ Compare(l) \/ AuthTimeout(l)
       PROVE  Loads'
  BY <1>11, <1>t, <1>9 DEF SelectClient, SendToken, Compare, AuthTimeout, tables
<1>12. CASE \/ PublishToken \/ Answer \/ listenMB \/ GetWorkflows \/ Loaded \/ StartWorker
            \/ StartRunner \/ CrashRunner \/ DestroyWorker
  BY <1>12, <1>t, <1>9 DEF PublishToken, Answer, listenMB, GetWorkflows, Loaded, StartWorker,
                           StartRunner, CrashRunner, DestroyWorker, tables
<1>13. CASE CrashHttp
  <2>1. /\ UNCHANGED <<plan, clients, channels, workflows>>
        /\ create' = [h \in Creates |-> [create[h] EXCEPT !.at = "done"]]
        /\ seen'.moved = seen.moved /\ "moved" \in DOMAIN seen'
    BY <1>13, <1>t DEF CrashHttp, tables
  <2>2. \A h \in Creates : create'[h].at = "done"
    BY <1>t, <2>1
  <2>3. \A i \in Creates : Checked(i)' => Checked(i)
    BY <2>1, <2>2 DEF Checked
  <2> QED
    BY <2>1, <2>3, LoadsSame
<1>14. CASE UNCHANGED vars
  BY <1>14, <1>t, <1>9 DEF vars
<1> QED
  BY <1>1, <1>2, <1>3, <1>4, <1>5, <1>6, <1>7, <1>8, <1>10, <1>11, <1>12, <1>13, <1>14 DEF Next

\* What is stored can be loaded, unless its requests raced, its client moved or
\* is there twice, or its channel was deleted (DetailWorkflow, Compile), for
\* any requests, logins, registrations, deletions and crashes.
THEOREM StoredIsLoaded == Spec => []StoredLoads
<1>1. Spec => []Inv
  BY InvHoldsFirst, NextStep, PTL DEF Spec
<1>2. Init /\ [][Next]_vars /\ []Inv => []Loads
  BY LoadsHoldsFirst, LoadsStep, PTL
<1> QED
  BY <1>1, <1>2, LoadsIsLoaded, PTL DEF Spec

-----------------------------------------------------------------------------
(* A workflow has one worker.  Until then one thing at a time stands for   *)
(* the worker to come: the request that will announce it, the event, or    *)
(* the place in the runner's first load.                                   *)

Events == [cmd : {"create", "delete"}, id : Creates]
Creation(id) == [cmd |-> "create", id |-> id]

RunnerTypes ==
  /\ runner \in [at : {"down", "fetch", "load", "up", "failed"}, listens : BOOLEAN,
                 ids : SUBSET Creates]
  /\ runner.at # "load" => runner.ids = {}
  /\ events \in Seq(Events) /\ started \in [Creates -> Nat]
  /\ "overlap" \in DOMAIN seen

Waits(id) == \E i \in 1 .. Len(events) : events[i] = Creation(id)
Apt(id) == id \notin seen.overlap /\ id \notin seen.raced

\* A request is of its own workflow, or it has raced.
Own ==
  \A h \in Creates : create[h].at \in {"commit", "detail", "publish"} =>
    create[h].wid \in Creates /\ (create[h].wid = h \/ {h, create[h].wid} \subseteq seen.raced)

\* At most one claim to the workflow's worker: the request itself until it
\* is over, an event, a place in the load, or the worker.
Single(id) ==
  /\ started[id] <= 1
  /\ \A i, j \in 1 .. Len(events) :
       events[i] = Creation(id) /\ events[j] = Creation(id) => i = j
  /\ create[id].at # "done" => started[id] = 0 /\ ~ Waits(id) /\ id \notin runner.ids
  /\ Waits(id) => started[id] = 0 /\ id \notin runner.ids
  /\ id \in runner.ids => started[id] = 0

Claims == RunnerTypes /\ Own /\ \A id \in Creates : Apt(id) => Single(id)

LEMMA ClaimsIsOne == Claims => OneWorker
BY DEF Claims, Apt, Single, OneWorker

LEMMA ClaimsHoldsFirst == Init => Claims
<1> SUFFICES ASSUME Init PROVE Claims
  OBVIOUS
<1>0. /\ events = <<>> /\ Len(events) = 0 /\ runner = Down
      /\ started = [h \in Creates |-> 0] /\ "overlap" \in DOMAIN seen
  BY DEF Init
<1>1. RunnerTypes
  <2>1. Down \in [at : {"down", "fetch", "load", "up", "failed"}, listens : BOOLEAN,
                  ids : SUBSET Creates]
    BY DEF Down
  <2>2. Down.ids = {}
    BY DEF Down
  <2> QED
    BY <1>0, <2>1, <2>2, SMTT(90) DEF RunnerTypes
<1>2. Own
  BY DEF Init, Own
<1>3. \A id \in Creates : Single(id)
  BY <1>0, SMTT(90) DEF Single, Waits, Down
<1> QED
  BY <1>1, <1>2, <1>3 DEF Claims

\* Requests go on, and the runner does nothing.
LEMMA ClaimsRequests ==
  ASSUME Claims, UNCHANGED <<plan, runner, events, started>>, Own', "overlap" \in DOMAIN seen',
         seen.raced \subseteq seen'.raced, seen.overlap \subseteq seen'.overlap,
         \A h \in Creates : create'[h].at # "done" => create[h].at # "done"
  PROVE  Claims'
<1>1. Creates' = Creates
  BY DEF Creates
<1>2. RunnerTypes'
  BY <1>1 DEF Claims, RunnerTypes, Events
<1>3. \A id : Waits(id)' = Waits(id)
  BY DEF Waits, Creation
<1>4. \A id \in Creates : Single(id) => Single(id)'
  BY <1>3 DEF Single, Creation
<1>5. \A id \in Creates : Apt(id)' => Apt(id)
  BY DEF Apt
<1> QED
  BY <1>1, <1>2, <1>4, <1>5 DEF Claims

\* The runner goes on, and requests do nothing.
LEMMA ClaimsRunner ==
  ASSUME Claims, UNCHANGED <<plan, create>>, RunnerTypes', seen'.raced = seen.raced,
         \A id \in Creates : Apt(id)' => Apt(id),
         \A id \in Creates : Apt(id)' /\ Single(id) => Single(id)'
  PROVE  Claims'
<1>1. Creates' = Creates
  BY DEF Creates
<1>2. Own'
  BY <1>1 DEF Claims, Own
<1> QED
  BY <1>1, <1>2 DEF Claims

LEMMA AppendAt ==
  ASSUME NEW S, NEW s \in Seq(S), NEW e \in S
  PROVE  /\ Append(s, e) \in Seq(S)
         /\ \A i \in 1 .. Len(Append(s, e)) :
              \/ i \in 1 .. Len(s) /\ Append(s, e)[i] = s[i]
              \/ i = Len(s) + 1 /\ Append(s, e)[i] = e
BY SMTT(90)

LEMMA TailAt ==
  ASSUME NEW S, NEW s \in Seq(S), s # <<>>
  PROVE  /\ Tail(s) \in Seq(S) /\ Len(s) \in Nat /\ 1 \in 1 .. Len(s)
         /\ Head(s) = s[1] /\ Head(s) \in S
         /\ \A i \in 1 .. Len(Tail(s)) : i + 1 \in 1 .. Len(s) /\ Tail(s)[i] = s[i + 1]
         /\ \A i, j \in 1 .. Len(Tail(s)) : i + 1 = j + 1 => i = j
         /\ \A i \in 1 .. Len(Tail(s)) : i + 1 # 1
BY SMTT(90)

\* An event is published, to a runner that may not listen.
LEMMA PublishedOne ==
  ASSUME RunnerTypes, NEW e \in Events, events' = Published(e)
  PROVE  /\ events' \in Seq(Events)
         /\ \A i \in 1 .. Len(events') :
              \/ i \in 1 .. Len(events) /\ events'[i] = events[i]
              \/ i = Len(events) + 1 /\ events'[i] = e
<1>1. events \in Seq(Events)
  BY DEF RunnerTypes
<1>2. CASE events' = events
  BY <1>1, <1>2
<1>3. CASE events' = Append(events, e)
  BY <1>1, <1>3, AppendAt, SMTT(90)
<1> QED
  BY <1>2, <1>3 DEF Published

LEMMA PublishCreateStep ==
  ASSUME Inv, Claims, NEW h \in Creates, PublishCreate(h)
  PROVE  Claims'
<1>1. PICK w : w = create[h].wid
  OBVIOUS
<1>2. w \in Creates /\ (w = h \/ {h, w} \subseteq seen.raced) /\ create[h].at = "publish"
  BY <1>1 DEF Claims, Own, PublishCreate, At
<1>3. /\ events' = Published(Creation(w)) /\ UNCHANGED <<plan, runner, started>>
      /\ create'[h].at = "done" /\ \A i \in Creates \ {h} : create'[i] = create[i]
  BY <1>1 DEF PublishCreate, At, Creation, Inv, Types
<1>4. seen'.raced = seen.raced /\ seen'.overlap = seen.overlap /\ "overlap" \in DOMAIN seen'
  BY SMTT(90) DEF PublishCreate, Claims, RunnerTypes
<1>5. Creation(w) \in Events
  BY <1>2 DEF Creation, Events
<1>6. /\ events' \in Seq(Events)
      /\ \A i \in 1 .. Len(events') :
           \/ i \in 1 .. Len(events) /\ events'[i] = events[i]
           \/ i = Len(events) + 1 /\ events'[i] = Creation(w)
  BY <1>3, <1>5, PublishedOne DEF Claims
<1>7. Creates' = Creates
  BY <1>3 DEF Creates
<1>8. RunnerTypes'
  BY <1>3, <1>4, <1>6, <1>7 DEF Claims, RunnerTypes, Events
<1>9. Own'
  BY <1>3, <1>4, <1>7, SMTT(90) DEF Claims, Own
<1>10. ASSUME NEW id \in Creates, Apt(id)' PROVE Single(id)'
  <2>1. Single(id)
    BY <1>4, <1>10 DEF Claims, Apt
  <2>2. CASE id = w
    <3>1. id = h /\ started[id] = 0 /\ ~ Waits(id) /\ id \notin runner.ids
      BY <1>2, <1>4, <1>10, <2>1, <2>2 DEF Apt, Single
    <3>2. \A i \in 1 .. Len(events') : events'[i] = Creation(id) => i = Len(events) + 1
      BY <1>6, <3>1 DEF Waits
    <3> QED
      BY <1>3, <3>1, <3>2, SMTT(90) DEF Single, Creation
  <2>3. CASE id # w
    <3>1. Creation(w) # Creation(id)
      BY <2>3 DEF Creation
    <3>2. \A i \in 1 .. Len(events') : events'[i] = Creation(id) =>
            i \in 1 .. Len(events) /\ events[i] = Creation(id)
      BY <1>6, <3>1
    <3>3. Waits(id)' => Waits(id)
      BY <3>2 DEF Waits, Creation
    <3> QED
      BY <1>3, <2>1, <3>2, <3>3 DEF Single, Creation
  <2> QED
    BY <2>2, <2>3
<1> QED
  BY <1>7, <1>8, <1>9, <1>10 DEF Claims

\* A deletion is no claim.
LEMMA DropStep ==
  ASSUME Inv, Claims, NEW h \in Creates, DropWorkflow(h)
  PROVE  Claims'
<1>1. PICK e \in Events : e = [cmd |-> "delete", id |-> h]
  BY DEF Events
<1>2. events' = Published(e) /\ UNCHANGED <<plan, create, runner, started, seen>>
  BY <1>1 DEF DropWorkflow
<1>3. /\ events' \in Seq(Events)
      /\ \A i \in 1 .. Len(events') :
           \/ i \in 1 .. Len(events) /\ events'[i] = events[i]
           \/ i = Len(events) + 1 /\ events'[i] = e
  BY <1>2, PublishedOne DEF Claims
<1>4. \A id : e # Creation(id)
  BY <1>1 DEF Creation
<1>5. \A id : \A i \in 1 .. Len(events') : events'[i] = Creation(id) =>
        i \in 1 .. Len(events) /\ events[i] = Creation(id)
  BY <1>3, <1>4
<1>6. \A id : Waits(id)' => Waits(id)
  BY <1>5 DEF Waits, Creation
<1>7. \A id \in Creates : Single(id) => Single(id)'
  BY <1>2, <1>5, <1>6 DEF Single, Creation
<1>8. RunnerTypes'
  BY <1>2, <1>3 DEF Claims, RunnerTypes, Events, Creates
<1>9. \A id \in Creates : Apt(id)' => Apt(id)
  BY <1>2 DEF Apt
<1> QED
  BY <1>2, <1>7, <1>8, <1>9, ClaimsRunner

\* The first load reads the rows: those that are announced anyway are noted.
LEMMA GetWorkflowsStep ==
  ASSUME Inv, Claims, GetWorkflows
  PROVE  Claims'
<1>1. /\ UNCHANGED <<plan, create, events, started>>
      /\ runner.at = "fetch" /\ runner' = [runner EXCEPT !.at = "load", !.ids = workflows]
  BY DEF GetWorkflows
<1>2. /\ seen'.raced = seen.raced /\ "overlap" \in DOMAIN seen'
      /\ seen'.overlap = seen.overlap \union {id \in workflows : Announcing(id)}
  BY SMTT(90) DEF GetWorkflows, Claims, RunnerTypes
<1>3. runner'.ids = workflows /\ runner'.at = "load" /\ workflows \subseteq Creates
  BY <1>1 DEF Inv, Types, Claims, RunnerTypes
<1>4. RunnerTypes'
  <2>1. runner' \in [at : {"down", "fetch", "load", "up", "failed"}, listens : BOOLEAN,
                     ids : SUBSET Creates]
    BY <1>1, <1>3 DEF Claims, RunnerTypes
  <2> QED
    BY <1>1, <1>2, <1>3, <2>1 DEF Claims, RunnerTypes, Events, Creates
<1>5. ASSUME NEW id \in Creates, Apt(id)', Single(id) PROVE Single(id)'
  <2>1. Waits(id)' = Waits(id)
    BY <1>1 DEF Waits, Creation
  <2>2. ASSUME id \in workflows PROVE started[id] = 0 /\ ~ Waits(id) /\ create[id].at = "done"
    <3>1. ~ Announcing(id) /\ id \notin seen.raced
      BY <1>2, <1>5, <2>2 DEF Apt
    <3>2. create[id].at \in {"detail", "publish", "done"}
      BY <2>2 DEF Inv, Committed
    <3>3. create[id].at \in {"detail", "publish"} => create[id].wid = id
      BY <3>1 DEF Claims, Own
    <3>4. create[id].at = "done"
      BY <3>1, <3>2, <3>3 DEF Announcing
    <3>5. started[id] = 0
      BY <3>1, SMTT(90) DEF Announcing, Claims, RunnerTypes
    <3>6. ~ Waits(id)
      BY <3>1 DEF Announcing, Waits, Creation
    <3> QED
      BY <3>4, <3>5, <3>6
  <2>3. runner.ids = {}
    BY <1>1 DEF Claims, RunnerTypes
  <2> QED
    BY <1>1, <1>3, <1>5, <2>1, <2>2 DEF Single, Creation
<1>6. \A id \in Creates : Apt(id)' => Apt(id)
  BY <1>2 DEF Apt
<1> QED
  BY <1>1, <1>2, <1>4, <1>5, <1>6, ClaimsRunner

\* The runner's other steps at its start claim nothing.
LEMMA RunnerOnlyStep ==
  ASSUME Claims, UNCHANGED <<plan, create, events, started, seen>>, RunnerTypes',
         runner'.ids \subseteq runner.ids
  PROVE  Claims'
<1>1. \A id : Waits(id)' = Waits(id)
  BY DEF Waits, Creation
<1>2. \A id \in Creates : Single(id) => Single(id)'
  BY <1>1 DEF Single, Creation
<1>3. \A id \in Creates : Apt(id)' => Apt(id)
  BY DEF Apt
<1> QED
  BY <1>2, <1>3, ClaimsRunner

LEMMA ResetStep ==
  ASSUME Claims, runner' = Down, events' = <<>>, started' = [h \in Creates |-> 0],
         UNCHANGED <<plan, create, seen>>
  PROVE  Claims'
<1>1. /\ Len(events') = 0 /\ runner'.ids = {}
      /\ \A id \in Creates : started'[id] = 0
  BY DEF Down
<1>2. RunnerTypes'
  <2>1. Down \in [at : {"down", "fetch", "load", "up", "failed"}, listens : BOOLEAN,
                  ids : SUBSET Creates]
    BY DEF Down
  <2> QED
    BY <1>1, <2>1, SMTT(90) DEF Claims, RunnerTypes, Events, Creates
<1>3. \A id \in Creates : Single(id)'
  BY <1>1, SMTT(90) DEF Single, Waits
<1>4. \A id \in Creates : Apt(id)' => Apt(id)
  BY DEF Apt
<1> QED
  BY <1>2, <1>3, <1>4, ClaimsRunner

LEMMA LoadWorkflowStep ==
  ASSUME Claims, NEW id \in Creates, LoadWorkflow(id)
  PROVE  Claims'
<1>1. runner.at = "load" /\ id \in runner.ids /\ UNCHANGED <<plan, create, seen>>
  BY DEF LoadWorkflow
<1>2. CASE /\ runner' = [runner EXCEPT !.ids = @ \ {id}]
           /\ started' = [started EXCEPT ![id] = @ + 1] /\ UNCHANGED events
  <2>1. /\ runner'.ids = runner.ids \ {id} /\ runner'.at = "load"
        /\ runner' \in [at : {"down", "fetch", "load", "up", "failed"}, listens : BOOLEAN,
                        ids : SUBSET Creates]
    BY <1>1, <1>2 DEF Claims, RunnerTypes
  <2>2. /\ started' \in [Creates -> Nat] /\ started'[id] = started[id] + 1
        /\ \A x \in Creates \ {id} : started'[x] = started[x]
    BY <1>2, SMTT(90) DEF Claims, RunnerTypes
  <2>3. RunnerTypes'
    BY <1>1, <1>2, <2>1, <2>2 DEF Claims, RunnerTypes, Events, Creates
  <2>4. \A x : Waits(x)' = Waits(x)
    BY <1>2 DEF Waits, Creation
  <2>5. ASSUME NEW x \in Creates, Single(x) PROVE Single(x)'
    <3>1. CASE x = id
      BY <1>1, <1>2, <2>1, <2>2, <2>4, <2>5, <3>1, SMTT(90) DEF Single, Creation
    <3>2. CASE x # id
      BY <1>1, <1>2, <2>1, <2>2, <2>4, <2>5, <3>2 DEF Single, Creation
    <3> QED
      BY <3>1, <3>2
  <2>6. \A x \in Creates : Apt(x)' => Apt(x)
    BY <1>1 DEF Apt
  <2> QED
    BY <1>1, <2>3, <2>5, <2>6, ClaimsRunner
<1>3. CASE runner' = [runner EXCEPT !.at = "failed", !.ids = {}] /\ UNCHANGED <<started, events>>
  <2>1. RunnerTypes' /\ runner'.ids = {}
    BY <1>1, <1>3 DEF Claims, RunnerTypes, Events, Creates
  <2> QED
    BY <1>1, <1>3, <2>1, RunnerOnlyStep
<1>4. CASE runner' = Down /\ events' = <<>> /\ started' = [h \in Creates |-> 0]
  BY <1>1, <1>4, ResetStep
<1> QED
  BY <1>2, <1>3, <1>4 DEF LoadWorkflow

\* The event at the head goes; a second for its workflow there was not.
LEMMA HandledOne ==
  ASSUME RunnerTypes, NEW cmd, Handling(cmd)
  PROVE  /\ events' \in Seq(Events) /\ 1 \in 1 .. Len(events)
         /\ Head(events) = events[1] /\ events[1] \in Events /\ events[1].cmd = cmd
         /\ \A i \in 1 .. Len(events') :
              i + 1 \in 1 .. Len(events) /\ i + 1 # 1 /\ events'[i] = events[i + 1]
         /\ \A i, j \in 1 .. Len(events') : i + 1 = j + 1 => i = j
<1>1. events \in Seq(Events) /\ events # <<>> /\ events' = Tail(events) /\ Head(events).cmd = cmd
  BY DEF RunnerTypes, Handling
<1> QED
  BY <1>1, TailAt, SMTT(90)

LEMMA StartWorkerStep ==
  ASSUME Claims, StartWorker
  PROVE  Claims'
<1>1. PICK id : id = Head(events).id
  OBVIOUS
<1>2. /\ events' \in Seq(Events) /\ 1 \in 1 .. Len(events)
      /\ Head(events) = events[1] /\ events[1] \in Events /\ events[1].cmd = "create"
      /\ \A i \in 1 .. Len(events') :
           i + 1 \in 1 .. Len(events) /\ i + 1 # 1 /\ events'[i] = events[i + 1]
      /\ \A i, j \in 1 .. Len(events') : i + 1 = j + 1 => i = j
  BY HandledOne DEF StartWorker, Claims
<1>3. id \in Creates /\ events[1] = Creation(id) /\ Waits(id)
  BY <1>1, <1>2 DEF Events, Creation, Waits
<1>4. /\ started' = [started EXCEPT ![id] = @ + 1]
      /\ UNCHANGED <<plan, create, runner, seen>>
  BY <1>1 DEF StartWorker
<1>5. /\ started' \in [Creates -> Nat] /\ started'[id] = started[id] + 1
      /\ \A x \in Creates \ {id} : started'[x] = started[x]
  BY <1>3, <1>4, SMTT(90) DEF Claims, RunnerTypes
<1>6. RunnerTypes'
  BY <1>2, <1>4, <1>5 DEF Claims, RunnerTypes, Events, Creates
<1>7. ASSUME NEW x \in Creates, Single(x) PROVE Single(x)'
  <2>1. Waits(x)' => Waits(x)
    BY <1>2 DEF Waits, Creation
  <2>2. \A i, j \in 1 .. Len(events') :
          events'[i] = Creation(x) /\ events'[j] = Creation(x) => i = j
    <3> TAKE i, j \in 1 .. Len(events')
    <3> HAVE events'[i] = Creation(x) /\ events'[j] = Creation(x)
    <3>1. i + 1 = j + 1
      BY <1>2, <1>7, SMTT(90) DEF Single
    <3> QED
      BY <1>2, <3>1
  <2>3. CASE x = id
    <3>1. \A i \in 1 .. Len(events') : events'[i] # Creation(id)
      BY <1>2, <1>3, <1>7, <2>3 DEF Single
    <3>2. ~ Waits(id)'
      BY <3>1 DEF Waits, Creation
    <3> QED
      BY <1>3, <1>4, <1>5, <1>7, <2>2, <2>3, <3>2, SMTT(90) DEF Single, Creation
  <2>4. CASE x # id
    BY <1>4, <1>5, <1>7, <2>1, <2>2, <2>4 DEF Single, Creation
  <2> QED
    BY <2>3, <2>4
<1>8. \A x \in Creates : Apt(x)' => Apt(x)
  BY <1>4 DEF Apt
<1> QED
  BY <1>4, <1>6, <1>7, <1>8, ClaimsRunner

LEMMA DestroyWorkerStep ==
  ASSUME Claims, DestroyWorker
  PROVE  Claims'
<1>1. PICK id : id = Head(events).id
  OBVIOUS
<1>2. /\ events' \in Seq(Events) /\ 1 \in 1 .. Len(events)
      /\ Head(events) = events[1] /\ events[1] \in Events
      /\ \A i \in 1 .. Len(events') :
           i + 1 \in 1 .. Len(events) /\ i + 1 # 1 /\ events'[i] = events[i + 1]
      /\ \A i, j \in 1 .. Len(events') : i + 1 = j + 1 => i = j
  BY HandledOne DEF DestroyWorker, Claims
<1>3. id \in Creates
  BY <1>1, <1>2 DEF Events
<1>4. /\ UNCHANGED started \/ (started[id] > 0 /\ started' = [started EXCEPT ![id] = @ - 1])
      /\ UNCHANGED <<plan, create, runner, seen>>
  BY <1>1 DEF DestroyWorker
<1>5. /\ started' \in [Creates -> Nat]
      /\ \A x \in Creates : started'[x] <= started[x]
  BY <1>3, <1>4, SMTT(90) DEF Claims, RunnerTypes
<1>6. RunnerTypes'
  BY <1>2, <1>4, <1>5 DEF Claims, RunnerTypes, Events, Creates
<1>7. ASSUME NEW x \in Creates, Single(x) PROVE Single(x)'
  <2>1. Waits(x)' => Waits(x)
    BY <1>2 DEF Waits, Creation
  <2>2. \A i, j \in 1 .. Len(events') :
          events'[i] = Creation(x) /\ events'[j] = Creation(x) => i = j
    <3> TAKE i, j \in 1 .. Len(events')
    <3> HAVE events'[i] = Creation(x) /\ events'[j] = Creation(x)
    <3>1. i + 1 = j + 1
      BY <1>2, <1>7 DEF Single
    <3> QED
      BY <1>2, <3>1
  <2>3. started'[x] \in Nat /\ started[x] \in Nat
    BY <1>5 DEF Claims, RunnerTypes
  <2> QED
    BY <1>4, <1>5, <1>7, <2>1, <2>2, <2>3, SMTT(90) DEF Single, Creation
<1>8. \A x \in Creates : Apt(x)' => Apt(x)
  BY <1>4 DEF Apt
<1> QED
  BY <1>4, <1>6, <1>7, <1>8, ClaimsRunner

\* A request goes on before it announces anything.
LEMMA RequestStep ==
  ASSUME Inv, Claims, NEW h \in Creates, \/ CheckWorkflow(h) \/ CheckExist(h)
                                         \/ InsertAndSelect(h) \/ Commit(h) \/ ReadBack(h)
  PROVE  Claims'
<1>1. create \in [Creates -> [at : Stages, wid : Creates \union {None}]]
  BY DEF Inv, Types
<1>2. /\ UNCHANGED <<plan, runner, events, started>>
      /\ create[h].at # "done" /\ \A i \in Creates \ {h} : create'[i] = create[i]
  BY <1>1 DEF CheckWorkflow, CheckExist, InsertAndSelect, Commit, ReadBack, At, running
<1>3. /\ "overlap" \in DOMAIN seen' /\ seen'.overlap = seen.overlap
      /\ seen.raced \subseteq seen'.raced
  BY DEF CheckWorkflow, CheckExist, InsertAndSelect, Commit, ReadBack, Claims, RunnerTypes, Inv, Types
<1>4. create'[h].at \in {"commit", "detail", "publish"} =>
        create'[h].wid \in Creates /\ (create'[h].wid = h \/ {h, create'[h].wid} \subseteq seen'.raced)
  <2>1. CASE CheckWorkflow(h) \/ CheckExist(h)
    BY <1>1, <2>1 DEF CheckWorkflow, CheckExist, At
  <2>2. CASE InsertAndSelect(h)
    <3>1. Inv'
      BY <2>2, InsertStep
    <3>2. create'[h].at = "commit" /\ Creates' = Creates
      BY <1>1, <1>2, <2>2, SMTT(90) DEF InsertAndSelect, Creates
    <3> QED
      BY <3>1, <3>2 DEF Inv, Borrowed
  <2>3. CASE Commit(h) \/ ReadBack(h)
    <3>1. create[h].at \in {"commit", "detail"} /\ create'[h].wid = create[h].wid
      BY <1>1, <2>3 DEF Commit, ReadBack, At
    <3> QED
      BY <1>3, <3>1 DEF Claims, Own
  <2> QED
    BY <2>1, <2>2, <2>3
<1>5. Creates' = Creates
  BY <1>2 DEF Creates
<1>6. Own'
  <2> SUFFICES ASSUME NEW i \in Creates, create'[i].at \in {"commit", "detail", "publish"}
               PROVE  /\ create'[i].wid \in Creates
                      /\ create'[i].wid = i \/ {i, create'[i].wid} \subseteq seen'.raced
    BY <1>5 DEF Own
  <2>1. CASE i = h
    BY <1>4, <2>1
  <2>2. CASE i # h
    BY <1>2, <1>3, <2>2 DEF Claims, Own
  <2> QED
    BY <2>1, <2>2
<1> QED
  BY <1>2, <1>3, <1>6, ClaimsRequests

LEMMA ClaimsStep == Inv /\ Claims /\ [Next]_vars => Claims'
<1> SUFFICES ASSUME Inv, Claims, [Next]_vars PROVE Claims'
  OBVIOUS
<1>t. "overlap" \in DOMAIN seen /\ "raced" \in DOMAIN seen
  BY DEF Claims, RunnerTypes, Inv, Types
<1>1. ASSUME NEW h \in Creates, \/ CheckWorkflow(h) \/ CheckExist(h) \/ InsertAndSelect(h)
                                \/ Commit(h) \/ ReadBack(h)
      PROVE  Claims'
  BY <1>1, RequestStep
<1>2. ASSUME NEW h \in Creates, PublishCreate(h) PROVE Claims'
  BY <1>2, PublishCreateStep
<1>3. ASSUME NEW h \in Creates, DropWorkflow(h) PROVE Claims'
  BY <1>3, DropStep
<1>4. ASSUME NEW h \in Creates, LoadWorkflow(h) PROVE Claims'
  BY <1>4, LoadWorkflowStep
<1>5. ASSUME UNCHANGED <<plan, create, runner, events, started>>, seen'.raced = seen.raced,
             seen'.overlap = seen.overlap, "overlap" \in DOMAIN seen'
      PROVE  Claims'
  <2>1. Own'
    BY <1>5 DEF Claims, Own, Creates
  <2> QED
    BY <1>5, <2>1, ClaimsRequests
<1>6. ASSUME NEW c, DeleteChannels(c) \/ CreateClient(c) PROVE Claims'
  <2>1. /\ UNCHANGED <<plan, create, runner, events, started>> /\ seen'.raced = seen.raced
        /\ seen'.overlap = seen.overlap /\ "overlap" \in DOMAIN seen'
    BY <1>6, <1>t DEF DeleteChannels, CreateClient, SeenInsert, running
  <2> QED
    BY <2>1, <1>5
<1>7. ASSUME NEW l \in Logins, \/ SelectClient(l) \/ InsertClient(l) \/ UpdateClient(l)
                               \/ SendToken(l) \/ Compare(l) \/ AuthTimeout(l)
      PROVE  Claims'
  <2>1. /\ UNCHANGED <<plan, create, runner, events, started>> /\ seen'.raced = seen.raced
        /\ seen'.overlap = seen.overlap /\ "overlap" \in DOMAIN seen'
    BY <1>7, <1>t DEF SelectClient, InsertClient, UpdateClient, SendToken, Compare,
                       AuthTimeout, SeenInsert, running
  <2> QED
    BY <2>1, <1>5
<1>8. CASE PublishToken \/ Answer
  <2>1. /\ UNCHANGED <<plan, create, runner, events, started>> /\ seen'.raced = seen.raced
        /\ seen'.overlap = seen.overlap /\ "overlap" \in DOMAIN seen'
    BY <1>8, <1>t DEF PublishToken, Answer, running
  <2> QED
    BY <2>1, <1>5
<1>9. CASE listenMB \/ Loaded \/ StartRunner
  <2>1. /\ UNCHANGED <<plan, create, events, started, seen>>
        /\ RunnerTypes' /\ runner'.ids \subseteq runner.ids
    BY <1>9 DEF listenMB, Loaded, StartRunner, Claims, RunnerTypes, Events, Creates
  <2> QED
    BY <2>1, RunnerOnlyStep
<1>10. CASE GetWorkflows
  BY <1>10, GetWorkflowsStep
<1>11. CASE StartWorker
  BY <1>11, StartWorkerStep
<1>12. CASE DestroyWorker
  BY <1>12, DestroyWorkerStep
<1>13. CASE CrashRunner
  BY <1>13, ResetStep DEF CrashRunner
<1>14. CASE CrashHttp
  <2>1. create' = [h \in Creates |-> [create[h] EXCEPT !.at = "done"]]
    BY <1>14 DEF CrashHttp
  <2>2. \A h \in Creates : create'[h].at = "done"
    BY <2>1 DEF Inv, Types
  <2>3. /\ UNCHANGED <<plan, runner, events, started>>
        /\ seen'.raced = seen.raced /\ seen'.overlap = seen.overlap /\ "overlap" \in DOMAIN seen'
    BY <1>14, <1>t DEF CrashHttp, running
  <2>4. Own'
    BY <2>2, <2>3 DEF Own, Creates
  <2> QED
    BY <2>2, <2>3, <2>4, ClaimsRequests
<1>15. CASE UNCHANGED vars
  BY <1>15, <1>t, <1>5 DEF vars
<1> QED
  BY <1>1, <1>2, <1>3, <1>4, <1>6, <1>7, <1>8, <1>9, <1>10, <1>11, <1>12, <1>13, <1>14, <1>15
     DEF Next

\* A workflow has one worker, unless the runner read the table while its
\* creation was still to be announced or its requests raced (startInitWorkflow,
\* listenMB, execute), however often the runner is started or dies.
THEOREM WorkersAreSingle == Spec => []OneWorker
<1>1. Spec => []Inv
  BY InvHoldsFirst, NextStep, PTL DEF Spec
<1>2. Init /\ [][Next]_vars /\ []Inv => []Claims
  BY ClaimsHoldsFirst, ClaimsStep, PTL
<1> QED
  BY <1>1, <1>2, ClaimsIsOne, PTL DEF Spec
============================================================================
