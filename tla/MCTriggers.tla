----------------------------- MODULE MCTriggers -----------------------------
(***************************************************************************)
(* Two workflows of one user with a broker each and a channel they share.  *)
(***************************************************************************)
EXTENDS Triggers

W == {1, 2}
Broker(w, s) == [wf |-> w, kind |-> "broker", id |-> w, schedule |-> s]
Channel(w, s) == [wf |-> w, kind |-> "channel", id |-> 9, schedule |-> s]
Task(w, s) == [wf |-> w, kind |-> "task", id |-> w, schedule |-> s]
Plan(ts, del, silent, stops, crashes) ==
  [trigger |-> ts, deleted |-> del, silent |-> silent, stops |-> stops,
   crashes |-> crashes]

Scenarios == {
  \* Two triggers of one broker, one deleted, and a Destroy.
  Plan(<<Broker(1, "good"), Broker(1, "good")>>, {1}, {}, 1, 0),
  \* The runner restarts; a trigger may come before the points are set.
  Plan(<<Broker(1, "good"), Broker(1, "")>>, {1}, {}, 0, 1),
  \* The channel of two workflows, both triggers deleted.
  Plan(<<Channel(1, "good"), Channel(2, "good")>>, {1, 2}, {}, 0, 0),
  \* A Destroy of one workflow, and triggers of the other.
  Plan(<<Broker(1, "good"), Channel(2, "good")>>, {}, {}, 2, 0),
  \* One loop for two schedules.
  Plan(<<Broker(1, "good"), Channel(1, "good")>>, {}, {}, 0, 0),
  \* A broker that never answers, run by a schedule or at once.
  Plan(<<Broker(1, "good"), Channel(1, "good")>>, {1}, {1}, 0, 0),
  Plan(<<Broker(1, ""), Channel(1, "good")>>, {2}, {1}, 0, 0),
  \* A schedule nobody can parse, and tasks.
  Plan(<<Broker(1, "bad"), Task(1, "good"), Task(1, "")>>, {2}, {}, 0, 0)}

====
