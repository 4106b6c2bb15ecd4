---------------------------- MODULE MCHttpServer ----------------------------
(***************************************************************************)
(* Two users; workflows of one user with a task on client "c" and a broker *)
(* that listens to channel "ch".                                           *)
(***************************************************************************)
EXTENDS HttpServer

Wf(name, client, channel) ==
  [user |-> 1, name |-> name, client |-> client, channel |-> channel]
Client(user, name) == [user |-> user, name |-> name]
Daemon(user, name, key) == [user |-> user, name |-> name, key |-> key]

Quiet ==
  [creates |-> <<>>, clients |-> {Client(1, "c")}, channels |-> {<<1, "ch">>},
   drops |-> {}, logins |-> <<>>, registers |-> {}, deletes |-> {},
   starts |-> 1, crashes |-> 0, httpCrashes |-> 0]

Scenarios == {
  \* Two requests for one name, one of them dropped again.
  [Quiet EXCEPT !.creates = <<Wf("w", "c", ""), Wf("w", "c", "ch")>>,
                !.drops = {1}],
  \* Two workflows, a runner and an HTTP server that die.
  [Quiet EXCEPT !.creates = <<Wf("v", "c", ""), Wf("w", "", "ch")>>,
                !.drops = {2}, !.starts = 2, !.crashes = 1, !.httpCrashes = 1],
  \* Another user's daemon logs in under the client's name.
  [Quiet EXCEPT !.creates = <<Wf("v", "c", ""), Wf("w", "d", "")>>,
                !.logins = <<Daemon(2, "c", TRUE)>>, !.starts = 2],
  \* The same user registers it twice; a channel is deleted.
  [Quiet EXCEPT !.creates = <<Wf("v", "c", ""), Wf("w", "", "ch")>>,
                !.registers = {Client(1, "c")}, !.deletes = {<<1, "ch">>}],
  \* Daemons that log in at once, with one new name and with two.
  [Quiet EXCEPT !.creates = <<Wf("v", "d", "")>>,
                !.logins = <<Daemon(1, "d", FALSE), Daemon(1, "d", FALSE)>>],
  [Quiet EXCEPT !.logins = <<Daemon(1, "c", FALSE), Daemon(1, "d", FALSE),
                             Daemon(2, "e", FALSE)>>, !.starts = 0,
                !.httpCrashes = 1]}
====
