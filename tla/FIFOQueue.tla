------------------------------- MODULE FIFOQueue -------------------------------
(***************************************************************************)
(* What the queues of the deliverer promise (internal/queue and            *)
(* internal/dissolve): an unbounded first-in first-out queue that can be   *)
(* closed once, after which it is empty and takes nothing more.            *)
(***************************************************************************)
EXTENDS Naturals, Sequences

CONSTANTS
    Item,      \* the values that are queued
    MaxLen     \* bound of the model on the number of queued values

VARIABLES
    items,     \* the queued values, oldest first
    closed,    \* has the queue been closed
    ok,        \* the Boolean result of the last operation
    out        \* the values the last operation handed out

vars == <<items, closed, ok, out>>

Init == items = <<>> /\ closed = FALSE /\ ok = TRUE /\ out = <<>>

Add(i) ==
    /\ Len(items) < MaxLen
    /\ items' = IF closed THEN items ELSE Append(items, i)
    /\ ok' = ~closed
    /\ out' = <<>>
    /\ UNCHANGED closed

Remove ==
    /\ \/ items = <<>> /\ ok' = FALSE /\ out' = <<>> /\ UNCHANGED items
       \/ items # <<>> /\ ok' = TRUE /\ out' = <<Head(items)>> /\ items' = Tail(items)
    /\ UNCHANGED closed

Close ==
    /\ items' = <<>>
    /\ closed' = TRUE
    /\ ok' = TRUE
    /\ out' = <<>>

CloseRemaining ==
    /\ items' = <<>>
    /\ closed' = TRUE
    /\ ok' = TRUE
    /\ out' = items

Next == (\E i \in Item : Add(i)) \/ Remove \/ Close \/ CloseRemaining

Spec == Init /\ [][Next]_vars
====
