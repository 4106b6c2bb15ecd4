---------------------------- MODULE ChannelRegistry ----------------------------
(***************************************************************************)
(* What the node of the deliverer promises about channels (node.go,        *)
(* addSubscription and removeSubscription): as long as a channel has a     *)
(* subscriber the node takes its publications from the broker, and some    *)
(* time after the last one has left it stops.                              *)
(***************************************************************************)
CONSTANTS Clients, Names

VARIABLES
    members,    \* <<channel, client>>: who is subscribed
    interest    \* the channels the node is subscribed to on the broker

vars == <<members, interest>>

Init == members = {} /\ interest = {}

Join(n, c) == members' = members \cup {<<n, c>>} /\ interest' = interest \cup {n}

Leave(n, c) == members' = members \ {<<n, c>>} /\ UNCHANGED interest

Drop(n) ==
    /\ n \in interest
    /\ \A c \in Clients : <<n, c>> \notin members
    /\ interest' = interest \ {n}
    /\ UNCHANGED members

Next == \E n \in Names : Drop(n) \/ \E c \in Clients : Join(n, c) \/ Leave(n, c)

Fairness == \A n \in Names : WF_vars(Drop(n))

Spec == Init /\ [][Next]_vars
FairSpec == Spec /\ Fairness
====
