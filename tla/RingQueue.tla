------------------------------- MODULE RingQueue -------------------------------
(***************************************************************************)
(* The ring buffer behind the per-connection write queue of the deliverer  *)
(* (src/server/deliverer/internal/queue/queue.go).  The buffer doubles     *)
(* when it is full and halves when it is at most half full.  Every         *)
(* operation runs under the queue's mutex and is one step here.  The job   *)
(* queue of internal/dissolve is the same code without size and            *)
(* CloseRemaining.                                                         *)
(*                                                                         *)
(* A Go slice expression that is out of range panics: `panicked` records   *)
(* that resize was entered in a state where it would.                      *)
(***************************************************************************)
EXTENDS Integers, Sequences

CONSTANTS
    Item,       \* the values that are queued
    NoItem,     \* the zero Item of a fresh slot
    Weight,     \* len(i.Data)
    initCap,    \* the initial capacity, at least 1 (newWriter turns 0 into 2)
    MaxLen      \* bound of the model on the number of queued values

ASSUME initCapAssumption == initCap \in Nat \ {0}
ASSUME MaxLenAssumption == MaxLen \in Nat
ASSUME WeightAssumption == Weight \in [Item -> Nat]
ASSUME NoItemAssumption == NoItem \notin Item

VARIABLES
    nodes,      \* the slots, a function on 0..cap-1
    cap,        \* len(nodes)
    head, tail, cnt, size, closed,
    ok, out,    \* the results of the last operation
    panicked    \* did a slice expression go out of range

vars == <<nodes, cap, head, tail, cnt, size, closed, ok, out, panicked>>

Empty(n) == [i \in 0..n-1 |-> NoItem]

Init ==
    /\ nodes = Empty(initCap)
    /\ cap = initCap
    /\ head = 0 /\ tail = 0 /\ cnt = 0 /\ size = 0
    /\ closed = FALSE
    /\ ok = TRUE /\ out = <<>>
    /\ panicked = FALSE

-----------------------------------------------------------------------------
(* The slot after slot i.                                                  *)
Succ(i) == (i + 1) % cap

(* A mutant of Resized: the tail of a wrapped ring copied in front of its  *)
(* head.                                                                   *)
Resized_tailFirst(h, n) ==
    [i \in 0..n-1 |->
        IF h < tail
        THEN IF i < tail - h THEN nodes[h + i] ELSE NoItem
        ELSE IF i < tail THEN nodes[i]
        ELSE IF i - tail < cap - h THEN nodes[h + i - tail]
        ELSE NoItem]

(* resize(n) with head at h: the slots from h to tail, in order, at the    *)
(* front of n fresh ones.                                                  *)
Resized(h, n) ==
    [i \in 0..n-1 |->
        IF h < tail
        THEN IF i < tail - h THEN nodes[h + i] ELSE NoItem
        ELSE IF i < cap - h THEN nodes[h + i]
        ELSE IF i - (cap - h) < tail THEN nodes[i - (cap - h)]
        ELSE NoItem]

(* nodes[len(q.nodes)-q.head:] needs cap - h <= n.                         *)
ResizePanics(h, n) == ~(h < tail) /\ cap - h > n

Put(slots, n, at, i) ==
    /\ nodes' = [slots EXCEPT ![at] = i]
    /\ cap' = n
    /\ tail' = (at + 1) % n

Add(i) ==
    /\ cnt < MaxLen
    /\ ok' = ~closed
    /\ out' = <<>>
    /\ IF closed
       THEN UNCHANGED <<nodes, cap, head, tail, cnt, size, panicked>>
       ELSE /\ IF cnt = cap
               THEN /\ Put(Resized(head, cnt * 2), cnt * 2, cnt % (cnt * 2), i)
                    /\ head' = 0
                    /\ panicked' = (panicked \/ ResizePanics(head, cnt * 2))
               ELSE Put(nodes, cap, tail, i) /\ UNCHANGED <<head, panicked>>
            /\ size' = size + Weight[i]
            /\ cnt' = cnt + 1
    /\ UNCHANGED closed

(* The buffer is halved when that leaves room for everything queued.       *)
Shrinks(c, n) == n >= initCap /\ c <= n

Remove ==
    /\ IF cnt = 0
       THEN ok' = FALSE /\ out' = <<>>
            /\ UNCHANGED <<nodes, cap, head, tail, cnt, size, panicked>>
       ELSE LET n == cap \div 2 IN
            /\ ok' = TRUE /\ out' = <<nodes[head]>>
            /\ cnt' = cnt - 1
            /\ size' = size - Weight[nodes[head]]
            /\ IF Shrinks(cnt - 1, n)
               THEN /\ nodes' = Resized(Succ(head), n)
                    /\ cap' = n
                    /\ tail' = (cnt - 1) % n
                    /\ head' = 0
                    /\ panicked' = (panicked \/ ResizePanics(Succ(head), n))
               ELSE head' = Succ(head) /\ UNCHANGED <<nodes, cap, tail, panicked>>
    /\ UNCHANGED closed

(* What Close and CloseRemaining leave behind: nodes is nil.               *)
Discard ==
    /\ closed' = TRUE
    /\ cnt' = 0 /\ size' = 0
    /\ nodes' = Empty(0) /\ cap' = 0
    /\ ok' = TRUE
    /\ UNCHANGED <<tail, panicked>>

Close == Discard /\ out' = <<>> /\ UNCHANGED head

(* CloseRemaining walks the ring from head, cnt times.                     *)
Contents == [i \in 1..cnt |-> nodes[(head + i - 1) % cap]]

CloseRemaining ==
    /\ out' = Contents
    /\ IF closed
       THEN ok' = TRUE /\ UNCHANGED <<nodes, cap, head, tail, cnt, size, closed, panicked>>
       ELSE Discard /\ head' = (head + cnt) % cap

Next == (\E i \in Item : Add(i)) \/ Remove \/ Close \/ CloseRemaining

Spec == Init /\ [][Next]_vars

-----------------------------------------------------------------------------
(* The ring buffer is well formed: nodes has exactly the cap slots that    *)
(* resize allocated, and what Remove returns comes from them.              *)
TypeOK ==
    /\ cap \in Nat /\ head \in Nat /\ tail \in Nat /\ cnt \in Nat /\ size \in Int
    /\ nodes \in [0..cap-1 -> Item \cup {NoItem}]
    /\ closed \in BOOLEAN /\ ok \in BOOLEAN /\ panicked \in BOOLEAN
    /\ out \in Seq(Item \cup {NoItem})

(* The slot of the k-th queued value when the ring starts at slot h.        *)
At(h, k, n) == IF h + k < n THEN h + k ELSE h + k - n

(* The ring is in order: the queued values occupy the cnt slots from head  *)
(* up to tail, and a buffer that could be halved is more than half full,   *)
(* so that Remove halves it exactly when it is full afterwards.            *)
RingOrder ==
    /\ cnt <= cap
    /\ closed => cnt = 0
    /\ ~closed => /\ head < cap
                  /\ tail = At(head, cnt, cap)
                  /\ cap \div 2 >= initCap => cnt > cap \div 2
    /\ \A k \in 0..cnt-1 : nodes[At(head, k, cap)] \in Item

(* resize never takes a slice out of range and never divides by zero.      *)
NeverPanics == ~panicked

(* The ring buffer implements the queue of FIFOQueue: every operation      *)
(* returns what the first-in first-out queue would return.                 *)
FIFO == INSTANCE FIFOQueue WITH items <- Contents
ImplementsFIFO == FIFO!Spec
====
