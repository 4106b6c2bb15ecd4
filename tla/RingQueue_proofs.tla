---------------------------- MODULE RingQueue_proofs ----------------------------
(***************************************************************************)
(* Proofs about RingQueue: for every initial capacity, every set of items  *)
(* and any number of queued values, the slice arithmetic of resize stays   *)
(* in range and the ring buffer implements the first-in first-out queue.   *)
(***************************************************************************)
EXTENDS RingQueue, SequenceTheorems, TLAPS

(* Zenon proves what no other prover is named for.                         *)
USE ZenonT(90)

LEMMA ModSmall == ASSUME NEW m \in Nat, NEW n \in Nat \ {0}, m < n
                  PROVE  m % n = m
  BY SMTT(90)

LEMMA ModWrap == ASSUME NEW m \in Nat, NEW n \in Nat \ {0}, n <= m, m < 2 * n
                 PROVE  m % n = m - n
  BY SMTT(90)

LEMMA Half == ASSUME NEW n \in Nat
              PROVE  n \div 2 \in Nat /\ 2 * (n \div 2) <= n /\ n <= 2 * (n \div 2) + 1
  BY SMTT(90)

(* The slots the code computes with % are those of At.                     *)
LEMMA ModAt ==
    ASSUME NEW n \in Nat \ {0}, NEW h \in 0..n-1, NEW k \in 0..n
    PROVE  (h + k) % n = At(h, k, n) /\ At(h, k, n) \in 0..n-1
<1>1. CASE h + k < n
  BY <1>1, ModSmall, SMTT(90) DEF At
<1>2. CASE h + k >= n
  BY <1>2, ModWrap, SMTT(90) DEF At
<1> QED
  BY <1>1, <1>2, SMTT(90)

(***************************************************************************)
(* resize(n) with head at h, when the c >= 1 values from h up to tail fit  *)
(* into n slots: it does not panic and puts them in order at the front.    *)
(***************************************************************************)
LEMMA ResizeKeeps ==
    ASSUME TypeOK, NEW h \in 0..cap-1, NEW c \in 1..cap, NEW n \in Nat,
           c <= n, tail = At(h, c, cap)
    PROVE  /\ ~ResizePanics(h, n)
           /\ Resized(h, n) \in [0..n-1 -> Item \cup {NoItem}]
           /\ \A k \in 0..c-1 : Resized(h, n)[k] = nodes[At(h, k, cap)]
<1>1. /\ cap \in Nat /\ tail \in Nat /\ nodes \in [0..cap-1 -> Item \cup {NoItem}]
      /\ h \in Nat /\ h < cap /\ c \in Nat /\ 1 <= c /\ c <= cap
  BY SMTT(90) DEF TypeOK
<1>2. h < tail => tail = h + c /\ h + c < cap
  BY <1>1, SMTT(90) DEF At
<1>3. ~(h < tail) => tail = h + c - cap /\ h + c >= cap
  BY <1>1, SMTT(90) DEF At
<1>4. ~ResizePanics(h, n)
  BY <1>1, <1>3, SMTT(90) DEF ResizePanics
<1>5. Resized(h, n) \in [0..n-1 -> Item \cup {NoItem}]
  <2> SUFFICES ASSUME NEW i \in 0..n-1
               PROVE  (IF h < tail
                       THEN IF i < tail - h THEN nodes[h + i] ELSE NoItem
                       ELSE IF i < cap - h THEN nodes[h + i]
                       ELSE IF i - (cap - h) < tail THEN nodes[i - (cap - h)]
                       ELSE NoItem) \in Item \cup {NoItem}
    BY DEF Resized
  <2>1. CASE h < tail
    BY <1>1, <1>2, <2>1, SMTT(90)
  <2>2. CASE ~(h < tail)
    <3>1. CASE i < cap - h
      <4>1. h + i \in 0..cap-1
        BY <1>1, <3>1, SMTT(90)
      <4> QED
        BY <1>1, <2>2, <3>1, <4>1
    <3>2. CASE ~(i < cap - h) /\ i - (cap - h) < tail
      <4>1. i - (cap - h) \in 0..cap-1
        BY <1>1, <1>3, <2>2, <3>2, SMTT(90)
      <4> QED
        BY <1>1, <2>2, <3>2, <4>1
    <3> QED
      BY <2>2, <3>1, <3>2
  <2> QED
    BY <2>1, <2>2
<1>6. ASSUME NEW k \in 0..c-1 PROVE Resized(h, n)[k] = nodes[At(h, k, cap)]
  <2>1. k \in 0..n-1
    BY <1>1, SMTT(90)
  <2>2. CASE h < tail
    BY <1>1, <1>2, <2>1, <2>2, SMTT(90) DEF Resized, At
  <2>3. CASE ~(h < tail) /\ k < cap - h
    BY <1>1, <2>1, <2>3, SMTT(90) DEF Resized, At
  <2>4. CASE ~(h < tail) /\ ~(k < cap - h)
    <3>1. k - (cap - h) < tail /\ At(h, k, cap) = k - (cap - h)
      BY <1>1, <1>3, <2>4, SMTT(90) DEF At
    <3> QED
      BY <2>1, <2>4, <3>1 DEF Resized
  <2> QED
    BY <2>2, <2>3, <2>4
<1> QED
  BY <1>4, <1>5, <1>6

-----------------------------------------------------------------------------
Inv == TypeOK /\ RingOrder /\ NeverPanics

(* The ring invariant, for an open queue, in terms of linear arithmetic.   *)
LEMMA OpenRing ==
    ASSUME Inv, ~closed
    PROVE  /\ cap \in Nat \ {0} /\ head \in 0..cap-1 /\ tail \in Nat /\ cnt \in 0..cap
           /\ nodes \in [0..cap-1 -> Item \cup {NoItem}]
           /\ tail = At(head, cnt, cap) /\ tail < cap
           /\ cap \div 2 >= initCap => cnt > cap \div 2
           /\ \A k \in 0..cnt-1 : nodes[At(head, k, cap)] \in Item
  BY SMTT(90) DEF Inv, TypeOK, RingOrder, At

(* What Add does to an open queue: the value goes behind those queued.     *)
LEMMA AddSlots ==
    ASSUME Inv, ~closed, NEW i \in Item, Add(i)
    PROVE  /\ cnt' = cnt + 1 /\ ~closed' /\ ~panicked'
           /\ cap' \in Nat \ {0} /\ head' \in 0..cap'-1 /\ tail' \in Nat /\ cnt' <= cap'
           /\ nodes' \in [0..cap'-1 -> Item \cup {NoItem}]
           /\ tail' = At(head', cnt', cap')
           /\ cap' \div 2 >= initCap => cnt' > cap' \div 2
           /\ \A k \in 0..cnt-1 : nodes'[At(head', k, cap')] = nodes[At(head, k, cap)]
           /\ nodes'[At(head', cnt, cap')] = i
<1>0. /\ cap \in Nat \ {0} /\ head \in 0..cap-1 /\ tail \in Nat /\ cnt \in 0..cap
      /\ nodes \in [0..cap-1 -> Item \cup {NoItem}]
      /\ tail = At(head, cnt, cap) /\ tail < cap
      /\ cap \div 2 >= initCap => cnt > cap \div 2
      /\ ~panicked /\ ~closed' /\ cnt' = cnt + 1
  BY OpenRing DEF Inv, NeverPanics, Add
<1>1. CASE cnt = cap
  <2> DEFINE n == cnt * 2
             slots == Resized(head, n)
  <2>1. /\ n \in Nat \ {0} /\ cnt < n /\ cnt \in 1..cap /\ n = 2 * cap
    BY <1>0, <1>1, SMTT(90)
  <2>2. /\ nodes' = [slots EXCEPT ![cnt % n] = i] /\ cap' = n
        /\ tail' = ((cnt % n) + 1) % n /\ head' = 0
        /\ panicked' = (panicked \/ ResizePanics(head, n))
    BY <1>1 DEF Add, Put
  <2>3. cnt % n = cnt
    BY <2>1, ModSmall, SMTT(90)
  <2>4. /\ ~ResizePanics(head, n) /\ slots \in [0..n-1 -> Item \cup {NoItem}]
        /\ \A k \in 0..cnt-1 : slots[k] = nodes[At(head, k, cap)]
    BY <1>0, <2>1, ResizeKeeps, SMTT(90) DEF Inv
  <2> HIDE DEF n, slots
  <2>5. tail' = At(0, cnt + 1, n)
    <3>1. cnt + 1 \in 0..n /\ 0 \in 0..n-1
      BY <2>1, SMTT(90)
    <3>2. (0 + (cnt + 1)) % n = At(0, cnt + 1, n)
      BY <2>1, <3>1, ModAt
    <3> QED
      BY <2>1, <2>2, <2>3, <3>2, SMTT(90)
  <2>6. /\ nodes' \in [0..n-1 -> Item \cup {NoItem}] /\ nodes'[cnt] = i
        /\ \A k \in 0..cnt-1 : nodes'[k] = slots[k]
    BY <1>0, <2>1, <2>2, <2>3, <2>4, SMTT(90)
  <2>7. \A k \in 0..cnt : At(0, k, n) = k
    BY <2>1, SMTT(90) DEF At
  <2>8. n \div 2 = cnt
    BY <1>1, <2>1, Half, SMTT(90)
  <2>9. \A k \in 0..cnt-1 : nodes'[At(head', k, cap')] = nodes[At(head, k, cap)]
    <3> SUFFICES ASSUME NEW k \in 0..cnt-1
                 PROVE  nodes'[At(head', k, cap')] = nodes[At(head, k, cap)]
      OBVIOUS
    <3>1. k \in 0..cnt
      BY <2>1, SMTT(90)
    <3> QED
      BY <2>2, <2>4, <2>6, <2>7, <3>1
  <2>10. nodes'[At(head', cnt, cap')] = i
    <3>1. cnt \in 0..cnt
      BY <2>1, SMTT(90)
    <3> QED
      BY <2>2, <2>6, <2>7, <3>1
  <2>11. /\ cap' \in Nat \ {0} /\ head' \in 0..cap'-1 /\ tail' \in Nat /\ cnt' <= cap'
         /\ cap' \div 2 >= initCap => cnt' > cap' \div 2
         /\ tail' = At(head', cnt', cap')
    <3>1. At(0, cnt + 1, n) \in Nat
      BY <2>1, SMTT(90) DEF At
    <3> QED
      BY <1>0, <2>1, <2>2, <2>5, <2>8, <3>1, SMTT(90)
  <2> QED
    BY <1>0, <2>2, <2>4, <2>6, <2>9, <2>10, <2>11
<1>2. CASE cnt # cap
  <2>1. /\ nodes' = [nodes EXCEPT ![tail] = i] /\ cap' = cap /\ tail' = (tail + 1) % cap
        /\ head' = head /\ panicked' = panicked
    BY <1>0, <1>2 DEF Add, Put
  <2>2. /\ nodes' \in [0..cap-1 -> Item \cup {NoItem}] /\ nodes'[At(head, cnt, cap)] = i
    BY <1>0, <2>1, SMTT(90)
  <2>3. ASSUME NEW k \in 0..cnt-1 PROVE nodes'[At(head, k, cap)] = nodes[At(head, k, cap)]
    <3>1. At(head, k, cap) # tail /\ At(head, k, cap) \in 0..cap-1
      BY <1>0, <1>2, SMTT(90) DEF At
    <3> QED
      BY <1>0, <2>1, <3>1
  <2>4. tail' = At(head, cnt + 1, cap)
    <3>0. tail \in 0..cap-1 /\ 1 \in 0..cap
      BY <1>0, SMTT(90)
    <3>1. (tail + 1) % cap = At(tail, 1, cap)
      BY <1>0, <3>0, ModAt
    <3>2. At(tail, 1, cap) = At(head, cnt + 1, cap)
      BY <1>0, <1>2, SMTT(90) DEF At
    <3> QED
      BY <2>1, <3>1, <3>2
  <2>5. cap \div 2 \in Nat /\ initCap \in Nat /\ tail' \in Nat
    <3>0. cnt + 1 \in 0..cap
      BY <1>0, <1>2, SMTT(90)
    <3>1. At(head, cnt + 1, cap) \in 0..cap-1
      BY <1>0, <3>0, ModAt
    <3> QED
      BY <1>0, <2>4, <3>1, Half, initCapAssumption, SMTT(90)
  <2> QED
    BY <1>0, <1>2, <2>1, <2>2, <2>3, <2>4, <2>5, SMTT(90)
<1> QED
  BY <1>1, <1>2

(* What Remove does to a queue that is not empty: the oldest value goes.   *)
LEMMA RemoveSlots ==
    ASSUME Inv, ~closed, cnt # 0, Remove
    PROVE  /\ cnt' = cnt - 1 /\ ~closed' /\ ~panicked'
           /\ cap' \in Nat \ {0} /\ head' \in 0..cap'-1 /\ tail' \in Nat /\ cnt' <= cap'
           /\ nodes' \in [0..cap'-1 -> Item \cup {NoItem}]
           /\ tail' = At(head', cnt', cap')
           /\ cap' \div 2 >= initCap => cnt' > cap' \div 2
           /\ \A k \in 0..cnt-2 : nodes'[At(head', k, cap')] = nodes[At(head, k + 1, cap)]
           /\ out' = <<nodes[At(head, 0, cap)]>> /\ ok' = TRUE
<1> DEFINE n == cap \div 2
           h == Succ(head)
<1>0. /\ cap \in Nat \ {0} /\ head \in 0..cap-1 /\ tail \in Nat /\ cnt \in 1..cap
      /\ nodes \in [0..cap-1 -> Item \cup {NoItem}]
      /\ tail = At(head, cnt, cap) /\ tail < cap
      /\ n >= initCap => cnt > n
      /\ ~panicked /\ ~closed' /\ cnt' = cnt - 1
      /\ initCap \in Nat \ {0}
  BY OpenRing, initCapAssumption, SMTT(90) DEF Inv, NeverPanics, Remove
<1>1. n \in Nat /\ 2 * n <= cap /\ cap <= 2 * n + 1
  BY <1>0, Half
<1>2. h = At(head, 1, cap) /\ h \in 0..cap-1
  <2>1. 1 \in 0..cap
    BY <1>0, SMTT(90)
  <2> QED
    BY <1>0, <2>1, ModAt DEF Succ
<1>3. out' = <<nodes[At(head, 0, cap)]>> /\ ok' = TRUE
  <2>1. At(head, 0, cap) = head
    BY <1>0, SMTT(90) DEF At
  <2> QED
    BY <2>1 DEF Remove
<1>4. \A k \in 0..cnt-1 : At(h, k, cap) = At(head, k + 1, cap)
  BY <1>0, <1>2, SMTT(90) DEF At
<1>5. tail = At(h, cnt - 1, cap)
  BY <1>0, <1>4, SMTT(90)
<1>6. CASE Shrinks(cnt - 1, n)
  <2>1. /\ nodes' = Resized(h, n) /\ cap' = n /\ tail' = (cnt - 1) % n /\ head' = 0
        /\ panicked' = (panicked \/ ResizePanics(h, n))
    BY <1>6 DEF Remove
  <2>2. n # 0 /\ cnt - 1 = n /\ cnt - 1 \in 1..cap
    BY <1>0, <1>1, <1>6, SMTT(90) DEF Shrinks
  <2> HIDE DEF n, h
  <2>3. /\ ~ResizePanics(h, n) /\ Resized(h, n) \in [0..n-1 -> Item \cup {NoItem}]
        /\ \A k \in 0..cnt-2 : Resized(h, n)[k] = nodes[At(h, k, cap)]
    <3> DEFINE c == cnt - 1
    <3>1. c \in 1..cap /\ c <= n /\ tail = At(h, c, cap) /\ cnt - 2 = c - 1
      BY <1>0, <1>1, <1>5, <2>2, SMTT(90)
    <3> HIDE DEF c
    <3>2. /\ ~ResizePanics(h, n) /\ Resized(h, n) \in [0..n-1 -> Item \cup {NoItem}]
          /\ \A k \in 0..c-1 : Resized(h, n)[k] = nodes[At(h, k, cap)]
      BY <1>1, <1>2, <3>1, ResizeKeeps DEF Inv
    <3> QED
      BY <3>1, <3>2
  <2>4. tail' = 0 /\ At(0, cnt - 1, n) = 0
    <3>1. n % n = n - n
      BY <1>1, <2>2, ModWrap, SMTT(90)
    <3> QED
      BY <1>1, <2>1, <2>2, <3>1, SMTT(90) DEF At
  <2>5. \A k \in 0..cnt-2 : At(0, k, n) = k
    BY <1>0, <2>2, SMTT(90) DEF At
  <2>6. n \div 2 < n
    BY <1>1, <2>2, Half, SMTT(90)
  <2>7. \A k \in 0..cnt-2 : nodes'[At(head', k, cap')] = nodes[At(head, k + 1, cap)]
    <3> SUFFICES ASSUME NEW k \in 0..cnt-2
                 PROVE  nodes'[At(head', k, cap')] = nodes[At(head, k + 1, cap)]
      OBVIOUS
    <3>1. k \in 0..cnt-1
      BY <1>0, SMTT(90)
    <3> QED
      BY <1>4, <2>1, <2>3, <2>5, <3>1
  <2>8. /\ cap' \in Nat \ {0} /\ head' \in 0..cap'-1 /\ tail' \in Nat /\ cnt' <= cap'
        /\ cap' \div 2 >= initCap => cnt' > cap' \div 2
        /\ tail' = At(head', cnt', cap')
    BY <1>0, <1>1, <2>1, <2>2, <2>4, <2>6, SMTT(90)
  <2> QED
    BY <1>0, <1>3, <2>1, <2>3, <2>7, <2>8
<1>7. CASE ~Shrinks(cnt - 1, n)
  <2>1. head' = h /\ nodes' = nodes /\ cap' = cap /\ tail' = tail /\ panicked' = panicked
    BY <1>0, <1>7 DEF Remove
  <2>2. n >= initCap => cnt - 1 > n
    BY <1>0, <1>1, <1>7, SMTT(90) DEF Shrinks
  <2> QED
    BY <1>0, <1>2, <1>3, <1>4, <1>5, <2>1, <2>2, SMTT(90)
<1> QED
  BY <1>6, <1>7

-----------------------------------------------------------------------------
(* The queued values, as the sequence the abstract queue holds.            *)
LEMMA ContentsSeq ==
    ASSUME Inv
    PROVE  /\ Contents \in Seq(Item) /\ Len(Contents) = cnt
           /\ \A k \in 1..cnt : Contents[k] = nodes[At(head, k - 1, cap)]
<1>1. cnt \in Nat
  BY DEF Inv, TypeOK
<1>2. ASSUME NEW k \in 1..cnt
      PROVE  /\ nodes[(head + k - 1) % cap] = nodes[At(head, k - 1, cap)]
             /\ nodes[(head + k - 1) % cap] \in Item
  <2>1. ~closed
    BY <1>1, SMTT(90) DEF Inv, RingOrder
  <2>2. cap \in Nat \ {0} /\ head \in 0..cap-1 /\ cnt \in 0..cap
    BY <2>1, OpenRing
  <2>3. k - 1 \in 0..cap /\ k - 1 \in 0..cnt-1
    BY <2>2, SMTT(90)
  <2>4. (head + (k - 1)) % cap = At(head, k - 1, cap)
    BY <2>2, <2>3, ModAt
  <2>5. head + k - 1 = head + (k - 1)
    BY <2>2
  <2>6. nodes[At(head, k - 1, cap)] \in Item
    BY <2>1, <2>3, OpenRing
  <2> QED
    BY <2>4, <2>5, <2>6
<1>3. Contents \in [1..cnt -> Item]
  BY <1>2 DEF Contents
<1>4. Contents \in Seq(Item) /\ Len(Contents) = cnt
  BY <1>1, <1>3, SMTT(90)
<1> QED
  BY <1>2, <1>4 DEF Contents

(* The ring invariant holds initially and every operation preserves it.    *)
LEMMA InvInit == Init => Inv
  BY initCapAssumption, Half, SMTT(90) DEF Init, Inv, TypeOK, RingOrder, NeverPanics, At, Empty

LEMMA InvStep == Inv /\ [Next]_vars => Inv'
<1> SUFFICES ASSUME Inv, [Next]_vars PROVE Inv'
  OBVIOUS
<1>1. ASSUME NEW i \in Item, Add(i) PROVE Inv'
  <2>1. CASE closed
    BY <1>1, <2>1, SMTT(90) DEF Add, Inv, TypeOK, RingOrder, NeverPanics, At
  <2>2. CASE ~closed
    <3>1. size' \in Int /\ ok' \in BOOLEAN /\ out' = <<>> /\ closed' = closed
      BY <1>1, <2>2, WeightAssumption, SMTT(90) DEF Add, Inv, TypeOK
    <3>2. TypeOK'
      <4>1. panicked' \in BOOLEAN
        BY <1>1, <2>2 DEF Add, Inv, TypeOK
      <4>2. /\ cap' \in Nat /\ head' \in Nat /\ tail' \in Nat /\ cnt' \in Nat
            /\ nodes' \in [0..cap'-1 -> Item \cup {NoItem}]
        BY <1>1, <2>2, AddSlots, SMTT(90) DEF Inv, TypeOK
      <4>3. out' \in Seq(Item \cup {NoItem}) /\ closed' \in BOOLEAN
        BY <3>1, SMTT(90) DEF Inv, TypeOK
      <4> QED
        BY <3>1, <4>1, <4>2, <4>3 DEF TypeOK
    <3>3. ASSUME NEW k \in 0..cnt'-1 PROVE nodes'[At(head', k, cap')] \in Item
      <4>1. cnt \in Nat /\ cnt' = cnt + 1
        BY <1>1, <2>2, AddSlots DEF Inv, TypeOK
      <4>2. CASE k = cnt
        BY <1>1, <2>2, <4>2, AddSlots
      <4>3. CASE k # cnt
        <5>1. k \in 0..cnt-1
          BY <4>1, <4>3, SMTT(90)
        <5> QED
          BY <1>1, <2>2, <5>1, AddSlots, OpenRing
      <4> QED
        BY <4>2, <4>3
    <3>4. RingOrder'
      BY <1>1, <2>2, <3>3, AddSlots, SMTT(90) DEF RingOrder
    <3> QED
      BY <1>1, <2>2, <3>2, <3>4, AddSlots DEF Inv, NeverPanics
  <2> QED
    BY <2>1, <2>2
<1>2. ASSUME Remove PROVE Inv'
  <2>1. CASE cnt = 0
    <3>1. /\ ok' = FALSE /\ out' = <<>> /\ closed' = closed
          /\ UNCHANGED <<nodes, cap, head, tail, cnt, size, panicked>>
      BY <1>2, <2>1 DEF Remove
    <3>2. TypeOK'
      <4>1. ok' \in BOOLEAN /\ closed' \in BOOLEAN /\ panicked' \in BOOLEAN
        BY <3>1 DEF Inv, TypeOK
      <4>2. out' \in Seq(Item \cup {NoItem})
        BY <3>1, SMTT(90)
      <4> QED
        BY <3>1, <4>1, <4>2 DEF Inv, TypeOK
    <3>3. RingOrder' /\ NeverPanics'
      BY <3>1 DEF Inv, RingOrder, NeverPanics, At
    <3> QED
      BY <3>2, <3>3 DEF Inv
  <2>2. CASE cnt # 0
    <3>0. ~closed
      BY <2>2 DEF Inv, RingOrder
    <3>1. cnt \in Nat /\ 0 \in 0..cnt-1
      BY <2>2, SMTT(90) DEF Inv, TypeOK
    <3>2. nodes[At(head, 0, cap)] \in Item /\ At(head, 0, cap) = head
      <4>1. head \in 0..cap-1 /\ cap \in Nat
        BY <3>0, OpenRing
      <4> QED
        BY <3>0, <3>1, <4>1, OpenRing, SMTT(90) DEF At
    <3>3. size' \in Int /\ ok' \in BOOLEAN /\ closed' = closed
      BY <1>2, <2>2, <3>2, WeightAssumption, SMTT(90) DEF Remove, Inv, TypeOK
    <3>4. TypeOK'
      <4>1. panicked' \in BOOLEAN
        BY <1>2, <2>2 DEF Remove, Inv, TypeOK
      <4>2. /\ cap' \in Nat /\ head' \in Nat /\ tail' \in Nat /\ cnt' \in Nat
            /\ nodes' \in [0..cap'-1 -> Item \cup {NoItem}]
        BY <1>2, <2>2, <3>0, <3>1, RemoveSlots, SMTT(90)
      <4>3. out' \in Seq(Item \cup {NoItem}) /\ closed' \in BOOLEAN
        <5>1. out' = <<nodes[At(head, 0, cap)]>>
          BY <1>2, <2>2, <3>0, RemoveSlots
        <5>2. nodes[At(head, 0, cap)] \in Item \cup {NoItem}
          BY <3>2
        <5>3. out' \in Seq(Item \cup {NoItem})
          BY <5>1, <5>2, SMTT(90)
        <5> QED
          BY <3>3, <5>3 DEF Inv, TypeOK
      <4> QED
        BY <3>3, <4>1, <4>2, <4>3 DEF TypeOK
    <3>5. ASSUME NEW k \in 0..cnt'-1 PROVE nodes'[At(head', k, cap')] \in Item
      <4>1. cnt' = cnt - 1
        BY <1>2, <2>2, <3>0, RemoveSlots
      <4>2. k \in 0..cnt-2 /\ k + 1 \in 0..cnt-1
        BY <3>1, <4>1, SMTT(90)
      <4> QED
        BY <1>2, <2>2, <3>0, <4>2, RemoveSlots, OpenRing
    <3>6. RingOrder'
      BY <1>2, <2>2, <3>0, <3>5, RemoveSlots, SMTT(90) DEF RingOrder
    <3> QED
      BY <1>2, <2>2, <3>0, <3>4, <3>6, RemoveSlots DEF Inv, NeverPanics
  <2> QED
    BY <2>1, <2>2
<1>3. ASSUME Discard, head' \in Nat, out' \in Seq(Item \cup {NoItem}) PROVE Inv'
  BY <1>3, SMTT(90) DEF Discard, Inv, TypeOK, RingOrder, NeverPanics, Empty, At
<1>4. CASE Close
  BY <1>3, <1>4, SMTT(90) DEF Close, Inv, TypeOK
<1>5. CASE CloseRemaining
  <2>1. out' \in Seq(Item \cup {NoItem})
    BY <1>5, ContentsSeq, SeqMonotonic DEF CloseRemaining
  <2>2. CASE closed
    BY <1>5, <2>1, <2>2 DEF CloseRemaining, Inv, TypeOK, RingOrder, NeverPanics, At
  <2>3. CASE ~closed
    <3>1. (head + cnt) % cap \in Nat
      BY <2>3, OpenRing, ModAt
    <3> QED
      BY <1>3, <1>5, <2>1, <2>3, <3>1 DEF CloseRemaining
  <2> QED
    BY <2>2, <2>3
<1>6. CASE UNCHANGED vars
  BY <1>6 DEF vars, Inv, TypeOK, RingOrder, NeverPanics, At
<1> QED
  BY <1>1, <1>2, <1>4, <1>5, <1>6 DEF Next

(* Spec => []Inv, the fact both theorems rest on.                          *)
LEMMA Invariance == Spec => []Inv
  BY InvInit, InvStep, PTL DEF Spec

(* For every initial capacity and any number of values, no slice           *)
(* expression of resize goes out of range.                                 *)
THEOREM ResizeInRange == Spec => []NeverPanics
  BY Invariance, PTL DEF Inv

(* For every initial capacity and any number of values, the queued values  *)
(* stay in order between head and tail.                                    *)
THEOREM RingStaysInOrder == Spec => []RingOrder
  BY Invariance, PTL DEF Inv

-----------------------------------------------------------------------------
(* What an operation does to the sequence of queued values, when it takes  *)
(* the slots of this state to those of the next.                           *)
LEMMA ContentsSeqNext ==
    ASSUME Inv'
    PROVE  /\ Contents' \in Seq(Item) /\ Len(Contents') = cnt'
           /\ \A k \in 1..cnt' : Contents'[k] = nodes'[At(head', k - 1, cap')]
<1>1. (Inv => /\ Contents \in Seq(Item) /\ Len(Contents) = cnt
              /\ \A k \in 1..cnt : Contents[k] = nodes[At(head, k - 1, cap)])'
  BY ContentsSeq, PTL
<1> QED
  BY <1>1

LEMMA AddContents ==
    ASSUME Inv, Inv', ~closed, NEW i \in Item, Add(i)
    PROVE  Contents' = Append(Contents, i)
<1>1. cnt \in Nat /\ cnt' = cnt + 1
  BY AddSlots DEF Inv, TypeOK
<1>2. /\ Contents \in Seq(Item) /\ Len(Contents) = cnt
      /\ \A k \in 1..cnt : Contents[k] = nodes[At(head, k - 1, cap)]
  BY ContentsSeq
<1>3. /\ Contents' \in Seq(Item) /\ Len(Contents') = cnt'
      /\ \A k \in 1..cnt' : Contents'[k] = nodes'[At(head', k - 1, cap')]
  BY ContentsSeqNext
<1>4. /\ Append(Contents, i) \in Seq(Item) /\ Len(Append(Contents, i)) = cnt + 1
      /\ \A k \in 1..cnt : Append(Contents, i)[k] = Contents[k]
      /\ Append(Contents, i)[cnt + 1] = i
  BY <1>1, <1>2, AppendProperties, SMTT(90)
<1>5. ASSUME NEW k \in 1..cnt' PROVE Contents'[k] = Append(Contents, i)[k]
  <2>1. CASE k = cnt + 1
    BY <1>1, <1>3, <1>4, <2>1, AddSlots, SMTT(90)
  <2>2. CASE k # cnt + 1
    <3>1. k \in 1..cnt /\ k - 1 \in 0..cnt-1
      BY <1>1, <2>2, SMTT(90)
    <3>2. nodes'[At(head', k - 1, cap')] = nodes[At(head, k - 1, cap)]
      BY <3>1, AddSlots
    <3> QED
      BY <1>2, <1>3, <1>4, <3>1, <3>2
  <2> QED
    BY <2>1, <2>2
<1> QED
  BY <1>1, <1>3, <1>4, <1>5, SeqEqual

LEMMA RemoveContents ==
    ASSUME Inv, Inv', cnt # 0, Remove
    PROVE  /\ Contents # <<>> /\ Contents' = Tail(Contents)
           /\ out' = <<Head(Contents)>> /\ ok' = TRUE
<1>0. ~closed
  BY DEF Inv, RingOrder
<1>1. cnt \in Nat \ {0} /\ cnt' = cnt - 1
  BY <1>0, RemoveSlots DEF Inv, TypeOK
<1>2. /\ Contents \in Seq(Item) /\ Len(Contents) = cnt
      /\ \A k \in 1..cnt : Contents[k] = nodes[At(head, k - 1, cap)]
  BY ContentsSeq
<1>3. /\ Contents' \in Seq(Item) /\ Len(Contents') = cnt'
      /\ \A k \in 1..cnt' : Contents'[k] = nodes'[At(head', k - 1, cap')]
  BY ContentsSeqNext
<1>4. Contents # <<>>
  BY <1>1, <1>2
<1>5. /\ Tail(Contents) \in Seq(Item) /\ Len(Tail(Contents)) = cnt - 1
      /\ \A k \in 1..cnt-1 : Tail(Contents)[k] = Contents[k + 1]
  BY <1>1, <1>2, <1>4, HeadTailProperties
<1>6. ASSUME NEW k \in 1..cnt' PROVE Contents'[k] = Tail(Contents)[k]
  <2>1. k - 1 \in 0..cnt-2 /\ k \in 1..cnt-1 /\ k + 1 \in 1..cnt /\ (k + 1) - 1 = (k - 1) + 1
    BY <1>1, SMTT(90)
  <2>2. nodes'[At(head', k - 1, cap')] = nodes[At(head, (k - 1) + 1, cap)]
    BY <1>0, <2>1, RemoveSlots
  <2> QED
    BY <1>2, <1>3, <1>5, <2>1, <2>2
<1>7. Head(Contents) = nodes[At(head, 0, cap)]
  BY <1>1, <1>2, SMTT(90)
<1> QED
  BY <1>0, <1>1, <1>3, <1>4, <1>5, <1>6, <1>7, SeqEqual, RemoveSlots

(* An empty ring holds the empty sequence.                                 *)
LEMMA EmptyContents ==
    ASSUME Inv, cnt = 0
    PROVE  Contents = <<>>
  BY ContentsSeq, EmptySeq

(* The ring buffer implements the first-in first-out queue, for every      *)
(* initial capacity and any number of values: what Add accepts, Remove and *)
(* CloseRemaining hand out, once and in order, and a closed queue is empty.*)
THEOREM RingImplementsFIFO == Spec => ImplementsFIFO
<1>1. Init => FIFO!Init
  <2> SUFFICES ASSUME Init PROVE FIFO!Init
    OBVIOUS
  <2>1. Contents = <<>>
    BY InvInit, EmptyContents DEF Init
  <2> QED
    BY <2>1 DEF Init, FIFO!Init
<1>2. Inv /\ Inv' /\ [Next]_vars => [FIFO!Next]_FIFO!vars
  <2> SUFFICES ASSUME Inv, Inv', [Next]_vars PROVE [FIFO!Next]_FIFO!vars
    OBVIOUS
  <2>1. ASSUME NEW i \in Item, Add(i) PROVE FIFO!Add(i)
    <3>1. Len(Contents) < MaxLen
      BY <2>1, ContentsSeq DEF Add
    <3>2. CASE closed
      <4>1. Contents' = Contents
        BY <2>1, <3>2 DEF Add, Contents
      <4> QED
        BY <2>1, <3>1, <3>2, <4>1 DEF Add, FIFO!Add
    <3>3. CASE ~closed
      BY <2>1, <3>1, <3>3, AddContents DEF Add, FIFO!Add
    <3> QED
      BY <3>2, <3>3
  <2>2. ASSUME Remove PROVE FIFO!Remove
    <3>1. CASE cnt = 0
      <4>1. Contents = <<>> /\ Contents' = Contents
        BY <2>2, <3>1, EmptyContents DEF Remove, Contents
      <4> QED
        BY <2>2, <3>1, <4>1 DEF Remove, FIFO!Remove
    <3>2. CASE cnt # 0
      BY <2>2, <3>2, RemoveContents DEF Remove, FIFO!Remove
    <3> QED
      BY <3>1, <3>2
  <2>3. ASSUME Discard PROVE Contents' = <<>>
    <3>1. cnt' = 0
      BY <2>3 DEF Discard
    <3> QED
      BY <3>1, ContentsSeqNext, EmptySeq
  <2>4. ASSUME Close PROVE FIFO!Close
    BY <2>3, <2>4 DEF Close, Discard, FIFO!Close
  <2>5. ASSUME CloseRemaining PROVE FIFO!CloseRemaining
    <3>1. CASE closed
      <4>1. Contents = <<>> /\ Contents' = Contents
        BY <2>5, <3>1, EmptyContents DEF CloseRemaining, Contents, Inv, RingOrder
      <4>2. closed' = TRUE /\ ok' = TRUE /\ out' = Contents
        <5>1. closed = TRUE
          BY <3>1 DEF Inv, TypeOK
        <5> QED
          BY <2>5, <3>1, <5>1 DEF CloseRemaining
      <4> QED
        BY <4>1, <4>2 DEF FIFO!CloseRemaining
    <3>2. CASE ~closed
      BY <2>3, <2>5, <3>2 DEF CloseRemaining, Discard, FIFO!CloseRemaining
    <3> QED
      BY <3>1, <3>2
  <2>6. CASE UNCHANGED vars
    BY <2>6 DEF vars, FIFO!vars, Contents
  <2> QED
    BY <2>1, <2>2, <2>4, <2>5, <2>6 DEF Next, FIFO!Next
<1> QED
  BY <1>1, <1>2, Invariance, PTL DEF Spec, ImplementsFIFO, FIFO!Spec
====
