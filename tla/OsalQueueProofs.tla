---------------------------- MODULE OsalQueueProofs ----------------------------
(***************************************************************************)
(* Proofs about OsalQueue, for any capacity, any items and any finite sets *)
(* of sending and receiving threads.                                       *)
(***************************************************************************)
EXTENDS OsalQueue, FiniteSetTheorems, SequenceTheorems, TLAPS

(* The slots in use, and what the waiting senders carry, are items. *)
Filled ==
  /\ \A i \in 1 .. count : buf[(head + i - 1) % Capacity] \in Items
  /\ \A s \in Senders : pc[s] # "idle" => item[s] \in Items

(* The inductive invariant. *)
QInv == OTypeOK /\ Filled

-----------------------------------------------------------------------------
(* Ring arithmetic: an index less than twice around the ring wraps once. *)
LEMMA Ring ==
  ASSUME NEW n \in Nat, NEW c \in Nat \ {0}, n < 2 * c
  PROVE  /\ n % c \in 0 .. c - 1
         /\ n % c = IF n < c THEN n ELSE n - c
<1> DEFINE q == n \div c
           r == n % c
<1>1. q \in Int /\ r \in 0 .. c - 1 /\ n = c * q + r
  OBVIOUS
<1> HIDE DEF q, r
<1>2. q >= 0
  <2> SUFFICES ASSUME q <= -1 PROVE FALSE
    BY <1>1
  <2>1. c * q <= c * (-1)
    BY <1>1
  <2> QED
    BY <1>1, <2>1
<1>3. q <= 1
  <2> SUFFICES ASSUME q >= 2 PROVE FALSE
    BY <1>1
  <2>1. c * q >= c * 2
    BY <1>1
  <2> QED
    BY <1>1, <2>1
<1>4. r = IF n < c THEN n ELSE n - c
  <2>1. CASE q = 0
    BY <1>1, <2>1
  <2>2. CASE q = 1
    BY <1>1, <2>2
  <2> QED
    BY <1>1, <1>2, <1>3, <2>1, <2>2
<1> QED
  BY <1>1, <1>4 DEF r

(* The slot of the i-th item. *)
LEMMA Slot ==
  ASSUME NEW h \in 0 .. Capacity - 1, NEW i \in 0 .. Capacity
  PROVE  /\ (h + i) % Capacity \in 0 .. Capacity - 1
         /\ (h + i) % Capacity = IF h + i < Capacity THEN h + i ELSE h + i - Capacity
<1>1. Capacity \in Nat \ {0}
  BY QueueAssumption
<1> DEFINE n == h + i
<1>2. n \in Nat /\ n < 2 * Capacity
  BY <1>1
<1> HIDE DEF n
<1>3. /\ n % Capacity \in 0 .. Capacity - 1
      /\ n % Capacity = IF n < Capacity THEN n ELSE n - Capacity
  BY <1>1, <1>2, Ring
<1> QED
  BY <1>1, <1>3 DEF n

(* The tail is outside the slots in use. *)
LEMMA TailFree ==
  ASSUME NEW h \in 0 .. Capacity - 1, NEW n \in 0 .. Capacity - 1, NEW i \in 1 .. n
  PROVE  (h + i - 1) % Capacity # (h + n) % Capacity
<1>1. Capacity \in Nat \ {0}
  BY QueueAssumption
<1>2. i - 1 \in 0 .. Capacity /\ n \in 0 .. Capacity /\ h + (i - 1) = h + i - 1
  BY <1>1
<1>3. (h + (i - 1)) % Capacity = IF h + (i - 1) < Capacity THEN h + (i - 1) ELSE h + (i - 1) - Capacity
  BY <1>2, Slot
<1>4. (h + n) % Capacity = IF h + n < Capacity THEN h + n ELSE h + n - Capacity
  BY <1>2, Slot
<1> QED
  BY <1>1, <1>2, <1>3, <1>4

(* Moving the head by one moves every slot by one. *)
LEMMA HeadMoves ==
  ASSUME NEW h \in 0 .. Capacity - 1, NEW i \in 1 .. Capacity - 1
  PROVE  (((h + 1) % Capacity) + i - 1) % Capacity = (h + (i + 1) - 1) % Capacity
<1>1. Capacity \in Nat \ {0}
  BY QueueAssumption
<1> DEFINE k == (h + 1) % Capacity
<1>2. k \in 0 .. Capacity - 1 /\ k = IF h + 1 < Capacity THEN h + 1 ELSE h + 1 - Capacity
  BY <1>1, Slot
<1> HIDE DEF k
<1> DEFINE j == i - 1
<1>3. j \in 0 .. Capacity /\ k + i - 1 = k + j /\ h + (i + 1) - 1 = h + i /\ i = j + 1
  BY <1>1, <1>2
<1> HIDE DEF j
<1>4. (k + j) % Capacity = IF k + j < Capacity THEN k + j ELSE k + j - Capacity
  BY <1>2, <1>3, Slot
<1>5. (h + i) % Capacity = IF h + i < Capacity THEN h + i ELSE h + i - Capacity
  BY <1>1, Slot
<1>6. (k + i - 1) % Capacity = (h + (i + 1) - 1) % Capacity
  BY <1>1, <1>2, <1>3, <1>4, <1>5
<1> QED
  BY <1>6 DEF k

-----------------------------------------------------------------------------
(***************************************************************************)
(* The pieces the actions are made of.                                     *)
(***************************************************************************)
LEMMA SignalType ==
  ASSUME NEW q \in [Threads -> {"idle", "wait", "woken", "expired"}],
         NEW ts \in SUBSET Threads, NEW p \in Signal(q, ts)
  PROVE  /\ p \in [Threads -> {"idle", "wait", "woken", "expired"}]
         /\ \A t \in Threads : p[t] = q[t] \/ (t \in ts /\ q[t] = "wait" /\ p[t] = "woken")
BY DEF Signal

(* Sequences, element by element. *)
LEMMA AppendPointwise ==
  ASSUME NEW S, NEW q \in Seq(S), NEW v \in S, NEW p \in Seq(S),
         Len(p) = Len(q) + 1, p[Len(q) + 1] = v, \A i \in 1 .. Len(q) : p[i] = q[i]
  PROVE  p = Append(q, v)
<1>1. Append(q, v) \in Seq(S) /\ Len(Append(q, v)) = Len(q) + 1
  OBVIOUS
<1>2. \A i \in 1 .. Len(q) + 1 : p[i] = Append(q, v)[i]
  OBVIOUS
<1> QED
  BY <1>1, <1>2, SeqEqual

LEMMA TailPointwise ==
  ASSUME NEW S, NEW q \in Seq(S), q # <<>>, NEW p \in Seq(S),
         Len(p) = Len(q) - 1, \A i \in 1 .. Len(p) : p[i] = q[i + 1]
  PROVE  p = Tail(q)
<1>1. Tail(q) \in Seq(S) /\ Len(Tail(q)) = Len(q) - 1
  OBVIOUS
<1>2. \A i \in 1 .. Len(p) : p[i] = Tail(q)[i]
  OBVIOUS
<1> QED
  BY <1>1, <1>2, SeqEqual

(* The slot of the i-th item when the head is at h. *)
At(h, i) == (h + i - 1) % Capacity

(* What Slot, TailFree and HeadMoves say of At. *)
LEMMA AtFacts ==
  ASSUME NEW h \in 0 .. Capacity - 1
  PROVE  /\ \A i \in 1 .. Capacity : At(h, i) \in 0 .. Capacity - 1
         /\ At(h, 1) = h
         /\ (h + 1) % Capacity \in 0 .. Capacity - 1
         /\ \A n \in 0 .. Capacity - 1 :
              /\ At(h, n + 1) = (h + n) % Capacity
              /\ \A i \in 1 .. n : At(h, i) # At(h, n + 1)
         /\ \A i \in 1 .. Capacity - 1 : At((h + 1) % Capacity, i) = At(h, i + 1)
<1>1. Capacity \in Nat \ {0}
  BY QueueAssumption
<1>2. ASSUME NEW n \in 0 .. Capacity PROVE h + (n + 1) - 1 = h + n
  BY <1>1
<1>3. ASSUME NEW n \in 0 .. Capacity PROVE At(h, n + 1) = (h + n) % Capacity
  BY <1>2, <1>3 DEF At
<1>4. ASSUME NEW i \in 1 .. Capacity PROVE At(h, i) \in 0 .. Capacity - 1
  <2> DEFINE n == i - 1
  <2>1. n \in 0 .. Capacity /\ i = n + 1
    BY <1>1
  <2> HIDE DEF n
  <2>2. (h + n) % Capacity \in 0 .. Capacity - 1
    BY <2>1, Slot
  <2> QED
    BY <1>3, <2>1, <2>2
<1>5. At(h, 1) = h
  <2>1. 0 \in 0 .. Capacity /\ h + 0 = h /\ 0 + 1 = 1 /\ h < Capacity
    BY <1>1
  <2>2. (h + 0) % Capacity = IF h + 0 < Capacity THEN h + 0 ELSE h + 0 - Capacity
    BY <2>1, Slot
  <2>3. At(h, 0 + 1) = (h + 0) % Capacity
    BY <1>3, <2>1
  <2> QED
    BY <2>1, <2>2, <2>3
<1>6. (h + 1) % Capacity \in 0 .. Capacity - 1
  BY <1>1, Slot
<1>7. ASSUME NEW n \in 0 .. Capacity - 1, NEW i \in 1 .. n
      PROVE  At(h, i) # At(h, n + 1)
  BY <1>1, <1>3, TailFree DEF At
<1>8. ASSUME NEW i \in 1 .. Capacity - 1
      PROVE  At((h + 1) % Capacity, i) = At(h, i + 1)
  BY HeadMoves DEF At
<1> QED
  BY <1>1, <1>3, <1>4, <1>5, <1>6, <1>7, <1>8

LEMMA ContentsAt ==
  ASSUME QInv
  PROVE  /\ Capacity \in Nat \ {0} /\ count \in 0 .. Capacity /\ head \in 0 .. Capacity - 1
         /\ Contents \in Seq(Items) /\ Len(Contents) = count
         /\ \A i \in 1 .. count : Contents[i] = buf[At(head, i)] /\ buf[At(head, i)] \in Items
<1>1. Capacity \in Nat \ {0} /\ count \in 0 .. Capacity /\ head \in 0 .. Capacity - 1
  BY QueueAssumption DEF QInv, OTypeOK
<1>2. Contents = [i \in 1 .. count |-> buf[At(head, i)]]
  BY DEF Contents, At
<1>3. \A i \in 1 .. count : buf[At(head, i)] \in Items
  BY DEF QInv, Filled, At
<1>4. Contents \in [1 .. count -> Items]
  BY <1>2, <1>3
<1> QED
  BY <1>1, <1>2, <1>3, <1>4

(* Enqueue appends. *)
LEMMA EnqueueAppends ==
  ASSUME QInv, NEW s \in Senders, NEW v \in Items, Enqueue(s, v)
  PROVE  /\ Contents' = Append(Contents, v)
         /\ \A i \in 1 .. count' : buf'[(head' + i - 1) % Capacity] \in Items
         /\ buf' \in [0 .. Capacity - 1 -> Items \cup {NoItem}]
         /\ count' \in 0 .. Capacity
<1>1. /\ Capacity \in Nat \ {0} /\ count \in 0 .. Capacity - 1 /\ head \in 0 .. Capacity - 1
      /\ Contents \in Seq(Items) /\ Len(Contents) = count
      /\ \A i \in 1 .. count : Contents[i] = buf[At(head, i)] /\ buf[At(head, i)] \in Items
  BY ContentsAt DEF Enqueue
<1>2. count' = count + 1 /\ head' = head
  BY DEF Enqueue
<1>3. /\ \A i \in 1 .. count + 1 : At(head, i) \in 0 .. Capacity - 1
      /\ \A i \in 1 .. count : At(head, i) # At(head, count + 1)
      /\ At(head, count + 1) = (head + count) % Capacity
  <2>1. \A i \in 1 .. Capacity : At(head, i) \in 0 .. Capacity - 1
    BY <1>1, AtFacts
  <2>2. \A n \in 0 .. Capacity - 1 :
          /\ At(head, n + 1) = (head + n) % Capacity
          /\ \A i \in 1 .. n : At(head, i) # At(head, n + 1)
    BY <1>1, AtFacts
  <2>3. /\ \A i \in 1 .. count : At(head, i) # At(head, count + 1)
        /\ At(head, count + 1) = (head + count) % Capacity
    BY <1>1, <2>2, Zenon
  <2> QED
    BY <1>1, <2>1, <2>3
<1>4. /\ buf' = [buf EXCEPT ![At(head, count + 1)] = v]
      /\ buf \in [0 .. Capacity - 1 -> Items \cup {NoItem}]
  BY <1>3 DEF Enqueue, QInv, OTypeOK
<1>5. /\ \A i \in 1 .. count : buf'[At(head, i)] = Contents[i]
      /\ buf'[At(head, count + 1)] = v
  BY <1>1, <1>3, <1>4
<1>6. \A i \in 1 .. count + 1 : buf'[At(head, i)] \in Items
  BY <1>1, <1>5
<1>7. Contents' = [i \in 1 .. count + 1 |-> buf'[At(head, i)]]
  BY <1>2 DEF Contents, At
<1>8. /\ Contents' \in Seq(Items) /\ Len(Contents') = count + 1
      /\ \A i \in 1 .. count + 1 : Contents'[i] = buf'[At(head, i)]
  BY <1>1, <1>6, <1>7
<1>9. Contents' = Append(Contents, v)
  BY <1>1, <1>5, <1>8, AppendPointwise
<1>10. \A i \in 1 .. count' : buf'[(head' + i - 1) % Capacity] \in Items
  BY <1>2, <1>6 DEF At
<1> QED
  BY <1>1, <1>2, <1>3, <1>4, <1>9, <1>10

(* Dequeue takes the oldest. *)
LEMMA DequeueTakes ==
  ASSUME QInv, NEW r \in Receivers, Dequeue(r)
  PROVE  /\ Contents # <<>>
         /\ Contents' = Tail(Contents)
         /\ buf[head] = Head(Contents) /\ buf[head] \in Items
         /\ head' \in 0 .. Capacity - 1 /\ count' \in 0 .. Capacity
         /\ \A i \in 1 .. count' : buf'[(head' + i - 1) % Capacity] \in Items
<1>1. /\ Capacity \in Nat \ {0} /\ count \in 1 .. Capacity /\ head \in 0 .. Capacity - 1
      /\ Contents \in Seq(Items) /\ Len(Contents) = count
      /\ \A i \in 1 .. count : Contents[i] = buf[At(head, i)] /\ buf[At(head, i)] \in Items
  BY ContentsAt DEF Dequeue
<1>2. count' = count - 1 /\ buf' = buf /\ head' = (head + 1) % Capacity
  BY DEF Dequeue
<1>3. /\ head' \in 0 .. Capacity - 1
      /\ At(head, 1) = head
      /\ \A i \in 1 .. Capacity - 1 : At(head', i) = At(head, i + 1)
  BY <1>1, <1>2, AtFacts
<1>4. \A i \in 1 .. count - 1 : buf[At(head', i)] = Contents[i + 1] /\ Contents[i + 1] \in Items
  BY <1>1, <1>3
<1>5. Contents' = [i \in 1 .. count - 1 |-> buf[At(head', i)]]
  BY <1>2 DEF Contents, At
<1>6. /\ Contents' \in Seq(Items) /\ Len(Contents') = count - 1
      /\ \A i \in 1 .. count - 1 : Contents'[i] = Contents[i + 1]
  BY <1>1, <1>4, <1>5
<1>7. Contents # <<>>
  BY <1>1
<1>8. Contents' = Tail(Contents)
  BY <1>1, <1>6, <1>7, TailPointwise
<1>9. \A i \in 1 .. count' : buf'[(head' + i - 1) % Capacity] \in Items
  BY <1>2, <1>4 DEF At
<1> QED
  BY <1>1, <1>2, <1>3, <1>7, <1>8, <1>9

-----------------------------------------------------------------------------
(* What the calls are made of, for the two sides alike. *)
LEMMA NextCases ==
  ASSUME Next
  PROVE  \/ \E s \in Senders, v \in Items :
              pc[s] = "idle" /\ (Enqueue(s, v) \/ (count = Capacity /\ Wait(s) /\ item' = [item EXCEPT ![s] = v]))
         \/ \E s \in Senders :
              pc[s] = "woken" /\ (Enqueue(s, item[s]) \/ (count = Capacity /\ Wait(s) /\ UNCHANGED item))
         \/ \E r \in Receivers : Dequeue(r) \/ (count = 0 /\ Wait(r) /\ UNCHANGED item)
         \/ \E t \in Threads : GiveUp(t) \/ Expire(t) \/ SpuriousWakeup(t)
BY Zenon DEF Next, Send, SendResume, Receive, ReceiveResume

LEMMA EnqueueQInv ==
  ASSUME QInv, NEW s \in Senders, NEW v \in Items, Enqueue(s, v)
  PROVE  QInv'
<1>1. /\ \A i \in 1 .. count' : buf'[(head' + i - 1) % Capacity] \in Items
      /\ buf' \in [0 .. Capacity - 1 -> Items \cup {NoItem}]
      /\ count' \in 0 .. Capacity
  BY EnqueueAppends
<1>2. /\ Returned(s) \in [Threads -> {"idle", "wait", "woken", "expired"}]
      /\ Returned(s)[s] = "idle"
      /\ \A t \in Threads : t # s => Returned(s)[t] = pc[t]
  BY DEF Returned, QInv, OTypeOK, Threads
<1>3. /\ pc' \in [Threads -> {"idle", "wait", "woken", "expired"}]
      /\ \A t \in Senders : pc'[t] = Returned(s)[t]
  <2>1. pc' \in Signal(Returned(s), Receivers) /\ Receivers \in SUBSET Threads
    BY DEF Enqueue, Threads
  <2>2. \A t \in Senders : t \in Threads /\ t \notin Receivers
    BY QueueAssumption DEF Threads
  <2> QED
    BY <1>2, <2>1, <2>2, SignalType
<1>4. /\ item' \in [Senders -> Items \cup {NoItem}]
      /\ \A t \in Senders : t # s => item'[t] = item[t]
  BY DEF Enqueue, QInv, OTypeOK
<1>5. \A t \in Senders : pc'[t] # "idle" => item'[t] \in Items
  BY <1>2, <1>3, <1>4 DEF QInv, Filled, Threads
<1>6. head' = head /\ got' = got
  BY DEF Enqueue
<1> QED
  BY <1>1, <1>3, <1>4, <1>5, <1>6 DEF QInv, OTypeOK, Filled

LEMMA DequeueQInv ==
  ASSUME QInv, NEW r \in Receivers, Dequeue(r)
  PROVE  QInv'
<1>1. /\ \A i \in 1 .. count' : buf'[(head' + i - 1) % Capacity] \in Items
      /\ head' \in 0 .. Capacity - 1 /\ count' \in 0 .. Capacity /\ buf[head] \in Items
  BY DequeueTakes
<1>2. /\ Returned(r) \in [Threads -> {"idle", "wait", "woken", "expired"}]
      /\ \A t \in Threads : t # r => Returned(r)[t] = pc[t]
  BY DEF Returned, QInv, OTypeOK, Threads
<1>3. /\ pc' \in [Threads -> {"idle", "wait", "woken", "expired"}]
      /\ \A t \in Threads : pc'[t] = Returned(r)[t] \/ (Returned(r)[t] = "wait" /\ t \in Senders)
  BY <1>2, SignalType DEF Dequeue, Threads
<1>4. buf' = buf /\ item' = item /\ got' = [got EXCEPT ![r] = buf[head]]
  BY DEF Dequeue
<1>5. \A t \in Senders : pc'[t] # "idle" => pc[t] # "idle"
  BY <1>2, <1>3, QueueAssumption DEF Threads
<1>6. \A t \in Senders : pc'[t] # "idle" => item'[t] \in Items
  BY <1>4, <1>5 DEF QInv, Filled
<1> QED
  BY <1>1, <1>3, <1>4, <1>6 DEF QInv, OTypeOK, Filled

LEMMA RestQInv ==
  ASSUME QInv, UNCHANGED <<buf, count, head, got>>,
         pc' \in [Threads -> {"idle", "wait", "woken", "expired"}],
         item' \in [Senders -> Items \cup {NoItem}],
         \A s \in Senders : pc'[s] # "idle" => item'[s] \in Items
  PROVE  QInv'
BY DEF QInv, OTypeOK, Filled

LEMMA NextQInv ==
  ASSUME QInv, [Next]_vars
  PROVE  QInv'
<1> USE DEF Threads
<1>1. ASSUME NEW s \in Senders, NEW v \in Items, count = Capacity, Wait(s),
             item' = [item EXCEPT ![s] = v]
      PROVE  QInv'
  BY <1>1, RestQInv DEF Wait, QInv, OTypeOK, Filled
<1>2. ASSUME NEW s \in Senders, pc[s] = "woken"
      PROVE  item[s] \in Items
  BY <1>2 DEF QInv, Filled
<1>3. ASSUME NEW s \in Senders, pc[s] = "woken", Wait(s), UNCHANGED item
      PROVE  QInv'
  BY <1>3, RestQInv DEF Wait, QInv, OTypeOK, Filled
<1>4. ASSUME NEW r \in Receivers, Wait(r), UNCHANGED item
      PROVE  QInv'
  BY <1>4, RestQInv, QueueAssumption DEF Wait, QInv, OTypeOK, Filled
<1>5. ASSUME NEW t \in Threads, GiveUp(t) \/ Expire(t) \/ SpuriousWakeup(t)
      PROVE  QInv'
  <2>1. CASE GiveUp(t)
    BY <2>1, RestQInv DEF GiveUp, QInv, OTypeOK, Filled
  <2>2. CASE Expire(t)
    BY <2>2, RestQInv DEF Expire, QInv, OTypeOK, Filled
  <2>3. CASE SpuriousWakeup(t)
    BY <2>3, RestQInv DEF SpuriousWakeup, QInv, OTypeOK, Filled
  <2> QED
    BY <1>5, <2>1, <2>2, <2>3
<1>6. CASE UNCHANGED vars
  BY <1>6 DEF QInv, OTypeOK, Filled, vars
<1> QED
  BY <1>1, <1>2, <1>3, <1>4, <1>5, <1>6, NextCases, EnqueueQInv, DequeueQInv

LEMMA InitQInv == Init => QInv
<1> SUFFICES ASSUME Init PROVE QInv
  OBVIOUS
<1>1. Capacity \in Nat \ {0} /\ count = 0 /\ head = 0
  BY QueueAssumption DEF Init
<1>2. 1 .. count = {}
  BY <1>1
<1>3. OTypeOK
  BY <1>1 DEF Init, OTypeOK
<1>4. Filled
  BY <1>2 DEF Init, Filled, Threads
<1> QED
  BY <1>3, <1>4 DEF QInv

(***************************************************************************)
(* The ring indices and the slots in use stay right, for every capacity    *)
(* and any number of threads (osal_queue_send, osal_queue_receive).        *)
(***************************************************************************)
THEOREM RingSafe == Spec => []OTypeOK
<1>1. QInv => OTypeOK
  BY DEF QInv
<1> QED
  BY <1>1, InitQInv, NextQInv, PTL DEF Spec

-----------------------------------------------------------------------------
(* Every step is a step of the bounded FIFO, or none of its business. *)
LEMMA StepFifo ==
  ASSUME QInv, [Next]_vars
  PROVE  [Fifo!Next]_<<Contents, got>>
<1>1. ASSUME NEW s \in Senders, NEW v \in Items, Enqueue(s, v)
      PROVE  Fifo!Put(v)
  <2>1. Contents' = Append(Contents, v)
    BY <1>1, EnqueueAppends
  <2>2. Len(Contents) < Capacity /\ got' = got
    BY <1>1, ContentsAt DEF Enqueue
  <2> QED
    BY <2>1, <2>2 DEF Fifo!Put
<1>2. ASSUME NEW r \in Receivers, Dequeue(r)
      PROVE  Fifo!Get(r)
  <2>1. Contents # <<>> /\ Contents' = Tail(Contents) /\ buf[head] = Head(Contents)
    BY <1>2, DequeueTakes
  <2> QED
    BY <1>2, <2>1 DEF Fifo!Get, Dequeue
<1>3. ASSUME UNCHANGED <<buf, count, head, got>>
      PROVE  UNCHANGED <<Contents, got>>
  BY <1>3 DEF Contents
<1>4. ASSUME NEW t \in Threads, GiveUp(t) \/ Expire(t) \/ SpuriousWakeup(t) \/ Wait(t)
      PROVE  UNCHANGED <<Contents, got>>
  BY <1>3, <1>4 DEF GiveUp, Expire, SpuriousWakeup, Wait
<1>5. ASSUME NEW s \in Senders, pc[s] = "woken"
      PROVE  item[s] \in Items
  BY <1>5 DEF QInv, Filled
<1>6. CASE UNCHANGED vars
  BY <1>3, <1>6 DEF vars
<1>7. CASE Next
  BY <1>1, <1>2, <1>4, <1>5, <1>7, NextCases DEF Fifo!Next, Threads
<1> QED
  BY <1>6, <1>7

(***************************************************************************)
(* The ring buffer under its mutex and condition variables implements the  *)
(* bounded FIFO of osal.h, for every capacity, any items and any threads.  *)
(***************************************************************************)
THEOREM RingIsFifo == Spec => ImplementsFifo
<1>1. Init => Fifo!Init
  BY DEF Init, Fifo!Init, Contents
<1> QED
  BY <1>1, InitQInv, NextQInv, StepFifo, PTL DEF Spec, ImplementsFifo, Fifo!Spec

-----------------------------------------------------------------------------
(***************************************************************************)
(* No lost wake-up.  The invariant is inductive as it stands; what it      *)
(* takes is counting the threads that have been woken.                     *)
(***************************************************************************)
WokenIn(q, T) == {t \in T : q[t] = "woken"}

LEMMA WokenFinite ==
  ASSUME NEW T, IsFiniteSet(T), NEW q
  PROVE  IsFiniteSet(WokenIn(q, T)) /\ Cardinality(WokenIn(q, T)) \in Nat
BY FS_Subset, FS_CardinalityType DEF WokenIn

LEMMA WokenGrows ==
  ASSUME NEW T, IsFiniteSet(T), NEW q, NEW p, \A t \in T : q[t] = "woken" => p[t] = "woken"
  PROVE  Cardinality(WokenIn(p, T)) >= Cardinality(WokenIn(q, T))
<1>1. WokenIn(q, T) \in SUBSET WokenIn(p, T)
  BY DEF WokenIn
<1>2. IsFiniteSet(WokenIn(p, T)) /\ Cardinality(WokenIn(p, T)) \in Nat /\ Cardinality(WokenIn(q, T)) \in Nat
  BY WokenFinite
<1>3. Cardinality(WokenIn(q, T)) <= Cardinality(WokenIn(p, T))
  BY <1>1, <1>2, FS_Subset
<1> QED
  BY <1>2, <1>3

(* A thread that returns takes at most one wake-up with it. *)
LEMMA WokenLeaves ==
  ASSUME NEW T, IsFiniteSet(T), NEW q, NEW p, NEW x, \A t \in T : t # x => p[t] = q[t]
  PROVE  Cardinality(WokenIn(p, T)) >= Cardinality(WokenIn(q, T)) - 1
<1>1. WokenIn(q, T) \ {x} \in SUBSET WokenIn(p, T)
  BY DEF WokenIn
<1>2. /\ IsFiniteSet(WokenIn(p, T)) /\ Cardinality(WokenIn(p, T)) \in Nat
      /\ IsFiniteSet(WokenIn(q, T)) /\ Cardinality(WokenIn(q, T)) \in Nat
  BY WokenFinite
<1>3. Cardinality(WokenIn(q, T) \ {x}) <= Cardinality(WokenIn(p, T))
  BY <1>1, <1>2, FS_Subset
<1>4. Cardinality(WokenIn(q, T) \ {x}) =
        IF x \in WokenIn(q, T) THEN Cardinality(WokenIn(q, T)) - 1 ELSE Cardinality(WokenIn(q, T))
  BY <1>2, FS_RemoveElement
<1> QED
  BY <1>2, <1>3, <1>4

(* A signal with more than one waiter wakes one more. *)
LEMMA SignalWakes ==
  ASSUME NEW q \in [Threads -> {"idle", "wait", "woken", "expired"}],
         NEW T \in SUBSET Threads, IsFiniteSet(T),
         NEW p \in Signal(q, T), NEW w \in T, p[w] = "wait"
  PROVE  /\ q[w] = "wait"
         /\ Cardinality(WokenIn(p, T)) = Cardinality(WokenIn(q, T)) + 1
<1>1. q[w] = "wait"
  BY SignalType
<1>2. PICK x \in T : q[x] = "wait" /\ p = [q EXCEPT ![x] = "woken"]
  BY <1>1 DEF Signal
<1>3. WokenIn(p, T) = WokenIn(q, T) \cup {x} /\ x \notin WokenIn(q, T)
  BY <1>2 DEF WokenIn
<1>4. IsFiniteSet(WokenIn(q, T))
  BY WokenFinite
<1> QED
  BY <1>1, <1>3, <1>4, FS_AddElement

(* One half of NoLostWakeup: n things are there for the threads of T. *)
Served(T, q, n) ==
  n > 0 /\ (\E t \in T : q[t] = "wait") => Cardinality(WokenIn(q, T)) >= n

LEMMA NoLostWakeupServed ==
  ASSUME OTypeOK
  PROVE  NoLostWakeup <=> Served(Receivers, pc, count) /\ Served(Senders, pc, Capacity - count)
<1>1. count \in Int /\ Capacity \in Int
  BY QueueAssumption DEF OTypeOK
<1>2. count < Capacity <=> Capacity - count > 0
  BY <1>1
<1> QED
  BY <1>2 DEF NoLostWakeup, Served, WokenIn

(* One thing more, and one signal. *)
LEMMA ServedSignal ==
  ASSUME NEW T \in SUBSET Threads, IsFiniteSet(T), NEW n \in Nat, Served(T, pc, n),
         pc \in [Threads -> {"idle", "wait", "woken", "expired"}],
         NEW x \in Threads \ T, NEW p \in Signal(Returned(x), T)
  PROVE  Served(T, p, n + 1)
<1> SUFFICES ASSUME NEW w \in T, p[w] = "wait"
             PROVE  Cardinality(WokenIn(p, T)) >= n + 1
  BY DEF Served
<1>1. /\ Returned(x) \in [Threads -> {"idle", "wait", "woken", "expired"}]
      /\ \A t \in T : Returned(x)[t] = pc[t]
  BY DEF Returned
<1>2. Returned(x)[w] = "wait" /\ Cardinality(WokenIn(p, T)) = Cardinality(WokenIn(Returned(x), T)) + 1
  BY <1>1, SignalWakes
<1>3. WokenIn(Returned(x), T) = WokenIn(pc, T)
  BY <1>1 DEF WokenIn
<1>4. Cardinality(WokenIn(pc, T)) \in Nat
  BY WokenFinite
<1>5. n > 0 => Cardinality(WokenIn(pc, T)) >= n
  BY <1>1, <1>2 DEF Served
<1> QED
  BY <1>2, <1>3, <1>4, <1>5

(* One thing less, taken by a thread of T that returns. *)
LEMMA ServedReturn ==
  ASSUME NEW T \in SUBSET Threads, IsFiniteSet(T), NEW n \in Nat \ {0}, Served(T, pc, n),
         pc \in [Threads -> {"idle", "wait", "woken", "expired"}],
         NEW x \in T, NEW U \in SUBSET Threads, U \cap T = {}, NEW p \in Signal(Returned(x), U)
  PROVE  Served(T, p, n - 1)
<1> SUFFICES ASSUME NEW w \in T, p[w] = "wait"
             PROVE  Cardinality(WokenIn(p, T)) >= n - 1
  BY DEF Served
<1>1. /\ Returned(x) \in [Threads -> {"idle", "wait", "woken", "expired"}]
      /\ Returned(x)[x] = "idle"
      /\ \A t \in T : t # x => Returned(x)[t] = pc[t]
  BY DEF Returned
<1>2. \A t \in T : p[t] = Returned(x)[t]
  <2>1. \A t \in T : t \in Threads /\ t \notin U
    OBVIOUS
  <2> QED
    BY <1>1, <2>1, SignalType
<1>3. pc[w] = "wait"
  BY <1>1, <1>2
<1>4. Cardinality(WokenIn(pc, T)) >= n
  BY <1>3 DEF Served
<1>5. Cardinality(WokenIn(p, T)) >= Cardinality(WokenIn(pc, T)) - 1
  BY <1>1, <1>2, WokenLeaves
<1>6. Cardinality(WokenIn(pc, T)) \in Nat /\ Cardinality(WokenIn(p, T)) \in Nat
  BY WokenFinite
<1> QED
  BY <1>4, <1>5, <1>6

(* Nobody more waits and nobody less is woken. *)
LEMMA ServedCalm ==
  ASSUME NEW T, IsFiniteSet(T), NEW n \in Int, NEW q, NEW p, Served(T, q, n),
         \A t \in T : q[t] = "woken" => p[t] = "woken",
         \A t \in T : p[t] = "wait" => q[t] = "wait"
  PROVE  Served(T, p, n)
<1>1. Cardinality(WokenIn(p, T)) >= Cardinality(WokenIn(q, T))
  BY WokenGrows
<1>2. Cardinality(WokenIn(p, T)) \in Nat /\ Cardinality(WokenIn(q, T)) \in Nat
  BY WokenFinite
<1> QED
  BY <1>1, <1>2 DEF Served

LEMMA NextServed ==
  ASSUME QInv, NoLostWakeup, [Next]_vars
  PROVE  NoLostWakeup'
<1>1. /\ Capacity \in Nat \ {0} /\ count \in 0 .. Capacity
      /\ IsFiniteSet(Senders) /\ IsFiniteSet(Receivers) /\ Senders \cap Receivers = {}
      /\ Senders \in SUBSET Threads /\ Receivers \in SUBSET Threads
      /\ pc \in [Threads -> {"idle", "wait", "woken", "expired"}]
  BY QueueAssumption DEF QInv, OTypeOK, Threads
<1>2. Served(Receivers, pc, count) /\ Served(Senders, pc, Capacity - count)
  BY NoLostWakeupServed DEF QInv
<1> SUFFICES Served(Receivers, pc', count') /\ Served(Senders, pc', Capacity - count')
  <2>1. QInv'
    BY NextQInv
  <2>2. count' \in Int /\ Capacity \in Int
    BY <1>1, <2>1 DEF QInv, OTypeOK
  <2>3. \A c \in Int : c < Capacity <=> Capacity - c > 0
    BY <2>2
  <2> QED
    BY <2>2, <2>3 DEF NoLostWakeup, Served, WokenIn
<1>3. ASSUME NEW s \in Senders, NEW v, Enqueue(s, v)
      PROVE  Served(Receivers, pc', count') /\ Served(Senders, pc', Capacity - count')
  <2>1. /\ pc' \in Signal(Returned(s), Receivers) /\ count < Capacity /\ count' = count + 1
        /\ s \in Threads \ Receivers
    BY <1>1, <1>3 DEF Enqueue
  <2>2. Served(Receivers, pc', count + 1)
    BY <1>1, <1>2, <2>1, ServedSignal
  <2>3. Served(Senders, pc', (Capacity - count) - 1)
    BY <1>1, <1>2, <2>1, ServedReturn
  <2>4. (Capacity - count) - 1 = Capacity - count'
    BY <1>1, <2>1
  <2> QED
    BY <2>1, <2>2, <2>3, <2>4
<1>4. ASSUME NEW r \in Receivers, Dequeue(r)
      PROVE  Served(Receivers, pc', count') /\ Served(Senders, pc', Capacity - count')
  <2>1. /\ pc' \in Signal(Returned(r), Senders) /\ count > 0 /\ count' = count - 1
        /\ r \in Threads \ Senders
    BY <1>1, <1>4 DEF Dequeue
  <2>2. Served(Receivers, pc', count - 1)
    BY <1>1, <1>2, <2>1, ServedReturn
  <2>3. Served(Senders, pc', (Capacity - count) + 1)
    BY <1>1, <1>2, <2>1, ServedSignal
  <2>4. (Capacity - count) + 1 = Capacity - count'
    BY <1>1, <2>1
  <2> QED
    BY <2>1, <2>2, <2>3, <2>4
<1>5. ASSUME count' = count,
             \A t \in Threads : pc[t] = "woken" => pc'[t] = "woken",
             \A t \in Threads : pc'[t] = "wait" => pc[t] = "wait"
      PROVE  Served(Receivers, pc', count') /\ Served(Senders, pc', Capacity - count')
  BY <1>1, <1>2, <1>5, ServedCalm
<1>6. ASSUME NEW s \in Senders, count = Capacity, Wait(s)
      PROVE  Served(Receivers, pc', count') /\ Served(Senders, pc', Capacity - count')
  <2>1. count' = count /\ \A t \in Receivers : pc'[t] = pc[t]
    BY <1>1, <1>6 DEF Wait
  <2>2. Served(Receivers, pc', count)
    BY <1>1, <1>2, <2>1, ServedCalm
  <2>3. Served(Senders, pc', Capacity - count)
    BY <1>1, <1>6 DEF Served
  <2> QED
    BY <2>1, <2>2, <2>3
<1>7. ASSUME NEW r \in Receivers, count = 0, Wait(r)
      PROVE  Served(Receivers, pc', count') /\ Served(Senders, pc', Capacity - count')
  <2>1. count' = count /\ \A t \in Senders : pc'[t] = pc[t]
    BY <1>1, <1>7 DEF Wait
  <2>2. Served(Senders, pc', Capacity - count)
    BY <1>1, <1>2, <2>1, ServedCalm
  <2>3. Served(Receivers, pc', count)
    BY <1>1, <1>7 DEF Served
  <2> QED
    BY <2>1, <2>2, <2>3
<1>8. ASSUME NEW t \in Threads, GiveUp(t) \/ Expire(t) \/ SpuriousWakeup(t)
      PROVE  Served(Receivers, pc', count') /\ Served(Senders, pc', Capacity - count')
  BY <1>1, <1>5, <1>8 DEF GiveUp, Expire, SpuriousWakeup
<1>9. CASE UNCHANGED vars
  BY <1>5, <1>9 DEF vars
<1> QED
  BY <1>3, <1>4, <1>6, <1>7, <1>8, <1>9, NextCases

(***************************************************************************)
(* No thread sleeps on a condition that holds unless another one has been  *)
(* woken for it: for every capacity and any number of threads on either    *)
(* side, one pthread_cond_signal per item and per slot is enough, spurious *)
(* wake-ups and passed deadlines included.                                 *)
(***************************************************************************)
THEOREM WakeupsKept == Spec => []NoLostWakeup
<1>1. Init => NoLostWakeup
  BY DEF Init, NoLostWakeup, Threads
<1> QED
  BY <1>1, InitQInv, NextQInv, NextServed, PTL DEF Spec

===============================================================================
