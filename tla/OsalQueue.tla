------------------------------- MODULE OsalQueue -------------------------------
(***************************************************************************)
(* The bounded blocking queue of osal_posix.c: a ring buffer under a mutex *)
(* with two condition variables.                                           *)
(*                                                                         *)
(* The mutex is released only inside pthread_cond_timedwait, so what a     *)
(* thread does between two waits is one step.  The threads waiting on      *)
(* not_full are the senders at "wait", those on not_empty the receivers.   *)
(* pthread_cond_timedwait returns, and the thread takes the mutex again,   *)
(* after a signal or spuriously ("woken", returns 0) or after the deadline *)
(* ("expired", returns ETIMEDOUT).  Deadlines are not counted: a waiting   *)
(* thread's deadline may pass at any moment.                               *)
(***************************************************************************)
EXTENDS Integers, FiniteSets, Sequences

CONSTANTS
  Senders, Receivers,  \* the threads that call send and receive
  Items,
  Capacity,
  NoItem

ASSUME QueueAssumption ==
  /\ Capacity \in Nat \ {0}
  /\ NoItem \notin Items
  /\ Senders \cap Receivers = {}
  /\ IsFiniteSet(Senders) /\ IsFiniteSet(Receivers)

Threads == Senders \cup Receivers

VARIABLES
  buf, count, head,  \* struct osal_queue
  pc,                \* where each thread is
  item,              \* what a sender that waits is sending
  got                \* what a receiver's last successful receive returned

vars == <<buf, count, head, pc, item, got>>

(* One type invariant: the ring indices stay inside the allocation. *)
OTypeOK ==
  /\ buf \in [0 .. Capacity - 1 -> Items \cup {NoItem}]
  /\ count \in 0 .. Capacity
  /\ head \in 0 .. Capacity - 1
  /\ pc \in [Threads -> {"idle", "wait", "woken", "expired"}]
  /\ item \in [Senders -> Items \cup {NoItem}]
  /\ got \in [Receivers -> Items \cup {NoItem}]

(* What osal_queue_create returns when both of its allocations succeed; no  *)
(* operation is possible on the NULL it returns otherwise.                  *)
Init ==
  /\ buf = [i \in 0 .. Capacity - 1 |-> NoItem]
  /\ count = 0
  /\ head = 0
  /\ pc = [t \in Threads |-> "idle"]
  /\ item = [s \in Senders |-> NoItem]
  /\ got = [r \in Receivers |-> NoItem]

-----------------------------------------------------------------------------
(* pthread_cond_signal: one of the threads blocked on the condition is     *)
(* woken, if there is one.  A thread whose deadline has passed does not    *)
(* consume a signal, as in glibc.                                          *)
Signal(q, ts) ==
  LET blocked == {t \in ts : q[t] = "wait"}
  IN  IF blocked = {} THEN {q} ELSE {[q EXCEPT ![t] = "woken"] : t \in blocked}

Returned(t) == [pc EXCEPT ![t] = "idle"]

(* Mutant of Enqueue: not_empty is signalled only when the queue was empty. *)
EnqueueSignalsFirst(s, v) ==
  /\ count < Capacity
  /\ buf' = [buf EXCEPT ![(head + count) % Capacity] = v]
  /\ count' = count + 1
  /\ pc' \in IF count = 0 THEN Signal(Returned(s), Receivers) ELSE {Returned(s)}
  /\ item' = [item EXCEPT ![s] = NoItem]
  /\ UNCHANGED <<head, got>>

(* Mutant of Enqueue: the tail does not wrap. *)
EnqueueNoWrap(s, v) ==
  /\ count < Capacity
  /\ buf' = [i \in DOMAIN buf \cup {head + count} |-> IF i = head + count THEN v ELSE buf[i]]
  /\ count' = count + 1
  /\ pc' \in Signal(Returned(s), Receivers)
  /\ item' = [item EXCEPT ![s] = NoItem]
  /\ UNCHANGED <<head, got>>

(* The end of osal_queue_send: write the tail, signal, return 1. *)
Enqueue(s, v) ==
  /\ count < Capacity
  /\ buf' = [buf EXCEPT ![(head + count) % Capacity] = v]
  /\ count' = count + 1
  /\ pc' \in Signal(Returned(s), Receivers)
  /\ item' = [item EXCEPT ![s] = NoItem]
  /\ UNCHANGED <<head, got>>

(* Mutant of Dequeue: the slot is computed after head has moved. *)
DequeueNextSlot(r) ==
  /\ count > 0
  /\ head' = (head + 1) % Capacity
  /\ got' = [got EXCEPT ![r] = buf[head']]
  /\ count' = count - 1
  /\ pc' \in Signal(Returned(r), Senders)
  /\ UNCHANGED <<buf, item>>

(* The end of osal_queue_receive: read the head, signal, return 1. *)
Dequeue(r) ==
  /\ count > 0
  /\ got' = [got EXCEPT ![r] = buf[head]]
  /\ head' = (head + 1) % Capacity
  /\ count' = count - 1
  /\ pc' \in Signal(Returned(r), Senders)
  /\ UNCHANGED <<buf, item>>

(* pthread_cond_timedwait blocks. *)
Wait(t) ==
  /\ pc' = [pc EXCEPT ![t] = "wait"]
  /\ UNCHANGED <<buf, count, head, got>>

-----------------------------------------------------------------------------
(* A call of osal_queue_send, up to its return or its first wait. *)
Send(s, v) ==
  /\ pc[s] = "idle"
  /\ \/ Enqueue(s, v)
     \/ count = Capacity /\ Wait(s) /\ item' = [item EXCEPT ![s] = v]

(* The loop of osal_queue_send after a wait that did not time out. *)
SendResume(s) ==
  /\ pc[s] = "woken"
  /\ \/ Enqueue(s, item[s])
     \/ count = Capacity /\ Wait(s) /\ UNCHANGED item

Receive(r) ==
  /\ pc[r] = "idle"
  /\ \/ Dequeue(r)
     \/ count = 0 /\ Wait(r) /\ UNCHANGED item

ReceiveResume(r) ==
  /\ pc[r] = "woken"
  /\ \/ Dequeue(r)
     \/ count = 0 /\ Wait(r) /\ UNCHANGED item

(* Mutant of GiveUp: rc is not looked at and the loop goes on. *)
GiveUpNever(t) ==
  /\ pc[t] = "expired"
  /\ pc' = [pc EXCEPT ![t] = IF (t \in Senders /\ count = Capacity) \/ (t \in Receivers /\ count = 0)
                             THEN "expired" ELSE "woken"]
  /\ UNCHANGED <<buf, count, head, item, got>>

(* ETIMEDOUT: unlock and return 0, without testing the count again. *)
GiveUp(t) ==
  /\ pc[t] = "expired"
  /\ pc' = [pc EXCEPT ![t] = "idle"]
  /\ item' = [s \in Senders |-> IF s = t THEN NoItem ELSE item[s]]
  /\ UNCHANGED <<buf, count, head, got>>

(* The deadline of a blocked thread passes. *)
Expire(t) ==
  /\ pc[t] = "wait"
  /\ pc' = [pc EXCEPT ![t] = "expired"]
  /\ UNCHANGED <<buf, count, head, item, got>>

(* pthread_cond_timedwait returns 0 without a signal. *)
SpuriousWakeup(t) ==
  /\ pc[t] = "wait"
  /\ pc' = [pc EXCEPT ![t] = "woken"]
  /\ UNCHANGED <<buf, count, head, item, got>>

Next ==
  \/ \E s \in Senders : (\E v \in Items : Send(s, v)) \/ SendResume(s)
  \/ \E r \in Receivers : Receive(r) \/ ReceiveResume(r)
  \/ \E t \in Threads : GiveUp(t) \/ Expire(t) \/ SpuriousWakeup(t)

Spec == Init /\ [][Next]_vars

(***************************************************************************)
(* A thread that can take the mutex eventually does.  The deadline is      *)
(* absolute and computed once, so a thread that keeps being woken in vain  *)
(* still meets it: strong fairness of Expire.  Nobody has to call.         *)
(***************************************************************************)
FairSpec ==
  /\ Spec
  /\ \A s \in Senders : WF_vars(SendResume(s))
  /\ \A r \in Receivers : WF_vars(ReceiveResume(r))
  /\ \A t \in Threads : WF_vars(GiveUp(t)) /\ SF_vars(Expire(t))

-----------------------------------------------------------------------------
Contents == [i \in 1 .. count |-> buf[(head + i - 1) % Capacity]]

Fifo == INSTANCE BoundedFifo WITH queue <- Contents

(***************************************************************************)
(* The ring buffer is a bounded FIFO: whatever the interleaving of calls,  *)
(* wake-ups and time-outs, no item is lost, duplicated or reordered.       *)
(***************************************************************************)
ImplementsFifo == Fifo!Spec

(***************************************************************************)
(* No wake-up is lost: while there is an item, a receiver does not sleep   *)
(* on not_empty unless another has been woken for it; and the same for     *)
(* free slots and senders.  pthread_cond_signal wakes one thread, so this  *)
(* needs a signal for every item and every slot.                           *)
(***************************************************************************)
NoLostWakeup ==
  /\ count > 0 /\ (\E r \in Receivers : pc[r] = "wait")
     => Cardinality({r \in Receivers : pc[r] = "woken"}) >= count
  /\ count < Capacity /\ (\E s \in Senders : pc[s] = "wait")
     => Cardinality({s \in Senders : pc[s] = "woken"}) >= Capacity - count

(***************************************************************************)
(* Every call returns: a thread that waits is served or gives up, even if  *)
(* nobody ever calls the other operation again.                            *)
(***************************************************************************)
CallsReturn == \A t \in Threads : pc[t] # "idle" ~> pc[t] = "idle"
===============================================================================
