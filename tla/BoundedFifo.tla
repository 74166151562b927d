------------------------------ MODULE BoundedFifo ------------------------------
(***************************************************************************)
(* What osal.h promises of a queue: "bounded, blocking".  A sequence of at *)
(* most Capacity items; a send that succeeds appends one, a receive that   *)
(* succeeds takes the oldest.  Waiting and giving up are invisible.        *)
(***************************************************************************)
EXTENDS Naturals, Sequences

CONSTANTS Items, Receivers, Capacity, NoItem

VARIABLES queue,  \* the items inside, oldest first
          got     \* what each receiver's last successful receive returned

Init ==
  /\ queue = << >>
  /\ got = [r \in Receivers |-> NoItem]

Put(v) ==
  /\ Len(queue) < Capacity
  /\ queue' = Append(queue, v)
  /\ UNCHANGED got

Get(r) ==
  /\ queue # << >>
  /\ queue' = Tail(queue)
  /\ got' = [got EXCEPT ![r] = Head(queue)]

Next == (\E v \in Items : Put(v)) \/ (\E r \in Receivers : Get(r))

Spec == Init /\ [][Next]_<<queue, got>>
===============================================================================
