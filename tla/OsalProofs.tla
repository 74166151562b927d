------------------------------- MODULE OsalProofs ------------------------------
(***************************************************************************)
(* Proofs about the parts of the OSAL that are not queues: task life       *)
(* cycles, for any set of tasks and both systems (OsalTasks), and what the *)
(* time arithmetic of the POSIX backend computes, for every clock value    *)
(* and every time-out (OsalClock).                                         *)
(***************************************************************************)
EXTENDS OsalTasks, OsalClock, TLAPS

LEMMA InitTInv == Init => TInv
BY DEF Init, TInv, TTypeOK, Consistent, JoinMeansReturned, NoLeak, NoUseAfterFree, NoTask

LEMMA ClientTInv ==
  ASSUME TInv, NEW t \in Tasks, Client(t)
  PROVE  TInv'
<1> USE NoTaskAssumption, SystemsAssumption
<1> USE DEF TInv, TTypeOK, Consistent, JoinMeansReturned, NoLeak, NoUseAfterFree,
            NeverStarted, MayCreate, JoinEnds
<1>1. CASE CreateNoMemory(t)
  BY <1>1 DEF CreateNoMemory
<1>2. CASE Create(t)
  BY <1>2 DEF Create
<1>3. CASE CreateFails(t)
  BY <1>3 DEF CreateFails
<1>4. CASE CreateThreadFails(t)
  BY <1>4 DEF CreateThreadFails
<1>5. CASE JoinNull(t)
  BY <1>5 DEF JoinNull
<1>6. CASE JoinStart(t)
  BY <1>6 DEF JoinStart
<1>7. CASE JoinReturn(t)
  BY <1>7 DEF JoinReturn
<1>8. CASE JoinUndefined(t)
  BY <1>8 DEF JoinUndefined
<1>9. CASE JoinExpires(t)
  BY <1>9 DEF JoinExpires
<1> QED
  BY <1>1, <1>2, <1>3, <1>4, <1>5, <1>6, <1>7, <1>8, <1>9 DEF Client

LEMMA TaskTInv ==
  ASSUME TInv, NEW t \in Tasks, Task(t)
  PROVE  TInv'
<1> USE NoTaskAssumption, SystemsAssumption
<1> USE DEF TInv, TTypeOK, Consistent, JoinMeansReturned, NoLeak, NoUseAfterFree, NeverStarted,
            Touch
<1>1. CASE Enter(t)
  BY <1>1 DEF Enter
<1>2. CASE Return(t)
  BY <1>2 DEF Return
<1>3. CASE Give(t)
  BY <1>3 DEF Give
<1> QED
  BY <1>1, <1>2, <1>3 DEF Task
-----------------------------------------------------------------------------
(***************************************************************************)
(* The life of every task object follows the client's handle, however many *)
(* tasks there are and however creates, joins, returns and failed          *)
(* allocations interleave.                                                 *)
(***************************************************************************)
THEOREM HandlesConsistent == Spec => []TInv
<1>1. ASSUME TInv, [Next]_vars PROVE TInv'
  <2>1. CASE \E t \in Tasks : Client(t) \/ Task(t)
    BY <1>1, <2>1, ClientTInv, TaskTInv
  <2>2. CASE UNCHANGED vars
    BY <1>1, <2>2
    DEF TInv, TTypeOK, Consistent, JoinMeansReturned, NoLeak, NoUseAfterFree, NeverStarted, vars
  <2> QED
    BY <1>1, <2>1, <2>2 DEF Next, Over
<1> QED
  BY <1>1, InitTInv, PTL DEF Spec

(***************************************************************************)
(* The memory of a task is not used after osal_task_join freed it, on      *)
(* either system, unless its pthread_create failed or its FreeRTOS join    *)
(* stopped waiting for it.                                                 *)
(***************************************************************************)
THEOREM MemorySafe == Spec => []NoUseAfterFree
<1>1. TInv => NoUseAfterFree
  BY DEF TInv
<1> QED
  BY <1>1, HandlesConsistent, PTL

(***************************************************************************)
(* When osal_task_join has returned, the task function has returned: the   *)
(* semaphore of the FreeRTOS backend stands in for pthread_join unless the *)
(* wait for it timed out.                                                  *)
(***************************************************************************)
THEOREM JoinWaits == Spec => []JoinMeansReturned
<1>1. TInv => JoinMeansReturned
  BY DEF TInv
<1> QED
  BY <1>1, HandlesConsistent, PTL

(***************************************************************************)
(* A failed create and a join leave nothing allocated.                     *)
(***************************************************************************)
THEOREM HeapClean == Spec => []NoLeak
<1>1. TInv => NoLeak
  BY DEF TInv
<1> QED
  BY <1>1, HandlesConsistent, PTL

-----------------------------------------------------------------------------
(***************************************************************************)
(* Each tick is less than a millisecond from the time that has really      *)
(* passed since the start, on either side: when the nanoseconds are below  *)
(* those of the start the signed division rounds up, so the tick may run   *)
(* ahead of the truth (osal_posix.c:59-65).                                *)
(***************************************************************************)
THEOREM TickAccurate ==
  ASSUME NEW start \in Timespecs, NEW now \in Timespecs
  PROVE  LET passed == InNs(now) - InNs(start) IN
         /\ TickMs64(start, now) \in Int
         /\ passed - NsPerMs < TickMs64(start, now) * NsPerMs
         /\ TickMs64(start, now) * NsPerMs < passed + NsPerMs
BY SMTT(30) DEF Timespecs, InNs, TickMs64, CDiv, NsPerMs, NsPerSec

(***************************************************************************)
(* The tick never goes backwards, although its rounding changes direction  *)
(* twice in every second: a later reading of the clock, by any thread, is  *)
(* never a smaller tick before the cut to 32 bits.                         *)
(***************************************************************************)
THEOREM TickMonotone ==
  ASSUME NEW start \in Timespecs, NEW a \in Timespecs, NEW b \in Timespecs,
         InNs(start) <= InNs(a), InNs(a) <= InNs(b)
  PROVE  0 <= TickMs64(start, a) /\ TickMs64(start, a) <= TickMs64(start, b)
BY SMTT(30) DEF Timespecs, InNs, TickMs64, CDiv, NsPerMs, NsPerSec

(***************************************************************************)
(* A deadline is a valid timespec (pthread_cond_timedwait refuses any      *)
(* other) exactly timeout_ms after now, and its intermediate sum fits a    *)
(* long of 32 bits.                                                        *)
(***************************************************************************)
THEOREM DeadlineExact ==
  ASSUME NEW now \in Timespecs, NEW timeout_ms \in Nat
  PROVE  /\ AbsDeadline(now, timeout_ms) \in Timespecs
         /\ InNs(AbsDeadline(now, timeout_ms)) = InNs(now) + timeout_ms * NsPerMs
         /\ DeadlineNs(now, timeout_ms) < 2147483648
BY SMTT(30) DEF Timespecs, InNs, AbsDeadline, DeadlineNs, NsPerMs, NsPerSec

(***************************************************************************)
(* A delay is a valid timespec, which nanosleep requires, of ms            *)
(* milliseconds.                                                           *)
(***************************************************************************)
THEOREM DelayExact ==
  ASSUME NEW ms \in Nat
  PROVE  DelaySpec(ms) \in Timespecs /\ InNs(DelaySpec(ms)) = ms * NsPerMs
BY SMTT(30) DEF Timespecs, InNs, DelaySpec, NsPerMs, NsPerSec
===============================================================================
