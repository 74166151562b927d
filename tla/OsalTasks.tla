------------------------------- MODULE OsalTasks ------------------------------
(***************************************************************************)
(* osal_task_create and osal_task_join, on POSIX threads                   *)
(* (src/osal/osal_posix.c) and on FreeRTOS (src/osal/osal_freertos.c),     *)
(* where a binary semaphore stands in for pthread_join.                    *)
(*                                                                         *)
(* One thread, the client, creates and joins tasks, each at most once (the *)
(* handle is gone after the join); the tasks run and return when they      *)
(* like.  The object *t, and on FreeRTOS its semaphore, live on the heap;  *)
(* every step that reads them is marked by the addresses it touches, and   *)
(* touching one that was freed is the error the properties look for.       *)
(*                                                                         *)
(* An allocation that fails returns NULL.  On the target the kernel's      *)
(* malloc-failed hook stops everything first (freertos_hooks.c); the       *)
(* cleanup in osal_task_create is for ports without it.                    *)
(***************************************************************************)
EXTENDS Naturals

CONSTANTS
  Tasks,    \* the tasks the client may create
  Systems   \* the operating systems a build may link

ASSUME SystemsAssumption == Systems \subseteq {"posix", "freertos"}

NoTask == "none"

ASSUME NoTaskAssumption == NoTask \notin Tasks

VARIABLES
  os,       \* the backend that was linked
  obj,      \* *t: "none", "live" or "freed"
  sem,      \* t->done_sem: "none", "empty", "given" or "deleted"
  thread,   \* the thread of t: "none", "ready", "fn", "returned", "gone"
  handle,   \* the client's: "none", "null", "valid" or "joined"
  joining,  \* the task the client waits for
  late,     \* tasks the client stopped waiting for before they had ended
  touched   \* tasks whose freed memory, or never written id, has been used

vars == <<os, obj, sem, thread, handle, joining, late, touched>>

(* Life cycles of the heap objects, the threads and the client's handles. *)
TTypeOK ==
  /\ os \in Systems
  /\ obj \in [Tasks -> {"none", "live", "freed"}]
  /\ sem \in [Tasks -> {"none", "empty", "given", "deleted"}]
  /\ thread \in [Tasks -> {"none", "ready", "fn", "returned", "gone"}]
  /\ handle \in [Tasks -> {"none", "null", "valid", "joined"}]
  /\ joining \in Tasks \cup {NoTask}
  /\ late \subseteq Tasks /\ touched \subseteq Tasks

Init ==
  /\ os \in Systems
  /\ obj = [t \in Tasks |-> "none"]
  /\ sem = [t \in Tasks |-> "none"]
  /\ thread = [t \in Tasks |-> "none"]
  /\ handle = [t \in Tasks |-> "none"]
  /\ joining = NoTask
  /\ late = {} /\ touched = {}

-----------------------------------------------------------------------------
(***************************************************************************)
(* The client.                                                             *)
(***************************************************************************)
MayCreate(t) == handle[t] = "none" /\ joining = NoTask

(* calloc or pvPortMalloc returns NULL. *)
CreateNoMemory(t) ==
  /\ MayCreate(t)
  /\ handle' = [handle EXCEPT ![t] = "null"]
  /\ UNCHANGED <<os, obj, sem, thread, joining, late, touched>>

Create(t) ==
  /\ MayCreate(t)
  /\ obj' = [obj EXCEPT ![t] = "live"]
  /\ sem' = IF os = "freertos" THEN [sem EXCEPT ![t] = "empty"] ELSE sem
  /\ thread' = [thread EXCEPT ![t] = "ready"]
  /\ handle' = [handle EXCEPT ![t] = "valid"]
  /\ UNCHANGED <<os, joining, late, touched>>

(* Mutant: the semaphore is not deleted when xTaskCreate fails. *)
CreateFailsLeaks(t) ==
  /\ os = "freertos" /\ MayCreate(t)
  /\ obj' = [obj EXCEPT ![t] = "freed"]
  /\ sem' \in {[sem EXCEPT ![t] = "none"], [sem EXCEPT ![t] = "empty"]}
  /\ handle' = [handle EXCEPT ![t] = "null"]
  /\ UNCHANGED <<os, thread, joining, late, touched>>

(* FreeRTOS: xSemaphoreCreateBinary or xTaskCreate fails, and what was      *)
(* allocated before is given back.                                          *)
CreateFails(t) ==
  /\ os = "freertos" /\ MayCreate(t)
  /\ obj' = [obj EXCEPT ![t] = "freed"]
  /\ sem' \in {[sem EXCEPT ![t] = "none"], [sem EXCEPT ![t] = "deleted"]}
  /\ handle' = [handle EXCEPT ![t] = "null"]
  /\ UNCHANGED <<os, thread, joining, late, touched>>

(* POSIX: pthread_create fails, which is not looked at.  The caller gets a  *)
(* handle without a thread.                                                 *)
CreateThreadFails(t) ==
  /\ os = "posix" /\ MayCreate(t)
  /\ obj' = [obj EXCEPT ![t] = "live"]
  /\ handle' = [handle EXCEPT ![t] = "valid"]
  /\ UNCHANGED <<os, sem, thread, joining, late, touched>>

(* A NULL handle is not waited for. *)
JoinNull(t) ==
  /\ joining = NoTask /\ handle[t] = "null"
  /\ handle' = [handle EXCEPT ![t] = "joined"]
  /\ UNCHANGED <<os, obj, sem, thread, joining, late, touched>>

JoinStart(t) ==
  /\ joining = NoTask /\ handle[t] = "valid"
  /\ joining' = t
  /\ UNCHANGED <<os, obj, sem, thread, handle, late, touched>>

(* osal_task_join goes on: *t and its semaphore are given back. *)
JoinEnds(t) ==
  /\ sem' = IF os = "freertos" THEN [sem EXCEPT ![t] = "deleted"] ELSE sem
  /\ obj' = [obj EXCEPT ![t] = "freed"]
  /\ handle' = [handle EXCEPT ![t] = "joined"]
  /\ joining' = NoTask
  /\ UNCHANGED <<os, thread>>

(* Mutant: the semaphore is polled, not waited for. *)
JoinReturnPolls(t) ==
  /\ joining = t
  /\ os = "posix" => thread[t] = "gone"
  /\ JoinEnds(t)
  /\ UNCHANGED <<late, touched>>

(* pthread_join returns when the thread is gone, xSemaphoreTake when the    *)
(* semaphore was given; the memory is freed after that.                     *)
JoinReturn(t) ==
  /\ joining = t
  /\ IF os = "posix" THEN thread[t] = "gone" ELSE sem[t] = "given"
  /\ JoinEnds(t)
  /\ UNCHANGED <<late, touched>>

(* The handle has no thread: pthread_join reads an id nobody has written,   *)
(* which is undefined.  It returns or the client is stuck in it.            *)
JoinUndefined(t) ==
  /\ os = "posix" /\ joining = t /\ thread[t] = "none" /\ t \notin touched
  /\ touched' = touched \cup {t}
  /\ JoinEnds(t) \/ UNCHANGED <<os, obj, sem, thread, handle, joining>>
  /\ UNCHANGED late

(* portMAX_DELAY is a time-out of 2^32 - 1 ticks where the kernel is built  *)
(* without vTaskSuspend (FreeRTOSConfig.h:61), and the result of            *)
(* xSemaphoreTake is not looked at.                                         *)
JoinExpires(t) ==
  /\ os = "freertos" /\ joining = t /\ sem[t] = "empty"
  /\ JoinEnds(t)
  /\ late' = late \cup {t}
  /\ UNCHANGED touched

Client(t) ==
  \/ CreateNoMemory(t) \/ Create(t) \/ CreateFails(t) \/ CreateThreadFails(t)
  \/ JoinNull(t) \/ JoinStart(t) \/ JoinReturn(t) \/ JoinUndefined(t) \/ JoinExpires(t)

-----------------------------------------------------------------------------
(***************************************************************************)
(* The task: the trampoline reads t->fn and t->arg, calls, and on FreeRTOS *)
(* gives t->done_sem before it deletes itself.                             *)
(***************************************************************************)
(* t has used *t, which may be gone. *)
Touch(t, bad) == touched' = IF bad THEN touched \cup {t} ELSE touched

(* Mutant: the semaphore is given before the function is called. *)
EnterGives(t) ==
  /\ thread[t] = "ready"
  /\ Touch(t, obj[t] # "live")
  /\ sem' = IF os = "freertos" THEN [sem EXCEPT ![t] = "given"] ELSE sem
  /\ thread' = [thread EXCEPT ![t] = "fn"]
  /\ UNCHANGED <<os, obj, handle, joining, late>>

Enter(t) ==
  /\ thread[t] = "ready"
  /\ Touch(t, obj[t] # "live")
  /\ thread' = [thread EXCEPT ![t] = "fn"]
  /\ UNCHANGED <<os, obj, sem, handle, joining, late>>

Return(t) ==
  /\ thread[t] = "fn"
  /\ thread' = [thread EXCEPT ![t] = IF os = "posix" THEN "gone" ELSE "returned"]
  /\ UNCHANGED <<os, obj, sem, handle, joining, late, touched>>

(* Mutant: the task deletes itself before it gives the semaphore. *)
GiveNever(t) ==
  /\ os = "freertos" /\ thread[t] = "returned"
  /\ Touch(t, obj[t] # "live")
  /\ thread' = [thread EXCEPT ![t] = "gone"]
  /\ UNCHANGED <<os, obj, sem, handle, joining, late>>

(* xSemaphoreGive, the last use of *t; vTaskDelete follows.  What a give to *)
(* a deleted semaphore does is undefined; here it is recorded.              *)
Give(t) ==
  /\ os = "freertos" /\ thread[t] = "returned"
  /\ Touch(t, obj[t] # "live" \/ sem[t] # "empty")
  /\ sem' = IF sem[t] = "deleted" THEN sem ELSE [sem EXCEPT ![t] = "given"]
  /\ thread' = [thread EXCEPT ![t] = "gone"]
  /\ UNCHANGED <<os, obj, handle, joining, late>>

Task(t) == Enter(t) \/ Return(t) \/ Give(t)

(* Every handle has been joined, or the client is stuck in an undefined     *)
(* join: the program is over.                                               *)
Over == ((\A t \in Tasks : handle[t] = "joined") \/ joining \in touched) /\ UNCHANGED vars

Next == (\E t \in Tasks : Client(t) \/ Task(t)) \/ Over

Spec == Init /\ [][Next]_vars

(* Tasks run and return (BmsTasks shows ExitsInTime), a client that waits   *)
(* for one goes on as soon as it can.  Neither a time-out nor an undefined  *)
(* join has to happen.                                                      *)
FairSpec ==
  Spec /\ \A t \in Tasks : WF_vars(Task(t)) /\ WF_vars(JoinReturn(t))

-----------------------------------------------------------------------------
NeverStarted(t) == os = "posix" /\ handle[t] \in {"valid", "joined"} /\ thread[t] = "none"

(***************************************************************************)
(* Nobody uses freed memory: the join frees *t and its semaphore only when *)
(* the task is past its last use of them, however the two interleave.  The *)
(* exceptions are a pthread_create that failed (osal_posix.c:90), after    *)
(* which osal_task_join waits for a thread that never was, and a FreeRTOS  *)
(* task that outlives the bounded wait of its join (osal_freertos.c:80).   *)
(* They do harm to their own task only.                                    *)
(***************************************************************************)
NoUseAfterFree == \A t \in touched : NeverStarted(t) \/ t \in late

(***************************************************************************)
(* A join that returned means that the task function has returned, so what *)
(* main destroys next is not in use: on FreeRTOS the semaphore gives the   *)
(* guarantee of pthread_join, for a task that ends within the 2^32 - 1     *)
(* ticks its join waits.                                                   *)
(***************************************************************************)
JoinMeansReturned ==
  \A t \in Tasks : handle[t] = "joined" /\ t \notin late => thread[t] \in {"none", "gone"}

(***************************************************************************)
(* Nothing leaks: what neither the client's handle nor the client's wait   *)
(* refers to is not allocated, after a failed create and after a join.     *)
(***************************************************************************)
NoLeak ==
  \A t \in Tasks : handle[t] # "valid" =>
    obj[t] # "live" /\ sem[t] \notin {"empty", "given"}

(* What the handle of a task says about its memory and its thread. *)
Consistent(t) ==
  /\ handle[t] = "none" => obj[t] = "none" /\ sem[t] = "none" /\ thread[t] = "none"
  /\ handle[t] = "null" => thread[t] = "none"
  /\ handle[t] = "valid" => obj[t] = "live"
  /\ handle[t] = "valid" /\ os = "posix" => sem[t] = "none" /\ thread[t] # "returned"
  /\ handle[t] = "valid" /\ os = "freertos" =>
       /\ thread[t] # "none"
       /\ sem[t] = IF thread[t] = "gone" THEN "given" ELSE "empty"
  /\ handle[t] = "joined" /\ thread[t] # "none" /\ os = "freertos" => sem[t] = "deleted"

(***************************************************************************)
(* The inductive invariant behind the three: *t and its semaphore exist    *)
(* exactly as long as the handle is valid, the semaphore is given exactly  *)
(* when the FreeRTOS task is gone (never twice, never early), and only a   *)
(* valid handle is waited for.  Only a joined FreeRTOS task is late.       *)
(***************************************************************************)
TInv ==
  /\ TTypeOK
  /\ \A t \in Tasks : Consistent(t)
  /\ joining # NoTask => handle[joining] = "valid"
  /\ \A t \in late : os = "freertos" /\ handle[t] = "joined"
  /\ JoinMeansReturned
  /\ NoLeak
  /\ NoUseAfterFree

(***************************************************************************)
(* osal_task_join returns once it is called on a task that was started:    *)
(* the semaphore is given exactly when the task ends, and the give is not  *)
(* lost when it precedes the take.                                         *)
(***************************************************************************)
JoinReturns ==
  \A t \in Tasks : (joining = t) ~> (handle[t] = "joined" \/ NeverStarted(t))
===============================================================================
