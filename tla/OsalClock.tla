------------------------------- MODULE OsalClock ------------------------------
(***************************************************************************)
(* The time arithmetic of src/osal/osal_posix.c: the millisecond tick, the *)
(* absolute deadline of a queue call and the interval of a delay.  A       *)
(* struct timespec is a record of seconds and nanoseconds.  Pure           *)
(* operators; OsalProofs shows what they compute.                          *)
(***************************************************************************)
EXTENDS Integers

NsPerMs  == 1000000
NsPerSec == 1000000000

Timespecs == {ts \in [tv_sec : Nat, tv_nsec : Nat] : ts.tv_nsec < NsPerSec}

(* Nanoseconds since the epoch of the clock. *)
InNs(ts) == ts.tv_sec * NsPerSec + ts.tv_nsec

(* C's / on signed integers rounds toward zero. *)
CDiv(a, b) == IF a >= 0 THEN a \div b ELSE -((-a) \div b)

(* osal_get_tick_ms before it is cut to 32 bits: the two differences stay   *)
(* signed until they are combined.                                          *)
TickMs64(start, now) ==
  (now.tv_sec - start.tv_sec) * 1000 + CDiv(now.tv_nsec - start.tv_nsec, NsPerMs)

TickMs(start, now) == TickMs64(start, now) % 4294967296

(* abs_deadline: the sum of nanoseconds is computed in a long. *)
DeadlineNs(now, timeout_ms) == now.tv_nsec + (timeout_ms % 1000) * NsPerMs

AbsDeadline(now, timeout_ms) ==
  [tv_sec  |-> now.tv_sec + timeout_ms \div 1000 + DeadlineNs(now, timeout_ms) \div NsPerSec,
   tv_nsec |-> DeadlineNs(now, timeout_ms) % NsPerSec]

(* What osal_task_delay_ms hands to nanosleep. *)
DelaySpec(ms) == [tv_sec |-> ms \div 1000, tv_nsec |-> (ms % 1000) * NsPerMs]
===============================================================================
