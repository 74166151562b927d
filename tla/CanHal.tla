-------------------------------- MODULE CanHal --------------------------------
(***************************************************************************)
(* The CAN hardware abstraction layer with both of its backends            *)
(* (src/can/can_hal_virtual.c and src/can/can_hal_socketcan.c), the life   *)
(* main gives it, the can task that uses it, and the reader thread the     *)
(* SocketCAN backend starts.                                               *)
(*                                                                         *)
(* A critical section of g_sub_lock (g_bus_lock) only copies the table or  *)
(* appends to it, so it is one step; what can go wrong with the lock is    *)
(* that it does not exist: it is NULL after a failed can_hal_init and      *)
(* after can_hal_shutdown.  The same holds for the logger's lock.  Locking *)
(* a NULL osal_mutex_t ends the program (crashed).                         *)
(*                                                                         *)
(* A thread that could not be created leaves either a NULL handle, which   *)
(* osal_task_join skips, or, when pthread_create failed (osal_posix.c:90), *)
(* a handle without a thread: joining it is undefined, it returns or main  *)
(* never comes back from it (lost).                                        *)
(*                                                                         *)
(* A frame is "command" when on_charge_command can unpack it, and then the *)
(* callback writes a log line; any other frame is "other".                 *)
(***************************************************************************)
EXTENDS Naturals, Sequences, SequencesExt

CONSTANTS
  Backends,        \* the backends a build may link
  Callbacks,       \* the functions that may be registered
  MaxSubscribers,  \* MAX_SUBSCRIBERS
  RxCapacity       \* bound: frames the kernel queues on the socket

ASSUME CanHalAssumption ==
  /\ Backends \subseteq {"virtual", "socketcan"}
  /\ MaxSubscribers \in Nat \ {0}
  /\ RxCapacity \in Nat \ {0}

Frames == {"command", "other"}

VARIABLES
  backend,   \* the backend that was linked
  mpc,       \* main: the call it makes next
  cpc,       \* can task
  rpc,       \* reader thread, rx_task_main
  hal,       \* the static variables of the backend
  log_lock,  \* g_log_lock # NULL
  log_ok,    \* what osal_mutex_create gave logger_init was not NULL
  todo,      \* the part of local_subs that has not been called yet
  frame,     \* the frame in the dispatcher's hands
  rxq,       \* frames that wait in the socket
  read_err,  \* read() failed for another reason than its time-out
  crashed    \* a NULL mutex was locked

vars == <<backend, mpc, cpc, rpc, hal, log_lock, log_ok, todo, frame, rxq, read_err,
          crashed>>

MainPcs == {"logger_init", "can_hal_init", "set_running", "create_reader", "create_tasks",
            "sleep", "join_tasks", "stop", "join_reader", "close", "logger_shutdown", "exited",
            "lost"}
CanPcs == {"none", "subscribe", "register", "started", "loop", "dispatch", "done"}
ReaderPcs == {"none", "loop", "read", "snapshot", "dispatch", "done"}

(* What the file keeps: is there a lock, a socket, a reader thread, is it   *)
(* to run, and the first g_sub_count entries of g_subs; ok is what          *)
(* can_hal_init returned.                                                   *)
HalT ==
  [lock : BOOLEAN, sock : BOOLEAN, rx_task : BOOLEAN, running : BOOLEAN, ok : BOOLEAN,
   subs : BoundedSeq(Callbacks, MaxSubscribers)]

(* Program counters, and a table within its array. *)
CHTypeOK ==
  /\ backend \in Backends
  /\ mpc \in MainPcs /\ cpc \in CanPcs /\ rpc \in ReaderPcs
  /\ hal \in HalT
  /\ {log_lock, log_ok, read_err, crashed} \subseteq BOOLEAN
  /\ todo \in BoundedSeq(Callbacks, MaxSubscribers)
  /\ frame \in Frames
  /\ rxq \in BoundedSeq(Frames, RxCapacity)

Init ==
  /\ backend \in Backends
  /\ mpc = "logger_init" /\ cpc = "none" /\ rpc = "none"
  /\ hal = [lock |-> FALSE, sock |-> FALSE, rx_task |-> FALSE, running |-> FALSE,
            ok |-> FALSE, subs |-> <<>>]
  /\ todo = <<>> /\ frame = "other" /\ rxq = <<>>
  /\ log_lock = FALSE /\ log_ok = FALSE /\ read_err = FALSE /\ crashed = FALSE

-----------------------------------------------------------------------------
(***************************************************************************)
(* main, in program order.                                                 *)
(***************************************************************************)
MainAt(from, to) ==
  /\ mpc = from
  /\ mpc' = to
  /\ UNCHANGED <<backend, todo, frame, read_err, crashed>>

(* logger_init does not look at what osal_mutex_create returns.  Only the   *)
(* FreeRTOS one can return NULL, and that port links the virtual bus.       *)
LoggerInit ==
  /\ MainAt("logger_init", "can_hal_init")
  /\ \E ok \in IF backend = "virtual" THEN BOOLEAN ELSE {TRUE} : log_lock' = ok /\ log_ok' = ok
  /\ UNCHANGED <<cpc, rpc, hal, rxq>>

(* The virtual bus: only its mutex can be missing. *)
InitVirtual ==
  /\ backend = "virtual"
  /\ MainAt("can_hal_init", "create_tasks")
  /\ \E ok \in BOOLEAN : hal' = [hal EXCEPT !.lock = ok, !.ok = ok, !.subs = <<>>]
  /\ UNCHANGED <<cpc, rpc, log_lock, log_ok, rxq>>

(* SocketCAN: if socket(), SIOCGIFINDEX or bind() fails the socket is       *)
(* closed again and nothing else exists.  main does not look at the result. *)
InitSocket ==
  /\ backend = "socketcan"
  /\ \/ /\ MainAt("can_hal_init", "set_running")
        /\ hal' = [hal EXCEPT !.sock = TRUE, !.lock = TRUE, !.ok = TRUE, !.subs = <<>>]
     \/ /\ MainAt("can_hal_init", "create_tasks")
        /\ UNCHANGED hal
  /\ UNCHANGED <<cpc, rpc, log_lock, log_ok, rxq>>

(* Mutant: the thread is created before the flag it runs by is set. *)
StartReaderFirst ==
  /\ \/ /\ MainAt("set_running", "create_reader")
        /\ hal' = [hal EXCEPT !.rx_task = TRUE]
        /\ rpc' = "loop"
     \/ /\ MainAt("create_reader", "create_tasks")
        /\ hal' = [hal EXCEPT !.running = TRUE]
        /\ UNCHANGED rpc
  /\ UNCHANGED <<cpc, log_lock, log_ok, rxq>>

(* The end of can_hal_init: g_running first, then the thread.  Without      *)
(* memory for its object there is no handle either; without a thread there  *)
(* is one all the same, and can_hal_init still returns 0.                   *)
StartReader ==
  /\ \/ /\ MainAt("set_running", "create_reader")
        /\ hal' = [hal EXCEPT !.running = TRUE]
        /\ UNCHANGED rpc
     \/ /\ MainAt("create_reader", "create_tasks")
        /\ \/ hal' = [hal EXCEPT !.rx_task = TRUE] /\ rpc' \in {"loop", "none"}
           \/ UNCHANGED <<hal, rpc>>
  /\ UNCHANGED <<cpc, log_lock, log_ok, rxq>>

(* The can task runs, has no thread behind its handle, or has no handle and *)
(* so nothing that main would wait for.                                     *)
CreateTasks ==
  /\ MainAt("create_tasks", "sleep")
  /\ cpc' \in {"subscribe", "none", "done"}
  /\ UNCHANGED <<rpc, hal, log_lock, log_ok, rxq>>

(* A log line, and then g_shutdown, which is set exactly while main is past *)
(* this point.                                                              *)
RequestShutdown ==
  /\ mpc = "sleep" /\ mpc' = "join_tasks"
  /\ crashed' = ~log_lock
  /\ UNCHANGED <<backend, cpc, rpc, hal, log_lock, log_ok, todo, frame, rxq, read_err>>

ShutdownRequested ==
  mpc \in {"join_tasks", "stop", "join_reader", "close", "logger_shutdown", "exited", "lost"}

(* Where main may be after osal_task_join on a handle whose thread is at pc. *)
AfterJoin(pc, next) == IF pc = "none" THEN {next, "lost"} ELSE {next}

JoinTasks ==
  /\ cpc \in {"done", "none"}
  /\ \E to \in AfterJoin(cpc, "stop") : MainAt("join_tasks", to)
  /\ UNCHANGED <<cpc, rpc, hal, log_lock, log_ok, rxq>>

ShutdownVirtual ==
  /\ backend = "virtual"
  /\ MainAt("stop", "logger_shutdown")
  /\ hal' = [hal EXCEPT !.subs = <<>>, !.lock = FALSE]
  /\ UNCHANGED <<cpc, rpc, log_lock, log_ok, rxq>>

(* Mutant: the socket is closed to wake the reader up. *)
StopReaderByClose ==
  /\ backend = "socketcan"
  /\ MainAt("stop", IF hal.rx_task THEN "join_reader" ELSE "close")
  /\ hal' = [hal EXCEPT !.running = FALSE, !.sock = FALSE]
  /\ UNCHANGED <<cpc, rpc, log_lock, log_ok, rxq>>

StopReader ==
  /\ backend = "socketcan"
  /\ MainAt("stop", IF hal.rx_task THEN "join_reader" ELSE "close")
  /\ hal' = [hal EXCEPT !.running = FALSE]
  /\ UNCHANGED <<cpc, rpc, log_lock, log_ok, rxq>>

(* Mutant: shutdown does not wait for the reader. *)
JoinReaderNoWait ==
  /\ MainAt("join_reader", "close")
  /\ hal' = [hal EXCEPT !.rx_task = FALSE]
  /\ UNCHANGED <<cpc, rpc, log_lock, log_ok, rxq>>

JoinReader ==
  /\ rpc \in {"done", "none"}
  /\ \E to \in AfterJoin(rpc, "close") :
       /\ MainAt("join_reader", to)
       /\ hal' = [hal EXCEPT !.rx_task = (to = "lost")]
  /\ UNCHANGED <<cpc, rpc, log_lock, log_ok, rxq>>

CloseSocket ==
  /\ MainAt("close", "logger_shutdown")
  /\ hal' = [hal EXCEPT !.sock = FALSE, !.lock = FALSE, !.subs = <<>>]
  /\ rxq' = <<>>
  /\ UNCHANGED <<cpc, rpc, log_lock, log_ok>>

LoggerShutdown ==
  /\ MainAt("logger_shutdown", "exited")
  /\ log_lock' = FALSE
  /\ UNCHANGED <<cpc, rpc, hal, log_ok, rxq>>

MainStep ==
  \/ LoggerInit \/ InitVirtual \/ InitSocket \/ StartReader \/ CreateTasks \/ JoinTasks
  \/ ShutdownVirtual \/ StopReader \/ JoinReader \/ CloseSocket \/ LoggerShutdown

-----------------------------------------------------------------------------
(***************************************************************************)
(* The can task.  It registers one callback; the interface lets a thread   *)
(* register more, so it may come back until the table refuses.             *)
(***************************************************************************)
CanOnly == UNCHANGED <<backend, mpc, rpc, log_lock, log_ok, rxq, read_err>>

(* Mutant: > instead of >=. *)
SubscribeOneTooMany ==
  /\ cpc = "subscribe"
  /\ cpc' = IF Len(hal.subs) > MaxSubscribers THEN "started" ELSE "register"
  /\ CanOnly /\ UNCHANGED <<hal, todo, frame, crashed>>

(* The test of g_sub_count, made before the lock is taken. *)
Subscribe ==
  /\ cpc = "subscribe"
  /\ cpc' = IF Len(hal.subs) >= MaxSubscribers THEN "started" ELSE "register"
  /\ CanOnly /\ UNCHANGED <<hal, todo, frame, crashed>>

RegisterCallback ==
  /\ cpc = "register"
  /\ crashed' = ~hal.lock
  /\ hal.lock =>
       /\ \E cb \in Callbacks : hal' = [hal EXCEPT !.subs = Append(@, cb)]
       /\ cpc' \in {"subscribe", "started"}
  /\ ~hal.lock => UNCHANGED <<hal, cpc>>
  /\ CanOnly /\ UNCHANGED <<todo, frame>>

(* "task started" and, once shutdown is requested, "task exiting". *)
LogLine ==
  /\ \/ cpc = "started" /\ cpc' = "loop"
     \/ cpc = "loop" /\ ShutdownRequested /\ cpc' = "done"
  /\ crashed' = ~log_lock
  /\ CanOnly /\ UNCHANGED <<hal, todo, frame>>

(* A dispatcher copies the table under the lock. *)
CopyTable ==
  /\ crashed' = ~hal.lock
  /\ todo' = IF hal.lock THEN hal.subs ELSE todo

(* can_hal_send on the virtual bus dispatches its own frame.  On a socket   *)
(* it is one write(), which leaves nothing behind in this process.          *)
SendVirtual ==
  /\ cpc = "loop" /\ ~ShutdownRequested
  /\ backend = "virtual"
  /\ CopyTable
  /\ frame' = "other"
  /\ cpc' = "dispatch"
  /\ CanOnly /\ UNCHANGED hal

(* The next callback of the copied table; on_charge_command logs a command. *)
CallNext ==
  /\ todo # <<>>
  /\ todo' = Tail(todo)
  /\ crashed' = (frame = "command" /\ ~log_lock)

CallVirtual ==
  /\ cpc = "dispatch"
  /\ \/ CallNext /\ UNCHANGED cpc
     \/ todo = <<>> /\ cpc' = "loop" /\ UNCHANGED <<todo, crashed>>
  /\ CanOnly /\ UNCHANGED <<hal, frame>>

CanStep == Subscribe \/ RegisterCallback \/ LogLine \/ SendVirtual \/ CallVirtual

-----------------------------------------------------------------------------
(***************************************************************************)
(* The reader thread.                                                      *)
(***************************************************************************)
ReaderOnly == UNCHANGED <<backend, mpc, cpc, hal, log_lock, log_ok>>

ReaderLoop ==
  /\ rpc = "loop"
  /\ rpc' = IF hal.running THEN "read" ELSE "done"
  /\ ReaderOnly /\ UNCHANGED <<todo, frame, rxq, read_err, crashed>>

ReceiveFrame ==
  /\ rxq # <<>>
  /\ frame' = Head(rxq)
  /\ rxq' = Tail(rxq)
  /\ rpc' = "snapshot"

(* Mutant: SO_RCVTIMEO is not set, read() waits for a frame. *)
ReadForever ==
  /\ rpc = "read"
  /\ ReceiveFrame
  /\ ReaderOnly /\ UNCHANGED <<todo, crashed, read_err>>

(* Mutant: the time-out is taken for an error. *)
ReadGivesUp ==
  /\ rpc = "read"
  /\ \/ ReceiveFrame
     \/ rxq = <<>> /\ rpc' = "done" /\ UNCHANGED <<rxq, frame>>
  /\ ReaderOnly /\ UNCHANGED <<todo, crashed, read_err>>

(* read(): a frame, the SO_RCVTIMEO time-out (or a signal, or something     *)
(* that is no CAN frame), or an error, after which the loop is left.        *)
Read ==
  /\ rpc = "read"
  /\ \/ ReceiveFrame /\ UNCHANGED read_err
     \/ rxq = <<>> /\ rpc' = "loop" /\ UNCHANGED <<rxq, frame, read_err>>
     \/ read_err' = TRUE /\ rpc' = "done" /\ UNCHANGED <<rxq, frame>>
  /\ ReaderOnly /\ UNCHANGED <<todo, crashed>>

Snapshot ==
  /\ rpc = "snapshot"
  /\ CopyTable
  /\ rpc' = "dispatch"
  /\ ReaderOnly /\ UNCHANGED <<frame, rxq, read_err>>

CallReader ==
  /\ rpc = "dispatch"
  /\ \/ CallNext /\ UNCHANGED rpc
     \/ todo = <<>> /\ rpc' = "loop" /\ UNCHANGED <<todo, crashed>>
  /\ ReaderOnly /\ UNCHANGED <<frame, rxq, read_err>>

ReaderStep == ReaderLoop \/ Read \/ Snapshot \/ CallReader

(* Another node sends a frame.  A socket does not hear its own frames, and  *)
(* the kernel drops what its queue cannot take.                             *)
Arrive ==
  /\ hal.sock /\ Len(rxq) < RxCapacity
  /\ \E f \in Frames : rxq' = Append(rxq, f)
  /\ UNCHANGED <<backend, mpc, cpc, rpc, hal, log_lock, log_ok, todo, frame, read_err, crashed>>

Stopped == (crashed \/ mpc \in {"exited", "lost"}) /\ UNCHANGED vars

Next ==
  \/ ~crashed /\ (MainStep \/ RequestShutdown \/ CanStep \/ ReaderStep \/ Arrive)
  \/ Stopped

Spec == Init /\ [][Next]_vars

(* Threads are scheduled, callbacks return and read() times out.  How long  *)
(* main sleeps is left open: on the target it never wakes up.  Nobody has   *)
(* to send anything.                                                        *)
FairSpec ==
  /\ Spec
  /\ WF_vars(~crashed /\ MainStep)
  /\ WF_vars(~crashed /\ CanStep)
  /\ WF_vars(~crashed /\ ReaderStep)

-----------------------------------------------------------------------------
(***************************************************************************)
(* No thread ever locks a mutex that does not exist, from the first line   *)
(* of the can task to the last callback of the reader, although main       *)
(* destroys the lock of the table and then the logger's; the exceptions    *)
(* are a can_hal_init that failed, which main ignores (main.c:33), and a   *)
(* logger_init that got no mutex, which it does not notice (logger.c:17).  *)
(***************************************************************************)
LocksLive == crashed => ~hal.ok \/ ~log_ok

(***************************************************************************)
(* can_hal_shutdown never closes the socket under a reader that is, or     *)
(* will be, in read() (can_hal_socketcan.c:203-206).                       *)
(***************************************************************************)
OpenWhileRead == rpc \in {"read", "snapshot", "dispatch"} => hal.sock

(***************************************************************************)
(* While the layer is up the reader thread listens: it ends only after     *)
(* can_hal_shutdown has cleared g_running, or for good when read() fails   *)
(* (can_hal_socketcan.c:83), which nothing else in the program notices.    *)
(***************************************************************************)
Listening == hal.running /\ hal.rx_task /\ ~read_err => rpc # "done"

(***************************************************************************)
(* Both backends implement the bus of can_hal.h: a frame goes once to      *)
(* every callback that was registered when it arrived, whoever registers   *)
(* meanwhile, and none runs once can_hal_shutdown has emptied the table.   *)
(***************************************************************************)
Bus == INSTANCE CanBus WITH subs <- hal.subs
ImplementsCanBus == Bus!BusSpec

(***************************************************************************)
(* can_hal_shutdown returns and main ends, on an idle bus (the reader is   *)
(* blocked in read()) and on one that never falls silent.  Main is lost    *)
(* only in the join of a thread that never existed (osal_posix.c:90), the  *)
(* can task or the reader.                                                 *)
(***************************************************************************)
LostInJoin == mpc = "lost" /\ (cpc = "none" \/ (hal.rx_task /\ rpc = "none"))
ShutdownReturns == (mpc = "join_tasks") ~> (mpc = "exited" \/ LostInJoin \/ crashed)

(***************************************************************************)
(* The socket's queue does not stay full: the reader makes room, unless    *)
(* its thread was never created (with or without a handle for it), it died *)
(* of a read error or the layer is being shut down.                        *)
(***************************************************************************)
NoReader == rpc = "none" /\ mpc \notin {"set_running", "create_reader"}
Heard ==
  (Len(rxq) = RxCapacity) ~>
    \/ Len(rxq) < RxCapacity
    \/ NoReader \/ read_err \/ ShutdownRequested \/ crashed
===============================================================================
