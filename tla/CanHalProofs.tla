------------------------------ MODULE CanHalProofs -----------------------------
(***************************************************************************)
(* Proofs about CanHal, for any callbacks, table sizes and socket queues,  *)
(* with either backend.                                                    *)
(***************************************************************************)
EXTENDS CanHal, SequenceTheorems, TLAPS

Starting == {"logger_init", "can_hal_init", "set_running", "create_reader", "create_tasks"}

(***************************************************************************)
(* The inductive invariant: who exists while main is where.  The logger's  *)
(* lock, if it was created, lives from its init to its shutdown; the       *)
(* table's lock and the socket from a can_hal_init that succeeded to the   *)
(* end of can_hal_shutdown; the can task, if it exists, is joined before   *)
(* can_hal_shutdown; a reader thread exists only on a socket and is gone   *)
(* before its close.                                                       *)
(***************************************************************************)
LocksByPhase ==
  /\ log_lock <=> log_ok /\ mpc \notin {"logger_init", "exited"}
  /\ hal.lock <=> hal.ok /\ mpc \notin {"logger_shutdown", "exited"}
  /\ hal.sock <=> hal.ok /\ backend = "socketcan" /\ mpc \notin {"logger_shutdown", "exited"}
  /\ hal.ok => mpc \notin {"logger_init", "can_hal_init"}
  /\ mpc \in {"set_running", "create_reader"} => hal.ok
  /\ mpc \in {"set_running", "create_reader", "join_reader", "close"} => backend = "socketcan"

CanByPhase ==
  /\ mpc \in Starting => cpc = "none"
  /\ mpc \in {"stop", "join_reader", "close", "logger_shutdown", "exited"} =>
       cpc \in {"none", "done"}
  /\ cpc = "dispatch" => backend = "virtual"
  /\ cpc = "register" => Len(hal.subs) < MaxSubscribers

ReaderByPhase ==
  /\ rpc # "none" => hal.ok /\ backend = "socketcan" /\ mpc \notin Starting \ {"create_tasks"}
  /\ rpc # "none" /\ mpc \notin {"close", "logger_shutdown", "exited"} => hal.rx_task
  /\ mpc \in {"close", "logger_shutdown", "exited"} => rpc \in {"none", "done"}
  /\ rpc = "done" => read_err \/ ~hal.running

TodoByPhase == todo # <<>> => cpc = "dispatch" \/ rpc = "dispatch"

-----------------------------------------------------------------------------
(* Tables and queues within their arrays. *)
LEMMA Bounded ==
  ASSUME NEW S, NEW n \in Nat, NEW q
  PROVE  q \in BoundedSeq(S, n) <=> q \in Seq(S) /\ Len(q) <= n
<1>1. ASSUME q \in BoundedSeq(S, n) PROVE q \in Seq(S) /\ Len(q) <= n
  <2>1. PICK m \in 0 .. n : q \in [1 .. m -> S]
    BY <1>1 DEF BoundedSeq, SeqOf
  <2> QED
    BY <2>1
<1>2. ASSUME q \in Seq(S), Len(q) <= n PROVE q \in BoundedSeq(S, n)
  <2>1. q \in [1 .. Len(q) -> S] /\ Len(q) \in 0 .. n
    BY <1>2
  <2> QED
    BY <2>1 DEF BoundedSeq, SeqOf
<1> QED
  BY <1>1, <1>2

LEMMA BoundedOps ==
  ASSUME NEW S, NEW n \in Nat
  PROVE  /\ <<>> \in BoundedSeq(S, n)
         /\ \A q \in BoundedSeq(S, n) : q \in Seq(S) /\ Len(q) \in 0 .. n
         /\ \A q \in BoundedSeq(S, n), x \in S : Len(q) < n => Append(q, x) \in BoundedSeq(S, n)
         /\ \A q \in BoundedSeq(S, n) : q # <<>> => Tail(q) \in BoundedSeq(S, n) /\ Head(q) \in S
<1>1. <<>> \in BoundedSeq(S, n)
  <2>1. <<>> \in Seq(S) /\ Len(<<>>) <= n
    OBVIOUS
  <2> QED
    BY <2>1, Bounded
<1>2. ASSUME NEW q \in BoundedSeq(S, n)
      PROVE  /\ q \in Seq(S) /\ Len(q) \in 0 .. n
             /\ \A x \in S : Len(q) < n => Append(q, x) \in BoundedSeq(S, n)
             /\ q # <<>> => Tail(q) \in BoundedSeq(S, n) /\ Head(q) \in S
  <2>1. q \in Seq(S) /\ Len(q) \in Nat /\ Len(q) <= n
    BY Bounded
  <2>2. ASSUME NEW x \in S, Len(q) < n PROVE Append(q, x) \in BoundedSeq(S, n)
    <3>1. Append(q, x) \in Seq(S) /\ Len(Append(q, x)) <= n
      BY <2>1, <2>2
    <3> QED
      BY <3>1, Bounded
  <2>3. ASSUME q # <<>> PROVE Tail(q) \in BoundedSeq(S, n) /\ Head(q) \in S
    <3>1. Tail(q) \in Seq(S) /\ Len(Tail(q)) <= n /\ Head(q) \in S
      BY <2>1, <2>3
    <3> QED
      BY <3>1, Bounded
  <2> QED
    BY <2>1, <2>2, <2>3
<1> QED
  BY <1>1, <1>2

(* The same for the three sequences of the model, and the static variables  *)
(* one by one.                                                              *)
Subs == BoundedSeq(Callbacks, MaxSubscribers)
Rxqs == BoundedSeq(Frames, RxCapacity)

LEMMA SubsOps ==
  /\ <<>> \in Subs
  /\ \A q \in Subs : q \in Seq(Callbacks) /\ Len(q) \in 0 .. MaxSubscribers
  /\ \A q \in Subs, x \in Callbacks : Len(q) < MaxSubscribers => Append(q, x) \in Subs
  /\ \A q \in Subs : q # <<>> => Tail(q) \in Subs
BY BoundedOps, CanHalAssumption DEF Subs

LEMMA RxqsOps ==
  /\ <<>> \in Rxqs
  /\ \A q \in Rxqs, x \in Frames : Len(q) < RxCapacity => Append(q, x) \in Rxqs
  /\ \A q \in Rxqs : q # <<>> => Tail(q) \in Rxqs /\ Head(q) \in Frames
BY BoundedOps, CanHalAssumption DEF Rxqs

Hals ==
  [lock : BOOLEAN, sock : BOOLEAN, rx_task : BOOLEAN, running : BOOLEAN, ok : BOOLEAN,
   subs : Subs]

(* A step that moves no more of them than the reader's handle and flag. *)
SameButFlags ==
  /\ hal'.lock = hal.lock /\ hal'.sock = hal.sock /\ hal'.ok = hal.ok
  /\ hal'.subs = hal.subs

TypeParts ==
  /\ backend \in Backends
  /\ mpc \in MainPcs /\ cpc \in CanPcs /\ rpc \in ReaderPcs
  /\ hal \in Hals
  /\ log_lock \in BOOLEAN /\ log_ok \in BOOLEAN /\ read_err \in BOOLEAN /\ crashed \in BOOLEAN
  /\ todo \in Subs /\ frame \in Frames /\ rxq \in Rxqs

LEMMA TypeIsParts == CHTypeOK <=> TypeParts
BY DEF CHTypeOK, TypeParts, Hals, HalT, Subs, Rxqs

CInv == TypeParts /\ LocksByPhase /\ CanByPhase /\ ReaderByPhase /\ TodoByPhase /\ LocksLive

LEMMA InitCInv == Init => CInv
<1> SUFFICES ASSUME Init PROVE CInv
  OBVIOUS
<1> USE DEF Init
<1>1. TypeParts
  BY SubsOps, RxqsOps DEF TypeParts, Hals, MainPcs, CanPcs, ReaderPcs, Frames
<1>2. LocksByPhase /\ LocksLive
  BY DEF LocksByPhase, LocksLive
<1>3. CanByPhase /\ ReaderByPhase /\ TodoByPhase
  BY DEF CanByPhase, ReaderByPhase, TodoByPhase, Starting
<1> QED
  BY <1>1, <1>2, <1>3 DEF CInv

LEMMA MainCInv ==
  ASSUME CInv, ~crashed, MainStep \/ RequestShutdown
  PROVE  CInv'
<1> USE SubsOps, RxqsOps
<1> USE DEF CInv, TypeParts, Hals, LocksByPhase, CanByPhase, ReaderByPhase, TodoByPhase, LocksLive,
            MainPcs, CanPcs, ReaderPcs, Starting, MainAt
<1>1. CASE LoggerInit
  <2>1. PICK ok \in BOOLEAN : log_lock' = ok /\ log_ok' = ok
    BY <1>1 DEF LoggerInit
  <2>2. MainAt("logger_init", "can_hal_init") /\ UNCHANGED <<cpc, rpc, hal, rxq>>
    BY <1>1 DEF LoggerInit
  <2> QED
    BY <2>1, <2>2
<1>2. CASE InitVirtual
  BY <1>2 DEF InitVirtual
<1>3. CASE InitSocket
  BY <1>3 DEF InitSocket
<1>4. CASE StartReader
  <2>1. UNCHANGED <<backend, todo, frame, read_err, crashed, cpc, log_lock, log_ok, rxq>>
    BY <1>4 DEF StartReader
  <2>2. /\ rpc = "none" /\ cpc = "none" /\ todo = <<>> /\ hal.ok /\ backend = "socketcan"
        /\ mpc \in {"set_running", "create_reader"}
    BY <1>4 DEF StartReader
  <2>3. CASE MainAt("set_running", "create_reader")
    <3>1. hal' = [hal EXCEPT !.running = TRUE] /\ rpc' = rpc
      BY <1>4, <2>3 DEF StartReader
    <3>2. hal' \in Hals /\ SameButFlags
      BY <3>1 DEF Hals, SameButFlags
    <3>3. mpc' = "create_reader"
      BY <2>3
    <3> QED
      BY <2>1, <2>2, <3>1, <3>2, <3>3 DEF Hals, SameButFlags
  <2>4. CASE MainAt("create_reader", "create_tasks") /\ UNCHANGED <<hal, rpc>>
    BY <2>1, <2>2, <2>4
  <2>5. CASE /\ MainAt("create_reader", "create_tasks")
             /\ hal' = [hal EXCEPT !.rx_task = TRUE]
             /\ rpc' \in {"loop", "none"}
    <3>1. hal' \in Hals /\ SameButFlags /\ hal'.rx_task
      BY <2>5 DEF Hals, SameButFlags
    <3>2. mpc' = "create_tasks" /\ rpc' \in {"loop", "none"}
      BY <2>5
    <3> QED
      BY <2>1, <2>2, <3>1, <3>2 DEF Hals, SameButFlags
  <2> QED
    BY <1>4, <2>3, <2>4, <2>5 DEF StartReader
<1>5. CASE CreateTasks
  BY <1>5 DEF CreateTasks
<1>6. CASE RequestShutdown
  BY <1>6 DEF RequestShutdown
<1>7. CASE JoinTasks
  BY <1>7 DEF JoinTasks, AfterJoin
<1>8. CASE ShutdownVirtual
  BY <1>8 DEF ShutdownVirtual
<1>9. CASE StopReader
  BY <1>9 DEF StopReader
<1>10. CASE JoinReader
  <2>1. PICK to \in {"close", "lost"} :
          /\ MainAt("join_reader", to)
          /\ hal' = [hal EXCEPT !.rx_task = (to = "lost")]
    BY <1>10 DEF JoinReader, AfterJoin
  <2>2. to = "lost" => rpc = "none"
    BY <1>10, <2>1 DEF JoinReader, AfterJoin
  <2>3. hal' \in Hals
    BY <2>1 DEF Hals
  <2>4. rpc \in {"done", "none"} /\ UNCHANGED <<cpc, rpc, log_lock, log_ok, rxq>>
    BY <1>10 DEF JoinReader
  <2> QED
    BY <2>1, <2>2, <2>3, <2>4
<1>11. CASE CloseSocket
  BY <1>11 DEF CloseSocket
<1>12. CASE LoggerShutdown
  BY <1>12 DEF LoggerShutdown
<1> QED
  BY <1>1, <1>2, <1>3, <1>4, <1>5, <1>6, <1>7, <1>8, <1>9, <1>10, <1>11, <1>12 DEF MainStep

LEMMA CanCInv ==
  ASSUME CInv, ~crashed, CanStep
  PROVE  CInv'
<1> USE SubsOps
<1> USE DEF CInv, TypeParts, Hals, LocksByPhase, CanByPhase, ReaderByPhase, TodoByPhase, LocksLive,
            MainPcs, CanPcs, ReaderPcs, Starting, CanOnly
<1>1. CASE Subscribe
  BY <1>1, CanHalAssumption DEF Subscribe
<1>2. CASE RegisterCallback
  <2>1. CASE ~hal.lock
    BY <1>2, <2>1 DEF RegisterCallback
  <2>2. CASE hal.lock
    <3>1. PICK cb \in Callbacks : hal' = [hal EXCEPT !.subs = Append(@, cb)]
      BY <1>2, <2>2 DEF RegisterCallback
    <3>2. Append(hal.subs, cb) \in Subs
      BY <1>2 DEF RegisterCallback
    <3> QED
      BY <1>2, <2>2, <3>1, <3>2 DEF RegisterCallback
  <2> QED
    BY <2>1, <2>2
<1>3. CASE LogLine
  BY <1>3 DEF LogLine, ShutdownRequested
<1>4. CASE SendVirtual
  BY <1>4 DEF SendVirtual, CopyTable, ShutdownRequested, Frames
<1>5. CASE CallVirtual
  BY <1>5 DEF CallVirtual, CallNext
<1> QED
  BY <1>1, <1>2, <1>3, <1>4, <1>5 DEF CanStep

LEMMA ReaderCInv ==
  ASSUME CInv, ~crashed, ReaderStep \/ Arrive
  PROVE  CInv'
<1> USE SubsOps, RxqsOps
<1> USE DEF CInv, TypeParts, Hals, LocksByPhase, CanByPhase, ReaderByPhase, TodoByPhase, LocksLive,
            MainPcs, CanPcs, ReaderPcs, Starting, ReaderOnly
<1>1. CASE ReaderLoop
  BY <1>1 DEF ReaderLoop
<1>2. CASE Read
  <2>1. CASE ReceiveFrame /\ UNCHANGED read_err
    BY <1>2, <2>1 DEF Read, ReceiveFrame
  <2>2. CASE rxq = <<>> /\ rpc' = "loop" /\ UNCHANGED <<rxq, frame, read_err>>
    BY <1>2, <2>2 DEF Read
  <2>3. CASE read_err' = TRUE /\ rpc' = "done" /\ UNCHANGED <<rxq, frame>>
    BY <1>2, <2>3 DEF Read
  <2> QED
    BY <1>2, <2>1, <2>2, <2>3 DEF Read
<1>3. CASE Snapshot
  BY <1>3 DEF Snapshot, CopyTable
<1>4. CASE CallReader
  <2>1. rpc = "dispatch" /\ (log_lock <=> log_ok)
    BY <1>4 DEF CallReader
  <2>2. CASE CallNext /\ UNCHANGED rpc
    BY <1>4, <2>1, <2>2 DEF CallReader, CallNext
  <2>3. CASE todo = <<>> /\ rpc' = "loop" /\ UNCHANGED <<todo, crashed>>
    BY <1>4, <2>1, <2>3 DEF CallReader
  <2> QED
    BY <1>4, <2>2, <2>3 DEF CallReader
<1>5. CASE Arrive
  BY <1>5 DEF Arrive
<1> QED
  BY <1>1, <1>2, <1>3, <1>4, <1>5 DEF ReaderStep

LEMMA NextCInv ==
  ASSUME CInv, [Next]_vars
  PROVE  CInv'
<1>1. CASE UNCHANGED vars
  BY <1>1 DEF CInv, TypeParts, LocksByPhase, CanByPhase, ReaderByPhase, TodoByPhase, LocksLive, vars
<1> QED
  BY <1>1, MainCInv, CanCInv, ReaderCInv DEF Next, Stopped

(***************************************************************************)
(* The counters of all threads and the table stay in their ranges, for     *)
(* every table size (MAX_SUBSCRIBERS) and queue length.                    *)
(***************************************************************************)
THEOREM HalTyped == Spec => []CHTypeOK
<1>1. CInv => CHTypeOK
  BY TypeIsParts DEF CInv
<1> QED
  BY <1>1, InitCInv, NextCInv, PTL DEF Spec

(***************************************************************************)
(* No thread locks a mutex that does not exist, unless can_hal_init failed *)
(* and main went on (main.c:33) or the logger never got its mutex          *)
(* (logger.c:17); with either backend, whichever threads could be created, *)
(* any callbacks and any table size.                                       *)
(***************************************************************************)
THEOREM LocksExist == Spec => []LocksLive
<1>1. CInv => LocksLive
  BY DEF CInv
<1> QED
  BY <1>1, InitCInv, NextCInv, PTL DEF Spec

(***************************************************************************)
(* The socket is never closed under a reader that still uses it            *)
(* (can_hal_shutdown joins before it closes).                              *)
(***************************************************************************)
THEOREM SocketOpen == Spec => []OpenWhileRead
<1>1. CInv => OpenWhileRead
  BY DEF CInv, OpenWhileRead, LocksByPhase, ReaderByPhase, Starting
<1> QED
  BY <1>1, InitCInv, NextCInv, PTL DEF Spec

(***************************************************************************)
(* While the layer is up the reader ends only by a read error.             *)
(***************************************************************************)
THEOREM ReaderListens == Spec => []Listening
<1>1. CInv => Listening
  BY DEF CInv, Listening, ReaderByPhase
<1> QED
  BY <1>1, InitCInv, NextCInv, PTL DEF Spec

-----------------------------------------------------------------------------
(***************************************************************************)
(* Every step is a step of the bus, or changes neither table nor callbacks *)
(* in hand.                                                                *)
(***************************************************************************)
LEMMA StepBus ==
  ASSUME CInv, [Next]_vars
  PROVE  [Bus!BusNext]_Bus!busVars
<1> USE DEF Bus!busVars, Bus!BusNext, Bus!Register, Bus!Carry, Bus!Call, Bus!Clear
<1>1. ASSUME MainStep \/ RequestShutdown
      PROVE  (todo = <<>> /\ hal'.subs = <<>> /\ todo' = todo) \/ UNCHANGED <<hal.subs, todo>>
  <2> USE DEF CInv, TypeParts, Hals, LocksByPhase, CanByPhase, ReaderByPhase, TodoByPhase, Starting, MainAt
  <2>1. CASE InitVirtual \/ InitSocket
    BY <2>1 DEF InitVirtual, InitSocket
  <2>2. CASE ShutdownVirtual
    BY <2>2 DEF ShutdownVirtual
  <2>3. CASE CloseSocket
    BY <2>3 DEF CloseSocket
  <2>4. CASE StartReader
    BY <2>4 DEF StartReader
  <2>5. CASE StopReader \/ JoinReader
    BY <2>5 DEF StopReader, JoinReader, AfterJoin
  <2>6. CASE LoggerInit \/ CreateTasks \/ JoinTasks \/ LoggerShutdown \/ RequestShutdown
    BY <2>6 DEF LoggerInit, CreateTasks, JoinTasks, AfterJoin, LoggerShutdown, RequestShutdown
  <2> QED
    BY <1>1, <2>1, <2>2, <2>3, <2>4, <2>5, <2>6 DEF MainStep
<1>2. CASE MainStep \/ RequestShutdown
  BY <1>1, <1>2
<1>3. CASE RegisterCallback
  <2>1. CASE ~hal.lock
    BY <1>3, <2>1 DEF RegisterCallback
  <2>2. CASE hal.lock
    <3>1. PICK cb \in Callbacks : hal' = [hal EXCEPT !.subs = Append(@, cb)]
      BY <1>3, <2>2 DEF RegisterCallback
    <3>2. Len(hal.subs) < MaxSubscribers /\ todo' = todo
      BY <1>3 DEF RegisterCallback, CInv, CanByPhase
    <3>3. hal'.subs = Append(hal.subs, cb)
      BY <3>1 DEF CInv, TypeParts, Hals
    <3> QED
      BY <3>2, <3>3
  <2> QED
    BY <2>1, <2>2
<1>4. CASE Subscribe \/ LogLine
  BY <1>4 DEF Subscribe, LogLine
<1>5. CASE SendVirtual
  BY <1>5 DEF SendVirtual, CopyTable, CInv, ReaderByPhase, TodoByPhase
<1>6. CASE CallVirtual
  BY <1>6 DEF CallVirtual, CallNext
<1>7. CASE ReaderLoop \/ Read
  BY <1>7 DEF ReaderLoop, Read, ReceiveFrame, ReaderOnly
<1>8. CASE Snapshot
  BY <1>8 DEF Snapshot, CopyTable, ReaderOnly, CInv, CanByPhase, ReaderByPhase, TodoByPhase
<1>9. CASE CallReader
  BY <1>9 DEF CallReader, CallNext, ReaderOnly
<1>10. CASE Arrive
  BY <1>10 DEF Arrive
<1>11. CASE UNCHANGED vars
  BY <1>11 DEF vars
<1> QED
  BY <1>2, <1>3, <1>4, <1>5, <1>6, <1>7, <1>8, <1>9, <1>10, <1>11
  DEF Next, Stopped, CanStep, ReaderStep

(***************************************************************************)
(* Both backends implement the bus of can_hal.h, for any callbacks and any *)
(* table size: every frame reaches once and in order the callbacks that    *)
(* were registered when it was carried, and the table is emptied only when *)
(* no callback is left to run.                                             *)
(***************************************************************************)
THEOREM HalIsBus == Spec => ImplementsCanBus
<1>1. Init => Bus!BusInit
  BY DEF Init, Bus!BusInit
<1> QED
  BY <1>1, InitCInv, NextCInv, StepBus, PTL DEF Spec, ImplementsCanBus, Bus!BusSpec
===============================================================================
