-------------------------------- MODULE CanBus --------------------------------
(***************************************************************************)
(* What src/can/can_hal.h promises a subscriber: every frame the bus       *)
(* carries is handed, once and in order of registration, to the callbacks  *)
(* registered when it arrived; frames are not interleaved; and after       *)
(* can_hal_shutdown no callback runs.                                      *)
(***************************************************************************)
EXTENDS Naturals, Sequences

CONSTANTS
  Callbacks,      \* the functions that may be registered
  MaxSubscribers  \* MAX_SUBSCRIBERS

VARIABLES
  subs,  \* registered callbacks, oldest first
  todo   \* callbacks that have yet to see the frame in hand

busVars == <<subs, todo>>

BusInit == subs = <<>> /\ todo = <<>>

(* can_hal_subscribe. *)
Register(cb) ==
  /\ Len(subs) < MaxSubscribers
  /\ subs' = Append(subs, cb)
  /\ UNCHANGED todo

(* The bus carries a frame. *)
Carry ==
  /\ todo = <<>>
  /\ todo' = subs
  /\ UNCHANGED subs

(* The next callback returns. *)
Call ==
  /\ todo # <<>>
  /\ todo' = Tail(todo)
  /\ UNCHANGED subs

(* can_hal_init and can_hal_shutdown empty the table, never under a         *)
(* callback's feet.                                                         *)
Clear ==
  /\ todo = <<>>
  /\ subs' = <<>>
  /\ UNCHANGED todo

BusNext == (\E cb \in Callbacks : Register(cb)) \/ Carry \/ Call \/ Clear

BusSpec == BusInit /\ [][BusNext]_busVars
===============================================================================
