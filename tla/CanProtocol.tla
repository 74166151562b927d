------------------------------ MODULE CanProtocol ------------------------------
(***************************************************************************)
(* The wire format of can_protocol.c and a frame's way through the         *)
(* SocketCAN backend: pack, send, receive, unpack.                         *)
(*                                                                         *)
(* A message is a record with its kind; an unpacker returns the set of the *)
(* messages it found, empty when it returns -1.                            *)
(***************************************************************************)
EXTENDS Integers, Sequences

CONSTANTS
  CellCount,   \* BMS_CELL_COUNT
  Statuses, Voltages, Faults, Commands,  \* the messages that are sent
  Garbage      \* what a byte that was never written may hold

Byte == 0 .. 255

UINT16_MAX == 65535

UInt16 == 0 .. UINT16_MAX

INT16_MIN == -32768

INT16_MAX == 32767

Int16 == INT16_MIN .. INT16_MAX

CellIndex == 0 .. CellCount - 1

StatusT ==
  [kind : {"status"}, pack_voltage_mv : UInt16, pack_current_ca : Int16,
   soc_percent_x2 : Byte, state : Byte]

VoltagesT == [kind : {"voltages"}, cell_mv : [CellIndex -> UInt16]]

FaultT == [kind : {"fault"}, fault_bitmask : UInt16, severity : Byte]

CommandT == [kind : {"command"}, requested_current_x10 : UInt16]

ASSUME CanAssumption ==
  /\ CellCount \in 1 .. 32
  /\ Statuses \subseteq StatusT /\ Voltages \subseteq VoltagesT
  /\ Faults \subseteq FaultT /\ Commands \subseteq CommandT
  /\ Garbage \subseteq Byte

CAN_MAX_DLC == 64

(* 0x7FF, of linux/can.h. *)
CAN_SFF_MASK == 2047

FrameT == [id : Nat, dlc : 0 .. CAN_MAX_DLC, data : [0 .. CAN_MAX_DLC - 1 -> Byte]]

CAN_ID_FAULT_REPORT == 128

CAN_ID_BMS_STATUS == 256

CAN_ID_CELL_VOLTAGES == 257

CAN_ID_CHARGE_COMMAND == 512

-----------------------------------------------------------------------------
(* put_u16, one byte at a time, and get_u16: big-endian. *)
Hi(v) == v \div 256

Lo(v) == v % 256

GetU16(f, i) == f.data[i] * 256 + f.data[i + 1]

(* The casts between int16_t and uint16_t. *)
ToUInt16(n) == n % 65536

ToInt16(u) == IF u > 32767 THEN u - 65536 ELSE u

(* A frame that was memset to zero before its first bytes were written. *)
Frame(id, bytes) ==
  [id   |-> id,
   dlc  |-> Len(bytes),
   data |-> [i \in 0 .. CAN_MAX_DLC - 1 |-> IF i < Len(bytes) THEN bytes[i + 1] ELSE 0]]

PackStatus(m) ==
  LET ca == ToUInt16(m.pack_current_ca)
  IN  Frame(CAN_ID_BMS_STATUS,
            <<Hi(m.pack_voltage_mv), Lo(m.pack_voltage_mv), Hi(ca), Lo(ca),
              m.soc_percent_x2, m.state>>)

PackVoltages(m) ==
  [id   |-> CAN_ID_CELL_VOLTAGES,
   dlc  |-> CellCount * 2,
   data |-> [i \in 0 .. CAN_MAX_DLC - 1 |->
               IF i >= CellCount * 2 THEN 0
               ELSE IF i % 2 = 0 THEN Hi(m.cell_mv[i \div 2]) ELSE Lo(m.cell_mv[i \div 2])]]

PackFault(m) ==
  Frame(CAN_ID_FAULT_REPORT, <<Hi(m.fault_bitmask), Lo(m.fault_bitmask), m.severity>>)

(* The charger's side: not part of this repository. *)
PackCommand(m) ==
  Frame(CAN_ID_CHARGE_COMMAND, <<Hi(m.requested_current_x10), Lo(m.requested_current_x10)>>)

(* Mutant of UnpackStatus: the bound is that of the last 16-bit signal. *)
UnpackStatusShort(f) ==
  IF f.id # CAN_ID_BMS_STATUS \/ f.dlc < 4 THEN {}
  ELSE {[kind            |-> "status",
         pack_voltage_mv |-> GetU16(f, 0),
         pack_current_ca |-> ToInt16(GetU16(f, 2)),
         soc_percent_x2  |-> f.data[4],
         state           |-> f.data[5]]}

UnpackStatus(f) ==
  IF f.id # CAN_ID_BMS_STATUS \/ f.dlc < 6 THEN {}
  ELSE {[kind            |-> "status",
         pack_voltage_mv |-> GetU16(f, 0),
         pack_current_ca |-> ToInt16(GetU16(f, 2)),
         soc_percent_x2  |-> f.data[4],
         state           |-> f.data[5]]}

UnpackVoltages(f) ==
  IF f.id # CAN_ID_CELL_VOLTAGES \/ f.dlc < CellCount * 2 THEN {}
  ELSE {[kind |-> "voltages", cell_mv |-> [i \in CellIndex |-> GetU16(f, i * 2)]]}

UnpackFault(f) ==
  IF f.id # CAN_ID_FAULT_REPORT \/ f.dlc < 3 THEN {}
  ELSE {[kind |-> "fault", fault_bitmask |-> GetU16(f, 0), severity |-> f.data[2]]}

UnpackCommand(f) ==
  IF f.id # CAN_ID_CHARGE_COMMAND \/ f.dlc < 2 THEN {}
  ELSE {[kind |-> "command", requested_current_x10 |-> GetU16(f, 0)]}

-----------------------------------------------------------------------------
VARIABLES
  stage,    \* how far the message has got
  msg,      \* what was sent
  frame,    \* as packed
  rx,       \* as the reader thread hands it to the callbacks
  accepted  \* what the unpackers made of it

vars == <<stage, msg, frame, rx, accepted>>

Messages == Statuses \cup Voltages \cup Faults \cup Commands

Pack(m) ==
  CASE m.kind = "status" -> PackStatus(m)
    [] m.kind = "voltages" -> PackVoltages(m)
    [] m.kind = "fault" -> PackFault(m)
    [] m.kind = "command" -> PackCommand(m)

Init ==
  /\ stage = "packed"
  /\ msg \in Messages
  /\ frame = Pack(msg)
  /\ rx = frame
  /\ accepted = {}

(* Every callback sees every frame. *)
Decode(f) == UnpackStatus(f) \cup UnpackVoltages(f) \cup UnpackFault(f) \cup UnpackCommand(f)

(* The next message. *)
Send ==
  /\ stage = "unpacked"
  /\ stage' = "packed"
  /\ msg' \in Messages
  /\ frame' = Pack(msg')
  /\ rx' = frame'
  /\ accepted' = {}

(* The reader keeps the 11 bits of a standard identifier and copies dlc    *)
(* bytes into a frame on its stack: what is behind them was never written. *)
Received(f, len, g) ==
  [id |-> f.id % (CAN_SFF_MASK + 1), dlc |-> len,
   data |-> [i \in DOMAIN f.data |-> IF i < len THEN f.data[i] ELSE g]]

(* A CAN-FD controller rounds the length up, with zeros; another node may  *)
(* send a shorter frame under the same identifier.                         *)
Receive ==
  /\ stage = "packed"
  /\ stage' = "received"
  /\ \E len \in 0 .. CAN_MAX_DLC, g \in Garbage : rx' = Received(frame, len, g)
  /\ UNCHANGED <<msg, frame, accepted>>

Unpack ==
  /\ stage = "received"
  /\ stage' = "unpacked"
  /\ accepted' = Decode(rx)
  /\ UNCHANGED <<msg, frame, rx>>

Next == Receive \/ Unpack \/ Send

Spec == Init /\ [][Next]_vars

(***************************************************************************)
(* A frame is decoded by exactly the unpacker of its kind, to exactly the  *)
(* message that was packed, when it is complete; when it is shorter no     *)
(* unpacker accepts it, so that no byte that was never written is read.    *)
(***************************************************************************)
DecodesExactly ==
  stage = "unpacked" => accepted = IF rx.dlc < frame.dlc THEN {} ELSE {msg}
===============================================================================
