-------------------------- MODULE CanProtocolProofs --------------------------
(***************************************************************************)
(* DecodesExactly for every pack of up to 32 cells, every message, every   *)
(* received length and every content of the bytes that were not written.   *)
(***************************************************************************)
EXTENDS CanProtocol, TLAPS

(* The limits stay unexpanded where they bound an interval: the provers    *)
(* would enumerate a literal one.                                          *)
LEMMA MaxValue == UINT16_MAX \in Int /\ UINT16_MAX = 65535
  BY DEF UINT16_MAX

LEMMA SignedLimits ==
  /\ INT16_MIN \in Int /\ INT16_MIN = 0 - 32768
  /\ INT16_MAX \in Int /\ INT16_MAX = 32767
  BY DEF INT16_MIN, INT16_MAX

LEMMA InUInt16 ==
  ASSUME NEW x \in Int, 0 <= x, x <= 65535
  PROVE  x \in UInt16
<1>1. UINT16_MAX \in Int
  BY MaxValue
<1>2. x <= UINT16_MAX
  BY MaxValue
<1> QED BY <1>1, <1>2 DEF UInt16

(* put_u16 writes two bytes from which get_u16 computes the value again. *)
LEMMA U16RoundTrip ==
  ASSUME NEW v \in UInt16
  PROVE  Hi(v) \in Byte /\ Lo(v) \in Byte /\ Hi(v) * 256 + Lo(v) = v
<1>1. v \in Int /\ 0 <= v /\ v <= UINT16_MAX
  BY MaxValue DEF UInt16
<1>2. v <= 65535
  BY <1>1, MaxValue
<1> QED BY <1>1, <1>2 DEF Byte, Hi, Lo

(* The casts lose nothing. *)
LEMMA CastRoundTrip ==
  ASSUME NEW n \in Int16
  PROVE  ToUInt16(n) \in UInt16 /\ ToInt16(ToUInt16(n)) = n
<1>1. n \in Int /\ n >= 0 - 32768 /\ n <= 32767
  <2>1. INT16_MIN \in Int /\ INT16_MAX \in Int
    BY SignedLimits
  <2>2. n \in Int /\ n >= INT16_MIN /\ n <= INT16_MAX
    BY <2>1 DEF Int16
  <2> QED BY <2>2, SignedLimits
<1>2. CASE n >= 0
  <2>1. n % 65536 = n
    BY <1>1, <1>2
  <2>2. ToUInt16(n) = n
    BY <2>1 DEF ToUInt16
  <2> QED BY <1>1, <1>2, <2>2, InUInt16 DEF ToInt16
<1>3. CASE n < 0
  <2>1. n % 65536 = n + 65536
    BY <1>1, <1>3
  <2>2. ToUInt16(n) = n + 65536
    BY <2>1 DEF ToUInt16
  <2>3. n + 65536 \in UInt16
    <3>1. n + 65536 \in Int
      BY <1>1
    <3>2. 0 <= n + 65536
      BY <1>1
    <3>3. n + 65536 <= 65535
      BY <1>1, <1>3
    <3> QED BY <3>1, <3>2, <3>3, InUInt16
  <2>4. ToInt16(n + 65536) = n
    BY <1>1, <1>3 DEF ToInt16
  <2> QED BY <2>2, <2>3, <2>4
<1> QED BY <1>1, <1>2, <1>3

(* What a message's kind says of the set it comes from. *)
LEMMA Kinds ==
  ASSUME NEW m \in Messages
  PROVE  \/ m \in StatusT /\ m.kind = "status" /\ Pack(m) = PackStatus(m)
         \/ m \in VoltagesT /\ m.kind = "voltages" /\ Pack(m) = PackVoltages(m)
         \/ m \in FaultT /\ m.kind = "fault" /\ Pack(m) = PackFault(m)
         \/ m \in CommandT /\ m.kind = "command" /\ Pack(m) = PackCommand(m)
<1>1. CASE m \in Statuses
  BY <1>1, CanAssumption DEF StatusT, Pack
<1>2. CASE m \in Voltages
  BY <1>2, CanAssumption DEF VoltagesT, Pack
<1>3. CASE m \in Faults
  BY <1>3, CanAssumption DEF FaultT, Pack
<1>4. CASE m \in Commands
  BY <1>4, CanAssumption DEF CommandT, Pack
<1> QED BY <1>1, <1>2, <1>3, <1>4 DEF Messages

LEMMA StatusDecoded ==
  ASSUME NEW m \in StatusT, m.kind = "status", NEW len \in 0 .. CAN_MAX_DLC, NEW g
  PROVE  /\ PackStatus(m).dlc = 6
         /\ Decode(Received(PackStatus(m), len, g)) = IF len < 6 THEN {} ELSE {m}
<1> DEFINE f == PackStatus(m)
           r == Received(f, len, g)
           ca == ToUInt16(m.pack_current_ca)
<1>1. /\ f.id = 256 /\ f.dlc = 6 /\ DOMAIN f.data = 0 .. 63
      /\ f.data[0] = Hi(m.pack_voltage_mv) /\ f.data[1] = Lo(m.pack_voltage_mv)
      /\ f.data[2] = Hi(ca) /\ f.data[3] = Lo(ca)
      /\ f.data[4] = m.soc_percent_x2 /\ f.data[5] = m.state
  BY DEF PackStatus, Frame, CAN_MAX_DLC, CAN_ID_BMS_STATUS
<1> HIDE DEF f
<1>2. /\ r.id = 256 /\ r.dlc = len
      /\ len >= 6 => \A i \in 0 .. 5 : r.data[i] = f.data[i]
  BY <1>1 DEF Received, CAN_MAX_DLC, CAN_SFF_MASK
<1> HIDE DEF r
<1>3. UnpackVoltages(r) = {} /\ UnpackFault(r) = {} /\ UnpackCommand(r) = {}
  BY <1>2 DEF UnpackVoltages, UnpackFault, UnpackCommand, CAN_ID_CELL_VOLTAGES,
              CAN_ID_FAULT_REPORT, CAN_ID_CHARGE_COMMAND
<1>4. CASE len < 6
  BY <1>1, <1>2, <1>3, <1>4 DEF Decode, UnpackStatus, CAN_ID_BMS_STATUS, CAN_MAX_DLC, f, r
<1>5. CASE len >= 6
  <2>1. GetU16(r, 0) = m.pack_voltage_mv
    BY <1>1, <1>2, <1>5, U16RoundTrip DEF GetU16, StatusT
  <2>2. ToInt16(GetU16(r, 2)) = m.pack_current_ca
    <3>1. m.pack_current_ca \in Int16
      BY DEF StatusT
    <3>2. ca \in UInt16 /\ ToInt16(ca) = m.pack_current_ca
      BY <3>1, CastRoundTrip
    <3>3. GetU16(r, 2) = ca
      BY <1>1, <1>2, <1>5, <3>2, U16RoundTrip DEF GetU16
    <3> QED BY <3>2, <3>3
  <2>3. r.data[4] = m.soc_percent_x2 /\ r.data[5] = m.state
    BY <1>1, <1>2, <1>5
  <2>4. m = [kind |-> "status", pack_voltage_mv |-> m.pack_voltage_mv,
             pack_current_ca |-> m.pack_current_ca,
             soc_percent_x2 |-> m.soc_percent_x2, state |-> m.state]
    BY DEF StatusT
  <2>5. UnpackStatus(r) = {m}
    BY <1>2, <1>5, <2>1, <2>2, <2>3, <2>4 DEF UnpackStatus, CAN_ID_BMS_STATUS, CAN_MAX_DLC
  <2> QED BY <1>1, <1>3, <1>5, <2>5 DEF Decode, f, r, CAN_MAX_DLC
<1> QED BY <1>4, <1>5 DEF CAN_MAX_DLC
LEMMA VoltagesDecoded ==
  ASSUME NEW m \in VoltagesT, m.kind = "voltages", NEW len \in 0 .. CAN_MAX_DLC, NEW g
  PROVE  /\ PackVoltages(m).dlc = CellCount * 2
         /\ Decode(Received(PackVoltages(m), len, g)) = IF len < CellCount * 2 THEN {} ELSE {m}
<1> DEFINE f == PackVoltages(m)
           r == Received(f, len, g)
<1>0. CellCount \in 1 .. 32
  BY CanAssumption
<1>1. /\ f.id = 257 /\ f.dlc = CellCount * 2 /\ DOMAIN f.data = 0 .. 63
      /\ \A c \in CellIndex : f.data[c * 2] = Hi(m.cell_mv[c]) /\ f.data[c * 2 + 1] = Lo(m.cell_mv[c])
  <2>1. f.id = 257 /\ f.dlc = CellCount * 2 /\ DOMAIN f.data = 0 .. 63
    BY DEF PackVoltages, CAN_MAX_DLC, CAN_ID_CELL_VOLTAGES
  <2>2. ASSUME NEW c \in CellIndex
        PROVE  f.data[c * 2] = Hi(m.cell_mv[c]) /\ f.data[c * 2 + 1] = Lo(m.cell_mv[c])
    <3>1. /\ c \in Int /\ c >= 0 /\ c * 2 \in 0 .. 63 /\ c * 2 + 1 \in 0 .. 63
          /\ c * 2 < CellCount * 2 /\ c * 2 + 1 < CellCount * 2
      BY <1>0 DEF CellIndex
    <3>2. /\ (c * 2) % 2 = 0 /\ (c * 2 + 1) % 2 = 1
          /\ (c * 2) \div 2 = c /\ (c * 2 + 1) \div 2 = c
      BY <3>1
    <3>3. f.data[c * 2] = Hi(m.cell_mv[(c * 2) \div 2])
      BY <1>0, <3>1, <3>2 DEF PackVoltages, CAN_MAX_DLC
    <3>4. f.data[c * 2 + 1] = Lo(m.cell_mv[(c * 2 + 1) \div 2])
      BY <1>0, <3>1, <3>2 DEF PackVoltages, CAN_MAX_DLC
    <3> QED BY <3>2, <3>3, <3>4
  <2> QED BY <2>1, <2>2
<1> HIDE DEF f
<1>2. /\ r.id = 257 /\ r.dlc = len
      /\ len >= CellCount * 2 => \A i \in 0 .. CellCount * 2 - 1 : r.data[i] = f.data[i]
  BY <1>0, <1>1 DEF Received, CAN_MAX_DLC, CAN_SFF_MASK
<1> HIDE DEF r
<1>3. UnpackStatus(r) = {} /\ UnpackFault(r) = {} /\ UnpackCommand(r) = {}
  BY <1>2 DEF UnpackStatus, UnpackFault, UnpackCommand, CAN_ID_BMS_STATUS,
              CAN_ID_FAULT_REPORT, CAN_ID_CHARGE_COMMAND
<1>4. CASE len < CellCount * 2
  <2>1. UnpackVoltages(r) = {}
    BY <1>2, <1>4 DEF UnpackVoltages
  <2> QED BY <1>1, <1>3, <1>4, <2>1 DEF Decode, f, r
<1>5. CASE ~(len < CellCount * 2)
  <2>1. ASSUME NEW c \in CellIndex
        PROVE  GetU16(r, c * 2) = m.cell_mv[c]
    <3>1. /\ c * 2 \in 0 .. CellCount * 2 - 1 /\ c * 2 + 1 \in 0 .. CellCount * 2 - 1
          /\ len >= CellCount * 2
      BY <1>0, <1>5 DEF CellIndex, CAN_MAX_DLC
    <3>2. r.data[c * 2] = Hi(m.cell_mv[c]) /\ r.data[c * 2 + 1] = Lo(m.cell_mv[c])
      BY <1>1, <1>2, <3>1
    <3>3. m.cell_mv[c] \in UInt16
      BY DEF VoltagesT
    <3> QED BY <3>2, <3>3, U16RoundTrip DEF GetU16
  <2>2. m.cell_mv = [c \in CellIndex |-> m.cell_mv[c]]
    BY DEF VoltagesT
  <2>3. [c \in CellIndex |-> GetU16(r, c * 2)] = m.cell_mv
    BY <2>1, <2>2
  <2>4. m = [kind |-> "voltages", cell_mv |-> m.cell_mv]
    BY DEF VoltagesT
  <2>5. UnpackVoltages(r) = {m}
    BY <1>2, <1>5, <2>3, <2>4 DEF UnpackVoltages, CAN_ID_CELL_VOLTAGES
  <2> QED BY <1>1, <1>3, <1>5, <2>5 DEF Decode, f, r
<1> QED BY <1>4, <1>5

LEMMA FaultDecoded ==
  ASSUME NEW m \in FaultT, m.kind = "fault", NEW len \in 0 .. CAN_MAX_DLC, NEW g
  PROVE  /\ PackFault(m).dlc = 3
         /\ Decode(Received(PackFault(m), len, g)) = IF len < 3 THEN {} ELSE {m}
<1> DEFINE f == PackFault(m)
           r == Received(f, len, g)
<1>1. /\ f.id = 128 /\ f.dlc = 3 /\ DOMAIN f.data = 0 .. 63
      /\ f.data[0] = Hi(m.fault_bitmask) /\ f.data[1] = Lo(m.fault_bitmask)
      /\ f.data[2] = m.severity
  BY DEF PackFault, Frame, CAN_MAX_DLC, CAN_ID_FAULT_REPORT
<1> HIDE DEF f
<1>2. /\ r.id = 128 /\ r.dlc = len
      /\ len >= 3 => \A i \in 0 .. 2 : r.data[i] = f.data[i]
  BY <1>1 DEF Received, CAN_MAX_DLC, CAN_SFF_MASK
<1> HIDE DEF r
<1>3. UnpackStatus(r) = {} /\ UnpackVoltages(r) = {} /\ UnpackCommand(r) = {}
  BY <1>2 DEF UnpackStatus, UnpackVoltages, UnpackCommand, CAN_ID_BMS_STATUS,
              CAN_ID_CELL_VOLTAGES, CAN_ID_CHARGE_COMMAND
<1>4. CASE len < 3
  BY <1>1, <1>2, <1>3, <1>4 DEF Decode, UnpackFault, CAN_MAX_DLC, f, r
<1>5. CASE len >= 3
  <2>1. GetU16(r, 0) = m.fault_bitmask /\ r.data[2] = m.severity
    BY <1>1, <1>2, <1>5, U16RoundTrip DEF GetU16, FaultT
  <2>2. m = [kind |-> "fault", fault_bitmask |-> m.fault_bitmask, severity |-> m.severity]
    BY DEF FaultT
  <2>3. UnpackFault(r) = {m}
    BY <1>2, <1>5, <2>1, <2>2 DEF UnpackFault, CAN_ID_FAULT_REPORT, CAN_MAX_DLC
  <2> QED BY <1>1, <1>3, <1>5, <2>3 DEF Decode, f, r, CAN_MAX_DLC
<1> QED BY <1>4, <1>5 DEF CAN_MAX_DLC

LEMMA CommandDecoded ==
  ASSUME NEW m \in CommandT, m.kind = "command", NEW len \in 0 .. CAN_MAX_DLC, NEW g
  PROVE  /\ PackCommand(m).dlc = 2
         /\ Decode(Received(PackCommand(m), len, g)) = IF len < 2 THEN {} ELSE {m}
<1> DEFINE f == PackCommand(m)
           r == Received(f, len, g)
<1>1. /\ f.id = 512 /\ f.dlc = 2 /\ DOMAIN f.data = 0 .. 63
      /\ f.data[0] = Hi(m.requested_current_x10) /\ f.data[1] = Lo(m.requested_current_x10)
  BY DEF PackCommand, Frame, CAN_MAX_DLC, CAN_ID_CHARGE_COMMAND
<1> HIDE DEF f
<1>2. /\ r.id = 512 /\ r.dlc = len
      /\ len >= 2 => \A i \in 0 .. 1 : r.data[i] = f.data[i]
  BY <1>1 DEF Received, CAN_MAX_DLC, CAN_SFF_MASK
<1> HIDE DEF r
<1>3. UnpackStatus(r) = {} /\ UnpackVoltages(r) = {} /\ UnpackFault(r) = {}
  BY <1>2 DEF UnpackStatus, UnpackVoltages, UnpackFault, CAN_ID_BMS_STATUS,
              CAN_ID_CELL_VOLTAGES, CAN_ID_FAULT_REPORT
<1>4. CASE len < 2
  BY <1>1, <1>2, <1>3, <1>4 DEF Decode, UnpackCommand, CAN_MAX_DLC, f, r
<1>5. CASE len >= 2
  <2>1. GetU16(r, 0) = m.requested_current_x10
    BY <1>1, <1>2, <1>5, U16RoundTrip DEF GetU16, CommandT
  <2>2. m = [kind |-> "command", requested_current_x10 |-> m.requested_current_x10]
    BY DEF CommandT
  <2>3. UnpackCommand(r) = {m}
    BY <1>2, <1>5, <2>1, <2>2 DEF UnpackCommand, CAN_ID_CHARGE_COMMAND, CAN_MAX_DLC
  <2> QED BY <1>1, <1>3, <1>5, <2>3 DEF Decode, f, r, CAN_MAX_DLC
<1> QED BY <1>4, <1>5 DEF CAN_MAX_DLC

(* Any message, any received length, anything behind it. *)
LEMMA Decoded ==
  ASSUME NEW m \in Messages, NEW len \in 0 .. CAN_MAX_DLC, NEW g
  PROVE  Decode(Received(Pack(m), len, g)) = IF len < Pack(m).dlc THEN {} ELSE {m}
<1>1. CASE m \in StatusT /\ m.kind = "status" /\ Pack(m) = PackStatus(m)
  BY <1>1, StatusDecoded
<1>2. CASE m \in VoltagesT /\ m.kind = "voltages" /\ Pack(m) = PackVoltages(m)
  BY <1>2, VoltagesDecoded
<1>3. CASE m \in FaultT /\ m.kind = "fault" /\ Pack(m) = PackFault(m)
  BY <1>3, FaultDecoded
<1>4. CASE m \in CommandT /\ m.kind = "command" /\ Pack(m) = PackCommand(m)
  BY <1>4, CommandDecoded
<1> QED BY <1>1, <1>2, <1>3, <1>4, Kinds

(* The three stages of a frame. *)
Way ==
  /\ msg \in Messages
  /\ frame = Pack(msg)
  /\ stage \in {"packed", "received", "unpacked"}
  /\ stage # "packed" => \E len \in 0 .. CAN_MAX_DLC : \E g \in Garbage : rx = Received(frame, len, g)
  /\ stage = "unpacked" => accepted = Decode(rx)

(***************************************************************************)
(* can_protocol.c decodes every complete frame to the message it was       *)
(* packed from and rejects every incomplete one.                           *)
(***************************************************************************)
THEOREM Decodes == Spec => []DecodesExactly
<1>1. Init => Way
  BY DEF Init, Way
<1>2. Way /\ [Next]_vars => Way'
  <2> SUFFICES ASSUME Way, [Next]_vars PROVE Way'
    OBVIOUS
  <2>1. CASE Receive
    BY <2>1 DEF Way, Receive
  <2>2. CASE Unpack
    BY <2>2 DEF Way, Unpack
  <2>3. CASE Send
    BY <2>3 DEF Way, Send
  <2>4. CASE UNCHANGED vars
    BY <2>4 DEF Way, vars
  <2> QED BY <2>1, <2>2, <2>3, <2>4 DEF Next
<1>3. Way => DecodesExactly
  <2> SUFFICES ASSUME Way, stage = "unpacked"
               PROVE  accepted = IF rx.dlc < frame.dlc THEN {} ELSE {msg}
    BY DEF DecodesExactly
  <2>1. PICK len \in 0 .. CAN_MAX_DLC, g \in Garbage : rx = Received(frame, len, g)
    BY DEF Way
  <2>2. rx.dlc = len
    BY <2>1 DEF Received
  <2>3. accepted = Decode(Received(Pack(msg), len, g)) /\ frame = Pack(msg) /\ msg \in Messages
    BY <2>1 DEF Way
  <2> QED BY <2>2, <2>3, Decoded
<1> QED BY <1>1, <1>2, <1>3, PTL DEF Spec

(* A frame built from at most 64 bytes. *)
LEMMA FrameFits ==
  ASSUME NEW id \in Nat, NEW bytes, bytes \in Seq(Byte), Len(bytes) <= CAN_MAX_DLC
  PROVE  Frame(id, bytes) \in FrameT
<1>0. CAN_MAX_DLC \in Int
  BY DEF CAN_MAX_DLC
<1>1. Len(bytes) \in 0 .. CAN_MAX_DLC
  BY <1>0
<1>2. ASSUME NEW i \in 0 .. CAN_MAX_DLC - 1
      PROVE  (IF i < Len(bytes) THEN bytes[i + 1] ELSE 0) \in Byte
  <2>1. CASE i < Len(bytes)
    <3>1. i + 1 \in 1 .. Len(bytes)
      BY <1>0, <2>1
    <3>2. bytes[i + 1] \in Byte
      BY <3>1
    <3> QED BY <2>1, <3>2
  <2>2. CASE ~(i < Len(bytes))
    BY <2>2 DEF Byte
  <2> QED BY <2>1, <2>2
<1> QED BY <1>1, <1>2 DEF Frame, FrameT

(***************************************************************************)
(* Whatever is sent, the packers of can_protocol.c write bytes and stay    *)
(* within the frame, so can_hal_send never refuses one of their frames for *)
(* its length, for every pack of up to 32 cells.                           *)
(***************************************************************************)
THEOREM PackedFits ==
  ASSUME NEW m \in Messages
  PROVE  Pack(m) \in FrameT
<1>1. CASE m \in StatusT /\ m.kind = "status" /\ Pack(m) = PackStatus(m)
  <2> DEFINE ca == ToUInt16(m.pack_current_ca)
             bytes == <<Hi(m.pack_voltage_mv), Lo(m.pack_voltage_mv), Hi(ca), Lo(ca),
                        m.soc_percent_x2, m.state>>
  <2>1. m.pack_voltage_mv \in UInt16 /\ m.pack_current_ca \in Int16
        /\ m.soc_percent_x2 \in Byte /\ m.state \in Byte
    BY <1>1 DEF StatusT
  <2>2. ca \in UInt16
    BY <2>1, CastRoundTrip
  <2>3. /\ Hi(m.pack_voltage_mv) \in Byte /\ Lo(m.pack_voltage_mv) \in Byte
        /\ Hi(ca) \in Byte /\ Lo(ca) \in Byte
    BY <2>1, <2>2, U16RoundTrip
  <2>4. bytes \in Seq(Byte) /\ Len(bytes) = 6
    BY <2>1, <2>3
  <2> QED
    <3>1. CAN_ID_BMS_STATUS \in Nat /\ 6 <= CAN_MAX_DLC
      BY DEF CAN_ID_BMS_STATUS, CAN_MAX_DLC
    <3>2. Frame(CAN_ID_BMS_STATUS, bytes) \in FrameT
      BY <2>4, <3>1, FrameFits
    <3> QED BY <1>1, <3>2 DEF PackStatus
<1>2. CASE m \in VoltagesT /\ m.kind = "voltages" /\ Pack(m) = PackVoltages(m)
  <2>1. CellCount \in Nat /\ CellCount <= 32
    BY CanAssumption
  <2>2. ASSUME NEW i \in 0 .. CAN_MAX_DLC - 1, i < CellCount * 2
        PROVE  Hi(m.cell_mv[i \div 2]) \in Byte /\ Lo(m.cell_mv[i \div 2]) \in Byte
    <3>1. i \in Nat
      BY DEF CAN_MAX_DLC
    <3>2. i \div 2 \in CellIndex
      BY <2>1, <2>2, <3>1 DEF CellIndex
    <3>3. m.cell_mv[i \div 2] \in UInt16
      BY <1>2, <3>2 DEF VoltagesT
    <3> QED BY <3>3, U16RoundTrip
  <2>3. ASSUME NEW i \in 0 .. CAN_MAX_DLC - 1
        PROVE  PackVoltages(m).data[i] \in Byte
    <3>1. 0 \in Byte
      BY DEF Byte
    <3>2. CAN_MAX_DLC \in Int
      BY DEF CAN_MAX_DLC
    <3>3. i \in Int /\ CellCount * 2 \in Int
      BY <2>1, <3>2
    <3>4. CASE i < CellCount * 2
      BY <2>2, <3>3, <3>4 DEF PackVoltages
    <3>5. CASE i >= CellCount * 2
      BY <3>1, <3>5 DEF PackVoltages
    <3> QED BY <3>3, <3>4, <3>5
  <2>4. CellCount * 2 \in 0 .. CAN_MAX_DLC
    BY <2>1 DEF CAN_MAX_DLC
  <2>5. PackVoltages(m).data \in [0 .. CAN_MAX_DLC - 1 -> Byte]
    BY <2>3 DEF PackVoltages
  <2> QED BY <1>2, <2>4, <2>5 DEF PackVoltages, FrameT, CAN_ID_CELL_VOLTAGES
<1>3. CASE m \in FaultT /\ m.kind = "fault" /\ Pack(m) = PackFault(m)
  <2> DEFINE bytes == <<Hi(m.fault_bitmask), Lo(m.fault_bitmask), m.severity>>
  <2>1. m.fault_bitmask \in UInt16 /\ m.severity \in Byte
    BY <1>3 DEF FaultT
  <2>2. bytes \in Seq(Byte) /\ Len(bytes) = 3
    BY <2>1, U16RoundTrip
  <2>3. CAN_ID_FAULT_REPORT \in Nat /\ 3 <= CAN_MAX_DLC
    BY DEF CAN_ID_FAULT_REPORT, CAN_MAX_DLC
  <2>4. Frame(CAN_ID_FAULT_REPORT, bytes) \in FrameT
    BY <2>2, <2>3, FrameFits
  <2> QED BY <1>3, <2>4 DEF PackFault
<1>4. CASE m \in CommandT /\ m.kind = "command" /\ Pack(m) = PackCommand(m)
  <2> DEFINE bytes == <<Hi(m.requested_current_x10), Lo(m.requested_current_x10)>>
  <2>1. m.requested_current_x10 \in UInt16
    BY <1>4 DEF CommandT
  <2>2. bytes \in Seq(Byte) /\ Len(bytes) = 2
    BY <2>1, U16RoundTrip
  <2>3. CAN_ID_CHARGE_COMMAND \in Nat /\ 2 <= CAN_MAX_DLC
    BY DEF CAN_ID_CHARGE_COMMAND, CAN_MAX_DLC
  <2>4. Frame(CAN_ID_CHARGE_COMMAND, bytes) \in FrameT
    BY <2>2, <2>3, FrameFits
  <2> QED BY <1>4, <2>4 DEF PackCommand
<1> QED BY <1>1, <1>2, <1>3, <1>4, Kinds
===============================================================================
