--------------------------- MODULE MotorBusProofs ---------------------------
(***************************************************************************)
(* The codec for every command value and every 16-bit number, and lemmas   *)
(* about the bus for every component that sends on it.                     *)
(***************************************************************************)
EXTENDS MotorBus, TLAPS

-----------------------------------------------------------------------------
(* Command values and their bytes                                          *)

LEMMA RawMaxInt == RawMax \in Int /\ RawMax >= 330
BY DEF RawMax

LEMMA RoundQuotInt ==
  ASSUME NEW n \in Int, NEW d \in Int, d > 0
  PROVE  RoundQuot(n, d) \in Int
<1>1. (2 * n + d) \div (2 * d) \in Int /\ (2 * (-n) + d) \div (2 * d) \in Int
  OBVIOUS
<1> QED
  BY <1>1 DEF RoundQuot

(* send_current_command, send_velocity_command and send_position_command   *)
(* saturate at the ends of what a motor accepts.                           *)
THEOREM CommandSaturates ==
  ASSUME NEW v \in Int
  PROVE  /\ CurrentRaw(v)  \in -RawMax .. RawMax
         /\ VelocityRaw(v) \in -330 .. 330
         /\ PositionRaw(v) \in 0 .. RawMax
<1> USE RawMaxInt
<1>1. RoundQuot(v * RawMax, 80) \in Int /\ RoundQuot(v * RawMax, 3600) \in Int
  <2>1. v * RawMax \in Int
    OBVIOUS
  <2> QED
    BY <2>1, RoundQuotInt
<1>2. RoundQuot(v, 10) \in Int
  BY RoundQuotInt
<1>3. CurrentRaw(v) \in -RawMax .. RawMax
  BY <1>1 DEF CurrentRaw, Clamp
<1>4. VelocityRaw(v) \in -330 .. 330
  BY <1>2 DEF VelocityRaw, Clamp
<1>5. PositionRaw(v) \in 0 .. RawMax
  BY <1>1 DEF PositionRaw, Clamp
<1> QED
  BY <1>3, <1>4, <1>5

(* Every command value becomes a number that two data bytes can hold. *)
LEMMA RawValueRange ==
  ASSUME NEW mode, NEW v \in Int
  PROVE  RawValue(mode, v) \in RawRange
<1>1. VelocityRaw(v) \in RawRange
  BY RoundQuotInt, RawMaxInt DEF VelocityRaw, Clamp, RawRange
<1>2. CurrentRaw(v) \in RawRange /\ PositionRaw(v) \in RawRange
  BY CommandSaturates, RawMaxInt DEF RawRange
<1> QED
  BY <1>1, <1>2 DEF RawValue

LEMMA DivMod256 ==
  ASSUME NEW x \in Int
  PROVE  x \div 256 \in Int /\ x % 256 \in 0 .. 255
         /\ x = 256 * (x \div 256) + (x % 256)
OBVIOUS

LEMMA ByteOf ==
  ASSUME NEW q \in -128 .. 255
  PROVE  q % 256 = IF q < 0 THEN q + 256 ELSE q
OBVIOUS

(* The bytes of a 16-bit number are bytes, and process_feedback_packet     *)
(* recombines them into the number: signed for currents and velocities,    *)
(* unsigned for positions.                                                 *)
THEOREM BytesRoundTrip ==
  ASSUME NEW x \in Int, -(128 * 256) <= x, x <= 256 * 256 - 1
  PROVE  /\ HighByte(x) \in 0 .. 255 /\ LowByte(x) \in 0 .. 255
         /\ x <= RawMax => Signed16(HighByte(x), LowByte(x)) = x
         /\ x >= 0 => Unsigned16(HighByte(x), LowByte(x)) = x
<1>1. x \div 256 \in Int /\ x % 256 \in 0 .. 255
      /\ x = 256 * (x \div 256) + (x % 256)
  BY DivMod256
<1>2. PICK q \in Int, r \in 0 .. 255 :
        q = x \div 256 /\ r = x % 256 /\ x = 256 * q + r
  BY <1>1
<1>3. q \in -128 .. 255
  BY <1>2
<1>4. HighByte(x) = IF q < 0 THEN q + 256 ELSE q
  BY <1>2, <1>3, ByteOf DEF HighByte
<1>5. LowByte(x) = r
  BY <1>2 DEF LowByte
<1> QED
  BY <1>2, <1>3, <1>4, <1>5 DEF Signed16, Unsigned16, RawMax

-----------------------------------------------------------------------------
(* Frames on the bus                                                       *)

(* The frames the driver sends. *)
AnyFrame ==
  [type : {"mode", "query"}, loop : 0 .. 255, raw : RawRange, brake : BOOLEAN]
    \cup Target

LEMMA FramesTyped ==
  /\ NoFrame \in Target
  /\ StopFrame \in Target /\ StopFrame \in AnyFrame
  /\ QueryFrame \in AnyFrame
  /\ \A mode \in 0 .. 255 : ModeFrame(mode) \in AnyFrame
  /\ \A mode \in Modes, v \in Int, brake \in BOOLEAN :
       ValueFrame(mode, v, brake) \in Target
<1>1. VelocityRaw(0) \in RawRange /\ 0 \in RawRange
  BY RoundQuotInt, RawMaxInt DEF VelocityRaw, Clamp, RawRange
<1>2. ASSUME NEW mode \in Modes, NEW v \in Int, NEW brake \in BOOLEAN
      PROVE  ValueFrame(mode, v, brake) \in Target
  <2>1. RawValue(mode, v) \in RawRange
    BY RawValueRange
  <2> QED
    BY <2>1 DEF ValueFrame, FrameOf, Target
<1> QED
  BY <1>1, <1>2 DEF NoFrame, StopFrame, QueryFrame, ModeFrame, FrameOf, AnyFrame,
     Target, Modes, MODE_CURRENT, MODE_VELOCITY, MODE_POSITION

(* Whatever becomes of a transmission, the bus stays well-typed. *)
LEMMA WritePacketTyped ==
  ASSUME BusTypeOK, NEW m \in Motor, NEW f \in AnyFrame, NEW outcome,
         WritePacket(m, f, outcome)
  PROVE  BusTypeOK'
<1> USE BusAssumption
<1>1. Receive(motor[m], f) \in [mode : Modes, target : Target, read_as : Modes]
  <2>1. motor[m] \in [mode : Modes, target : Target, read_as : Modes]
    BY DEF BusTypeOK
  <2>2. f.type \in {"command", "stop"} => f \in Target
    BY DEF AnyFrame
  <2> QED
    BY <2>1, <2>2 DEF Receive
<1>2. motor' \in [Motor -> [mode : Modes, target : Target, read_as : Modes]]
  BY <1>1 DEF WritePacket, BusTypeOK
<1>3. port' \in BOOLEAN
  BY DEF WritePacket, BusTypeOK
<1>4. faults' \in 0 .. MaxFaults
  <2>1. outcome \in Faults => faults < MaxFaults
    BY DEF WritePacket, Outcomes, FaultKinds
  <2> QED
    BY <2>1 DEF WritePacket, BusTypeOK
<1> QED
  BY <1>2, <1>3, <1>4 DEF BusTypeOK

(* Where no fault has happened yet, none happens or the frame arrives. *)
LEMMA WriteArrives ==
  ASSUME BusTypeOK, port, NEW m, NEW f, NEW outcome,
         WritePacket(m, f, outcome), faults' = 0
  PROVE  /\ faults = 0 /\ port' = port
         /\ motor' = [motor EXCEPT ![m] = Receive(motor[m], f)]
<1>1. faults \in Nat
  BY BusAssumption DEF BusTypeOK
<1>2. outcome \notin Faults /\ faults = 0
  BY <1>1 DEF WritePacket
<1>3. outcome = "sent"
  BY <1>2 DEF WritePacket, Outcomes
<1> QED
  BY <1>2, <1>3 DEF WritePacket
=============================================================================
