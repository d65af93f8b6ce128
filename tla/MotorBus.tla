------------------------------ MODULE MotorBus ------------------------------
(***************************************************************************)
(* The transmit side of DDSM115DriverClient and the motors that listen on  *)
(* the RS485 bus.                                                          *)
(*                                                                         *)
(* The send_* functions build a frame and hand it to write_packet.  The    *)
(* motors are external: a motor keeps a control loop, selected by mode     *)
(* frames, and reads the two data bytes of every 0x64 frame in the loop it *)
(* is in at that moment.  Nothing in a 0x64 frame says which send function *)
(* built it; the fields `type' and `loop' of a value frame remember it as  *)
(* history, and no action reads them from a frame a motor has received.    *)
(***************************************************************************)
EXTENDS ValueCodec

CONSTANTS
  NumMotors,  \* motors on the bus, in the order of the motor_ids parameter
  Faults,     \* the ways a transmission may fail in this instance
  MaxFaults   \* how many transmissions may fail (bound)

FaultKinds == {"noise", "reopen", "closed"}

ASSUME BusAssumption ==
  /\ NumMotors \in Nat \ {0}
  /\ Faults \subseteq FaultKinds
  /\ MaxFaults \in Nat

VARIABLES
  port,    \* serial_port_.is_open()
  motor,   \* the motors' state (external)
  faults   \* failed transmissions so far

busVars == <<port, motor, faults>>

Motor == 1 .. NumMotors

-----------------------------------------------------------------------------
(* Frames *)

FrameOf(type, loop, raw, brake) ==
  [type |-> type, loop |-> loop, raw |-> raw, brake |-> brake]

NoFrame == FrameOf("none", MODE_VELOCITY, 0, FALSE)

(* send_mode_command: 0xA0, the mode in the last byte *)
ModeFrame(mode) == FrameOf("mode", mode, 0, FALSE)

(* send_current_command, send_velocity_command or send_position_command.   *)
(* Only the velocity frame has a brake byte.                               *)
ValueFrame(mode, v, brake) ==
  FrameOf("command", mode, RawValue(mode, v), mode = MODE_VELOCITY /\ brake)

(* send_velocity_command(id, 0.0, 0, true), the driver's own stop *)
StopFrame == FrameOf("stop", MODE_VELOCITY, VelocityRaw(0), TRUE)

(* send_feedback_query: 0x74 *)
QueryFrame == FrameOf("query", MODE_VELOCITY, 0, FALSE)

(* What a motor can hold as its latest 0x64 frame. *)
Target == [type : {"none", "command", "stop"}, loop : Modes,
           raw : RawRange, brake : BOOLEAN]

-----------------------------------------------------------------------------
(* What an addressed motor does with a frame.  A mode byte outside Modes   *)
(* selects no loop; a query leaves the motor alone.                        *)
Receive(s, f) ==
  CASE f.type = "mode" -> IF f.loop \in Modes THEN [s EXCEPT !.mode = f.loop] ELSE s
    [] f.type \in {"command", "stop"} -> [s EXCEPT !.target = f, !.read_as = s.mode]
    [] OTHER -> s

(* The outcomes of write_packet: the frame reaches the motor ("sent"), is  *)
(* written but lost on the wire ("noise"), the write throws and            *)
(* reinitialize_port reopens the port ("reopen") or leaves it closed       *)
(* ("closed"), or the port was closed before ("refused").  No caller sees  *)
(* which: every result is dropped.                                         *)
Outcomes ==
  IF port
  THEN {"sent"} \cup (IF faults < MaxFaults THEN Faults ELSE {})
  ELSE {"refused"}

WritePacket(m, f, outcome) ==
  /\ outcome \in Outcomes
  /\ motor' = IF outcome = "sent" THEN [motor EXCEPT ![m] = Receive(@, f)] ELSE motor
  /\ port' = IF outcome = "closed" THEN FALSE ELSE port
  /\ faults' = IF outcome \in Faults THEN faults + 1 ELSE faults

(* A motor stays powered across restarts of the driver: it may be in any   *)
(* loop when the driver starts.                                            *)
BusInit ==
  /\ port = FALSE
  /\ motor \in [Motor -> [mode : Modes, target : {NoFrame}, read_as : {MODE_VELOCITY}]]
  /\ faults = 0

BusTypeOK ==
  /\ port \in BOOLEAN
  /\ motor \in [Motor -> [mode : Modes, target : Target, read_as : Modes]]
  /\ faults \in 0 .. MaxFaults
=============================================================================
