------------------------ MODULE SystemHardwareProofs ------------------------
(***************************************************************************)
(* Theorems about the ros2_control plugin for every number of motors,      *)
(* every set of velocities and every fault of the bus.                     *)
(***************************************************************************)
EXTENDS SystemHardware, MotorBusProofs

LEMMA HardwareFrames ==
  /\ ModeFrame(MODE_VELOCITY) \in AnyFrame
  /\ StopFrame \in AnyFrame
  /\ \A m \in Motor, v \in Speeds : CommandFrame(m, v) \in AnyFrame
<1>1. MODE_VELOCITY \in Modes /\ MODE_VELOCITY \in 0 .. 255
  BY DEF Modes, MODE_VELOCITY
<1>2. ASSUME NEW m \in Motor, NEW v \in Speeds
      PROVE  CommandFrame(m, v) \in AnyFrame
  <2>1. TargetRpm(m, v) \in Int
    BY HardwareAssumption DEF TargetRpm
  <2> QED
    BY <1>1, <2>1, FramesTyped DEF CommandFrame, AnyFrame
<1> QED
  BY <1>1, <1>2, FramesTyped

-----------------------------------------------------------------------------
(* Type correctness, and who is where *)

(* The callbacks and the communication thread: which of them can run.      *)
Phases ==
  /\ callback = "mode" => state = "inactive"
  /\ callback \in {"join", "stop"} => state = "active"
  /\ callback \in {"join", "mode", "stop"} => ~ communication_active
  /\ callback \in {"mode", "stop"} => thread = "none"
  /\ state \in {"unconfigured", "inactive"} => thread = "none" /\ ~ communication_active
  /\ thread = "send" => index \in Motor

HardwareInv == TypeOK /\ Phases

LEMMA HardwareInvInit == Init => HardwareInv
<1> SUFFICES ASSUME Init PROVE HardwareInv
  OBVIOUS
<1>1. NumMotors \in Nat \ {0} /\ 1 \in 1 .. NumMotors + 1 /\ 0 \in 0 .. MaxFaults
  BY BusAssumption
<1>2. BusTypeOK
  BY <1>1, FramesTyped DEF Init, BusInit, BusTypeOK, Modes, MODE_VELOCITY
<1>3. 0 \in Speeds
  BY HardwareAssumption
<1> QED
  BY <1>1, <1>2, <1>3
     DEF Init, HardwareInv, TypeOK, Phases, States, Callbacks, Places

(* A step of a sender: it leaves the bus well-typed. *)
LEMMA SenderTyped ==
  ASSUME HardwareInv, SendMode \/ SendStop \/ SendCommand
  PROVE  BusTypeOK'
<1>1. BusTypeOK /\ cmd_vel \in Speeds
  BY DEF HardwareInv, TypeOK
<1>2. CASE SendMode
  <2>1. PICK outcome : /\ WritePacket(next, ModeFrame(MODE_VELOCITY), outcome)
                       /\ next \in Motor
    BY <1>2 DEF SendMode
  <2> QED
    BY <1>1, <2>1, HardwareFrames, WritePacketTyped
<1>3. CASE SendStop
  <2>1. PICK outcome : WritePacket(next, StopFrame, outcome) /\ next \in Motor
    BY <1>3 DEF SendStop
  <2> QED
    BY <1>1, <2>1, HardwareFrames, WritePacketTyped
<1>4. CASE SendCommand
  <2>1. PICK outcome : /\ WritePacket(index, CommandFrame(index, cmd_vel), outcome)
                       /\ index \in Motor
    BY <1>4 DEF SendCommand, HardwareInv, Phases
  <2> QED
    BY <1>1, <2>1, HardwareFrames, WritePacketTyped
<1> QED
  BY <1>2, <1>3, <1>4

LEMMA HardwareInvNext == HardwareInv /\ [Next]_vars => HardwareInv'
<1> SUFFICES ASSUME HardwareInv, [Next]_vars PROVE HardwareInv'
  OBVIOUS
<1> USE DEF HardwareInv
<1>0. NumMotors \in Nat \ {0}
  BY BusAssumption
<1>1. CASE SendMode
  BY <1>0, <1>1, SenderTyped
     DEF SendMode, TypeOK, Phases, threadVars, Motor
<1>2. CASE StartThread
  BY <1>2 DEF StartThread, TypeOK, Phases, BusTypeOK, busVars,
              States, Callbacks, Places
<1>3. CASE Join
  BY <1>0, <1>3 DEF Join, TypeOK, Phases, BusTypeOK, busVars,
              States, Callbacks, Places
<1>4. CASE SendStop
  BY <1>0, <1>4, SenderTyped
     DEF SendStop, TypeOK, Phases, threadVars, Motor
<1>5. CASE Deactivated
  BY <1>5 DEF Deactivated, TypeOK, Phases, BusTypeOK, busVars,
              threadVars, States, Callbacks, Places
<1>6. CASE TestFlag
  BY <1>0, <1>6 DEF TestFlag, TypeOK, Phases, BusTypeOK, busVars,
              managerVars, States, Callbacks, Places
<1>7. CASE EndRound
  BY <1>7 DEF EndRound, TypeOK, Phases, BusTypeOK, busVars,
              managerVars, States, Callbacks, Places
<1>8. CASE CopyCommand
  BY <1>8 DEF CopyCommand, TypeOK, Phases, BusTypeOK, busVars,
              managerVars, States, Callbacks, Places
<1>9. CASE SendCommand
  BY <1>0, <1>9, SenderTyped
     DEF SendCommand, TypeOK, Phases, managerVars, Motor, Places
<1>10. CASE Configure
  BY <1>10 DEF Configure, InState, TypeOK, Phases, BusTypeOK, threadVars, States
<1>11. CASE CleanUp
  BY <1>11 DEF CleanUp, InState, TypeOK, Phases, BusTypeOK, threadVars, States
<1>12. CASE Activate
  BY <1>0, <1>12 DEF Activate, InState, TypeOK, Phases, BusTypeOK, busVars,
               threadVars, Callbacks
<1>13. CASE Deactivate
  BY <1>13 DEF Deactivate, InState, TypeOK, Phases, BusTypeOK, busVars,
               threadVars, Callbacks
<1>14. CASE Shutdown
  BY <1>14 DEF Shutdown, TypeOK, Phases, BusTypeOK, busVars, threadVars,
               States
<1>15. CASE Destroy
  BY <1>15 DEF Destroy, TypeOK, Phases, BusTypeOK, States, Places
<1>16. CASE SetCommand
  <2>1. PICK m \in Motor, v \in Speeds :
          command_velocity' = [command_velocity EXCEPT ![m] = v]
    BY <1>16 DEF SetCommand
  <2>2. command_velocity' \in [Motor -> Speeds]
    BY <2>1 DEF TypeOK
  <2> QED
    BY <1>16, <2>2 DEF SetCommand, TypeOK, Phases, BusTypeOK, busVars, managerVars,
               threadVars
<1>17. CASE UNCHANGED vars
  BY <1>17 DEF vars, TypeOK, Phases, BusTypeOK, busVars, managerVars, threadVars
<1> QED
  BY <1>1, <1>2, <1>3, <1>4, <1>5, <1>6, <1>7, <1>8, <1>9, <1>10, <1>11, <1>12,
     <1>13, <1>14, <1>15, <1>16, <1>17 DEF Next, CallbackStep, Loop, Manager

(* The types, whatever the bus loses. *)
THEOREM HardwareTypes == Spec => []TypeOK
<1>1. HardwareInv => TypeOK
  BY DEF HardwareInv
<1> QED
  BY <1>1, HardwareInvInit, HardwareInvNext, PTL DEF Spec

(* on_activate never meets a thread of an earlier activation, and the      *)
(* callbacks never send while the communication loop does. *)
THEOREM HardwareOneSender == Spec => []OneSender
<1>1. HardwareInv => OneSender
  BY DEF HardwareInv, Phases, OneSender
<1> QED
  BY <1>1, HardwareInvInit, HardwareInvNext, PTL DEF Spec
-----------------------------------------------------------------------------
(* What the motors hold                                                    *)
(*                                                                         *)
(* Neither property is inductive: a stop that is still to be sent, and a   *)
(* loop that is still to be selected, are promises of the place where the  *)
(* running callback is. *)
Served == 1 .. next - 1

Held ==
  faults = 0 =>
    /\ state \in {"inactive", "active"} \/ thread # "none" => port
    /\ state \in {"unconfigured", "inactive"} =>
         \A m \in Motor : motor[m].target \in {NoFrame, StopFrame}
    /\ callback = "stop" => \A m \in Served : motor[m].target = StopFrame
    /\ callback = "mode" => \A m \in Served : motor[m].mode = MODE_VELOCITY
    /\ state = "active" \/ thread # "none" =>
         \A m \in Motor : motor[m].mode = MODE_VELOCITY
    /\ \A m \in Motor : motor[m].target # NoFrame => motor[m].read_as = MODE_VELOCITY

(* What a motor makes of mode and stop frames *)
LEMMA Received ==
  ASSUME NEW s \in [mode : Modes, target : Target, read_as : Modes]
  PROVE  /\ Receive(s, ModeFrame(MODE_VELOCITY)) = [s EXCEPT !.mode = MODE_VELOCITY]
         /\ Receive(s, StopFrame) = [s EXCEPT !.target = StopFrame, !.read_as = s.mode]
<1>1. MODE_VELOCITY \in Modes
  BY DEF Modes
<1>2. /\ ModeFrame(MODE_VELOCITY).type = "mode"
      /\ ModeFrame(MODE_VELOCITY).loop = MODE_VELOCITY
      /\ StopFrame.type = "stop"
  BY DEF ModeFrame, StopFrame, FrameOf
<1> QED
  BY <1>1, <1>2 DEF Receive

LEMMA HeldInit == Init => Held
BY DEF Init, BusInit, Held, Served

LEMMA SendModeHolds ==
  ASSUME HardwareInv, Held, SendMode
  PROVE  Held'
<1> SUFFICES ASSUME faults' = 0 PROVE Held'
  BY DEF Held
<1>1. PICK outcome : WritePacket(next, ModeFrame(MODE_VELOCITY), outcome)
  BY DEF SendMode
<1>2. /\ callback = "mode" /\ state = "inactive" /\ thread = "none"
      /\ next \in Motor /\ next' = next + 1 /\ UNCHANGED <<state, callback, thread>>
      /\ BusTypeOK /\ next \in Nat
  BY DEF SendMode, threadVars, HardwareInv, Phases, TypeOK, Motor
<1>3. faults = 0 /\ motor' = [motor EXCEPT ![next] = Receive(motor[next], ModeFrame(MODE_VELOCITY))]
      /\ port /\ port' = port
  <2>1. faults \in Nat /\ faults' >= faults
    BY <1>1, <1>2, BusAssumption DEF WritePacket, BusTypeOK
  <2>2. port
    BY <1>2, <2>1 DEF Held
  <2> QED
    BY <1>1, <1>2, <2>2, WriteArrives
<1>4. motor \in [Motor -> [mode : Modes, target : Target, read_as : Modes]]
  BY <1>2 DEF BusTypeOK
<1>5. motor' = [motor EXCEPT ![next] = [motor[next] EXCEPT !.mode = MODE_VELOCITY]]
  BY <1>2, <1>3, <1>4, Received
<1>6. \A m \in Motor : /\ motor'[m].target = motor[m].target
                       /\ motor'[m].read_as = motor[m].read_as
                       /\ m = next => motor'[m].mode = MODE_VELOCITY
                       /\ m # next => motor'[m].mode = motor[m].mode
  BY <1>2, <1>4, <1>5
<1>7. \A m \in Served' : m \in Motor /\ (m = next \/ m \in Served)
  BY <1>2, BusAssumption DEF Served, Motor
<1> QED
  BY <1>2, <1>3, <1>6, <1>7 DEF Held

LEMMA SendStopHolds ==
  ASSUME HardwareInv, Held, SendStop
  PROVE  Held'
<1> SUFFICES ASSUME faults' = 0 PROVE Held'
  BY DEF Held
<1>1. PICK outcome : WritePacket(next, StopFrame, outcome)
  BY DEF SendStop
<1>2. /\ callback = "stop" /\ state = "active" /\ thread = "none"
      /\ next \in Motor /\ next' = next + 1 /\ UNCHANGED <<state, callback, thread>>
      /\ BusTypeOK /\ next \in Nat
  BY DEF SendStop, threadVars, HardwareInv, Phases, TypeOK, Motor
<1>3. faults = 0 /\ motor' = [motor EXCEPT ![next] = Receive(motor[next], StopFrame)]
      /\ port /\ port' = port
  <2>1. faults \in Nat /\ faults' >= faults
    BY <1>1, <1>2, BusAssumption DEF WritePacket, BusTypeOK
  <2>2. port
    BY <1>2, <2>1 DEF Held
  <2> QED
    BY <1>1, <1>2, <2>2, WriteArrives
<1>4. motor \in [Motor -> [mode : Modes, target : Target, read_as : Modes]]
  BY <1>2 DEF BusTypeOK
<1>5. motor' = [motor EXCEPT ![next] = [motor[next] EXCEPT !.target = StopFrame,
                                                          !.read_as = motor[next].mode]]
  BY <1>2, <1>3, <1>4, Received
<1>6. \A m \in Motor : /\ motor'[m].mode = motor[m].mode
                       /\ m = next => /\ motor'[m].target = StopFrame
                                      /\ motor'[m].read_as = motor[m].mode
                       /\ m # next => motor'[m] = motor[m]
  BY <1>2, <1>4, <1>5
<1>7. \A m \in Served' : m \in Motor /\ (m = next \/ m \in Served)
  BY <1>2, BusAssumption DEF Served, Motor
<1> QED
  BY <1>2, <1>3, <1>6, <1>7 DEF Held

LEMMA SendCommandHolds ==
  ASSUME HardwareInv, Held, SendCommand
  PROVE  Held'
<1> SUFFICES ASSUME faults' = 0 PROVE Held'
  BY DEF Held
<1> DEFINE f == CommandFrame(index, cmd_vel)
<1>1. PICK outcome : WritePacket(index, f, outcome)
  BY DEF SendCommand
<1>2. /\ thread = "send" /\ thread' = "for" /\ index \in Motor
      /\ UNCHANGED <<state, callback, next>> /\ BusTypeOK
      /\ callback \notin {"mode", "stop"} /\ state \notin {"unconfigured", "inactive"}
  BY DEF SendCommand, managerVars, HardwareInv, Phases, TypeOK
<1> HIDE DEF f
<1>3. faults = 0 /\ motor' = [motor EXCEPT ![index] = Receive(motor[index], f)]
      /\ port /\ port' = port
  <2>1. faults \in Nat /\ faults' >= faults
    BY <1>1, <1>2, BusAssumption DEF WritePacket, BusTypeOK
  <2>2. port
    BY <1>2, <2>1 DEF Held
  <2> QED
    BY <1>1, <1>2, <2>2, WriteArrives
<1>4. motor \in [Motor -> [mode : Modes, target : Target, read_as : Modes]]
  BY <1>2 DEF BusTypeOK
<1>5. motor' = [motor EXCEPT ![index] = [motor[index] EXCEPT !.target = f,
                                                            !.read_as = motor[index].mode]]
  <2>1. f.type = "command"
    BY DEF f, CommandFrame, ValueFrame, FrameOf
  <2>2. Receive(motor[index], f)
          = [motor[index] EXCEPT !.target = f, !.read_as = motor[index].mode]
    BY <2>1 DEF Receive
  <2> QED
    BY <1>3, <2>2
<1>6. \A m \in Motor : /\ motor'[m].mode = motor[m].mode
                       /\ m = index => motor'[m].read_as = motor[m].mode
                       /\ m # index => motor'[m] = motor[m]
  BY <1>2, <1>4, <1>5
<1> QED
  BY <1>2, <1>3, <1>6 DEF Held

LEMMA HeldNext ==
  ASSUME HardwareInv, Held, [Next]_vars
  PROVE  Held'
<1> USE DEF HardwareInv, Phases
<1>1. CASE StartThread
  <2>1. /\ callback = "mode" /\ \A m \in Motor : m \in Served
        /\ state = "inactive"
    BY <1>1, BusAssumption DEF StartThread, TypeOK, Motor, Served
  <2> QED
    BY <1>1, <2>1 DEF StartThread, Held, Served, busVars
<1>2. CASE Deactivated
  <2>1. /\ callback = "stop" /\ \A m \in Motor : m \in Served
        /\ state = "active" /\ thread = "none"
    BY <1>2, BusAssumption DEF Deactivated, TypeOK, Motor, Served
  <2> QED
    BY <1>2, <2>1 DEF Deactivated, Held, Served, busVars, threadVars
<1>3. CASE Join
  BY <1>3 DEF Join, Held, Served, busVars
<1>4. CASE TestFlag \/ EndRound \/ CopyCommand
  BY <1>4 DEF TestFlag, EndRound, CopyCommand, Held, Served, busVars, managerVars
<1>5. CASE Configure
  BY <1>5 DEF Configure, InState, Held, threadVars
<1>6. CASE CleanUp
  BY <1>6 DEF CleanUp, InState, Held, threadVars
<1>7. CASE Activate
  BY <1>7 DEF Activate, InState, Held, Served, busVars, threadVars
<1>8. CASE Deactivate
  BY <1>8 DEF Deactivate, InState, Held, busVars, threadVars
<1>9. CASE Shutdown
  BY <1>9 DEF Shutdown, Held, busVars, threadVars
<1>10. CASE Destroy
  BY <1>10 DEF Destroy, Held
<1>11. CASE SetCommand \/ UNCHANGED vars
  BY <1>11 DEF SetCommand, vars, Held, Served, busVars, managerVars, threadVars
<1> QED
  BY <1>1, <1>2, <1>3, <1>4, <1>5, <1>6, <1>7, <1>8, <1>9, <1>10, <1>11,
     SendModeHolds, SendStopHolds, SendCommandHolds
     DEF Next, CallbackStep, Loop, Manager

LEMMA HeldAlways == Spec => [](HardwareInv /\ Held)
<1>1. HardwareInv /\ Held /\ [Next]_vars => Held'
  BY HeldNext
<1> QED
  BY <1>1, HardwareInvInit, HardwareInvNext, HeldInit, PTL DEF Spec

(* After on_deactivate every motor holds the stop, unless a transmission   *)
(* was lost. *)
THEOREM DeactivateStops == Spec => []InactiveMeansStopped
<1>1. HardwareInv /\ Held => InactiveMeansStopped
  BY DEF Held, InactiveMeansStopped
<1> QED
  BY <1>1, HeldAlways, PTL

(* The motors are in the velocity loop when commands and stops reach them. *)
THEOREM CommandsReadAsVelocity == Spec => []ReadAsVelocity
<1>1. HardwareInv /\ Held => ReadAsVelocity
  BY DEF Held, ReadAsVelocity
<1> QED
  BY <1>1, HeldAlways, PTL
=============================================================================
