--------------------------- MODULE SystemHardware ---------------------------
(***************************************************************************)
(* DDSM115SystemHardware, the ros2_control plugin: the callbacks of its    *)
(* life cycle, called one at a time by the controller manager, and the     *)
(* communication thread that on_activate starts and on_deactivate joins.   *)
(* The two share communication_active_ and the command interfaces, into    *)
(* which the controllers write on their own.                               *)
(*                                                                         *)
(* The controller manager and the controllers are external.  A velocity is *)
(* in tenths of an RPM throughout; the interface has it in rad/s.  What    *)
(* the plugin does with feedback is left out (FeedbackPath has the same    *)
(* tracker).                                                               *)
(***************************************************************************)
EXTENDS MotorBus

CONSTANTS
  Speeds,    \* velocities a controller commands
  Inverted   \* motors with invert_direction

ASSUME HardwareAssumption ==
  /\ 0 \in Speeds /\ Speeds \subseteq Int
  /\ Inverted \subseteq Motor

VARIABLES
  state,                 \* of the life cycle
  callback,              \* what the running callback is about to do
  next,                  \* the motor its loop has come to
  communication_active,  \* communication_active_
  thread,                \* communication_thread_: where it is in its loop
  index,                 \* i of the communication loop
  cmd_vel,               \* cmd_vel_rad_s of the communication loop
  command_velocity       \* Motor::command_velocity, the command interface

managerVars == <<state, callback, next>>
threadVars  == <<thread, index, cmd_vel>>
vars == <<busVars, managerVars, communication_active, threadVars, command_velocity>>

States    == {"unconfigured", "inactive", "active", "finalized", "destroyed"}
Callbacks == {"none", "mode", "join", "stop"}
Places    == {"none", "while", "for", "send", "done"}

Init ==
  /\ BusInit
  /\ state = "unconfigured" /\ callback = "none" /\ next = 1
  /\ communication_active = FALSE
  /\ thread = "none" /\ index = 1 /\ cmd_vel = 0
  /\ command_velocity = [m \in Motor |-> 0]

-----------------------------------------------------------------------------
(* The controller manager and the controllers (external) *)

InState(s) == state = s /\ callback = "none"

(* A controller sets one command interface after the other, and nothing    *)
(* stops the communication thread from reading in between: write() does    *)
(* nothing.                                                                *)
SetCommand ==
  /\ state = "active"
  /\ \E m \in Motor, v \in Speeds :
       command_velocity' = [command_velocity EXCEPT ![m] = v]
  /\ UNCHANGED <<busVars, managerVars, communication_active, threadVars>>

-----------------------------------------------------------------------------
(* The callbacks.  Each loop over the motors sends and then sleeps, so     *)
(* every pass is a step. *)

(* on_configure.  Where the port does not open, or opens and refuses an    *)
(* option, it returns ERROR, and the inherited on_error finalizes.         *)
Configure ==
  /\ InState("unconfigured")
  /\ \/ port' = TRUE /\ state' = "inactive"
     \/ port' \in BOOLEAN /\ state' = "finalized"
  /\ UNCHANGED <<motor, faults, callback, next, communication_active, threadVars,
                 command_velocity>>

(* on_cleanup *)
CleanUp ==
  /\ InState("inactive")
  /\ port' = FALSE
  /\ state' = "unconfigured"
  /\ UNCHANGED <<motor, faults, callback, next, communication_active, threadVars,
                 command_velocity>>

(* Mutant: the motors are left in the control loop they are in. *)
Activate_without_modes ==
  /\ InState("inactive")
  /\ callback' = "mode" /\ next' = NumMotors + 1
  /\ UNCHANGED <<busVars, state, communication_active, threadVars, command_velocity>>

(* on_activate *)
Activate ==
  /\ InState("inactive")
  /\ callback' = "mode" /\ next' = 1
  /\ UNCHANGED <<busVars, state, communication_active, threadVars, command_velocity>>

SendMode ==
  /\ callback = "mode" /\ next \in Motor
  /\ \E outcome \in Outcomes : WritePacket(next, ModeFrame(MODE_VELOCITY), outcome)
  /\ next' = next + 1
  /\ UNCHANGED <<state, callback, communication_active, threadVars, command_velocity>>

StartThread ==
  /\ callback = "mode" /\ next > NumMotors
  /\ communication_active' = TRUE
  /\ thread' = "while"
  /\ callback' = "none" /\ state' = "active"
  /\ UNCHANGED <<busVars, next, index, cmd_vel, command_velocity>>

(* Mutant: the flag is left set. *)
Deactivate_keeps_flag ==
  /\ InState("active")
  /\ callback' = "join"
  /\ UNCHANGED <<busVars, state, next, communication_active, threadVars, command_velocity>>

(* on_deactivate *)
Deactivate ==
  /\ InState("active")
  /\ communication_active' = FALSE
  /\ callback' = "join"
  /\ UNCHANGED <<busVars, state, next, threadVars, command_velocity>>

(* Mutant: the thread is not waited for. *)
Join_without_waiting ==
  /\ callback = "join"
  /\ callback' = "stop" /\ next' = 1
  /\ UNCHANGED <<busVars, state, communication_active, threadVars, command_velocity>>

Join ==
  /\ callback = "join" /\ thread = "done"
  /\ thread' = "none"
  /\ callback' = "stop" /\ next' = 1
  /\ UNCHANGED <<busVars, state, communication_active, index, cmd_vel, command_velocity>>

SendStop ==
  /\ callback = "stop" /\ next \in Motor
  /\ \E outcome \in Outcomes : WritePacket(next, StopFrame, outcome)
  /\ next' = next + 1
  /\ UNCHANGED <<state, callback, communication_active, threadVars, command_velocity>>

Deactivated ==
  /\ callback = "stop" /\ next > NumMotors
  /\ callback' = "none" /\ state' = "inactive"
  /\ UNCHANGED <<busVars, next, communication_active, threadVars, command_velocity>>

(* The inherited on_shutdown does nothing, in whatever state it is called. *)
Shutdown ==
  /\ callback = "none" /\ state \in {"unconfigured", "inactive", "active"}
  /\ state' = "finalized"
  /\ UNCHANGED <<busVars, callback, next, communication_active, threadVars, command_velocity>>

(* The destructor closes the port.  With the communication thread not      *)
(* joined it then terminates the process.                                  *)
Destroy ==
  /\ callback = "none" /\ state # "destroyed"
  /\ state' = "destroyed"
  /\ port' = FALSE
  /\ thread' = "none"
  /\ UNCHANGED <<motor, faults, callback, next, communication_active, index, cmd_vel,
                 command_velocity>>

-----------------------------------------------------------------------------
(* communication_loop *)

TestFlag ==
  /\ thread = "while"
  /\ IF communication_active THEN thread' = "for" /\ index' = 1
                             ELSE thread' = "done" /\ UNCHANGED index
  /\ UNCHANGED <<busVars, managerVars, communication_active, cmd_vel, command_velocity>>

EndRound ==
  /\ thread = "for"
  /\ index > NumMotors \/ ~ communication_active
  /\ thread' = "while"
  /\ UNCHANGED <<busVars, managerVars, communication_active, index, cmd_vel, command_velocity>>

(* target_rpm *)
TargetRpm(m, v) == IF m \in Inverted THEN -v ELSE v

(* Mutant: the direction is inverted here too. *)
CopyCommand_inverts ==
  /\ thread = "for" /\ index \in Motor /\ communication_active
  /\ cmd_vel' = TargetRpm(index, command_velocity[index])
  /\ thread' = "send"
  /\ UNCHANGED <<busVars, managerVars, communication_active, index, command_velocity>>

CopyCommand ==
  /\ thread = "for" /\ index \in Motor /\ communication_active
  /\ cmd_vel' = command_velocity[index]
  /\ thread' = "send"
  /\ UNCHANGED <<busVars, managerVars, communication_active, index, command_velocity>>

CommandFrame(m, v) == ValueFrame(MODE_VELOCITY, TargetRpm(m, v), FALSE)

(* Mutant: the loop never leaves its first motor. *)
SendCommand_first_only ==
  /\ thread = "send"
  /\ \E outcome \in Outcomes : WritePacket(index, CommandFrame(index, cmd_vel), outcome)
  /\ thread' = "for"
  /\ UNCHANGED <<managerVars, communication_active, index, cmd_vel, command_velocity>>

SendCommand ==
  /\ thread = "send"
  /\ \E outcome \in Outcomes : WritePacket(index, CommandFrame(index, cmd_vel), outcome)
  /\ index' = index + 1
  /\ thread' = "for"
  /\ UNCHANGED <<managerVars, communication_active, cmd_vel, command_velocity>>

-----------------------------------------------------------------------------
CallbackStep == SendMode \/ StartThread \/ Join \/ SendStop \/ Deactivated
Loop         == TestFlag \/ EndRound \/ CopyCommand \/ SendCommand
Manager      == Configure \/ CleanUp \/ Activate \/ Deactivate \/ Shutdown \/ Destroy

Next == CallbackStep \/ Loop \/ Manager \/ SetCommand

Spec == Init /\ [][Next]_vars

(* Both threads are scheduled: a callback that runs goes on, and so does   *)
(* the communication loop.  Which callback comes when is up to the manager.*)
FairSpec == Spec /\ WF_vars(CallbackStep) /\ WF_vars(Loop)

-----------------------------------------------------------------------------
TypeOK ==
  /\ BusTypeOK
  /\ state \in States /\ callback \in Callbacks /\ next \in 1 .. NumMotors + 1
  /\ communication_active \in BOOLEAN
  /\ thread \in Places /\ index \in 1 .. NumMotors + 1 /\ cmd_vel \in Speeds
  /\ command_velocity \in [Motor -> Speeds]

(* on_activate never finds the thread of an earlier activation, running or *)
(* not joined: assigning to it would terminate the process.  And a send of *)
(* the loop never meets a send of a callback on the bus.                   *)
OneSender ==
  callback \in {"mode", "stop"} \/ state \in {"unconfigured", "inactive"}
    => thread = "none" /\ ~ communication_active

(* After on_deactivate every motor holds the stop, and no command of the   *)
(* communication thread follows it.  Only a lost transmission can break    *)
(* this: on_deactivate sends the stop once.                                *)
InactiveMeansStopped ==
  callback = "none" /\ state \in {"unconfigured", "inactive"} /\ faults = 0
    => \A m \in Motor : motor[m].target \in {NoFrame, StopFrame}

(* Commands and stops reach the motors in the velocity loop, whichever     *)
(* loop they were in before, so that a stop brakes.                        *)
ReadAsVelocity ==
  faults = 0 => \A m \in Motor : motor[m].target # NoFrame
                                   => motor[m].read_as = MODE_VELOCITY

(* A command that stands reaches its motor, a lost transmission is made up *)
(* for, as long as the plugin stays active and the port open.              *)
CommandArrives ==
  \A m \in Motor, v \in Speeds :
    InState("active") /\ command_velocity[m] = v
      ~> \/ motor[m].target = CommandFrame(m, v)
         \/ ~ (InState("active") /\ command_velocity[m] = v /\ port)

(* on_deactivate returns: the loop sees the flag and ends. *)
DeactivateReturns == callback = "join" ~> state = "inactive"
=============================================================================
