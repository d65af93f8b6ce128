--------------------------- MODULE LifecycleNode ---------------------------
(***************************************************************************)
(* DDSM115LifecycleDriverNode, the managed node: the client, the handler,  *)
(* the timers and the subscriptions of the standalone node, made and       *)
(* unmade by the transitions of the ROS 2 life cycle                       *)
(* (src/src/ddsm115_lifecycle_driver_node.cpp).                            *)
(*                                                                         *)
(* The timers of the active node and the command callbacks have the code   *)
(* of the standalone node and are its actions.  One executor thread runs   *)
(* them and the transitions.  Which transition a state allows is decided   *)
(* by rclcpp_lifecycle, which is external.                                 *)
(***************************************************************************)
EXTENDS DriverNode

VARIABLES
  state,       \* the primary state, or the one a transition leads to
  subscribed,  \* whether command_subs_ holds the subscriptions
  checked,     \* history: check_timeouts has run since on_activate
  since        \* history: ticks since on_activate, up to AgeCap

lifeVars == <<state, subscribed, checked, since>>
allVars == <<vars, lifeVars>>

-----------------------------------------------------------------------------
Clock(d) == since' = IF since + d > AgeCap THEN AgeCap ELSE since + d

(* A new handler; without one the fields of the old mean nothing. *)
NewHandler ==
  /\ last_cmd' = [m \in Motor |-> DefaultCommand]
  /\ age' = [m \in Motor |-> 0]
  /\ timed_out' = [m \in Motor |-> TRUE]
  /\ active_mode' = [m \in Motor |-> MODE_VELOCITY]
  /\ cycle' = 0
  /\ UNCHANGED diagnosis

(* Mutant: the handler of an earlier configuration is kept. *)
on_configure_keeps_handler ==
  /\ pc = "idle" /\ state = "unconfigured"
  /\ port' = TRUE /\ pc' = "construct" /\ state' = "inactive"
  /\ UNCHANGED <<motor, faults, handlerVars, i, ctrl_left, check_left, overtaken,
                 subscribed, checked, since>>

(* The port opens; DriverNode's Construct is the loop of the handler's     *)
(* constructor.                                                            *)
on_configure ==
  /\ pc = "idle" /\ state = "unconfigured"
  /\ port' = TRUE /\ pc' = "construct" /\ state' = "inactive"
  /\ NewHandler
  /\ UNCHANGED <<motor, faults, i, ctrl_left, check_left, overtaken,
                 subscribed, checked, since>>

(* No motor_ids, or init_port fails, before or after open(). *)
ConfigureFails ==
  /\ pc = "idle" /\ state = "unconfigured"
  /\ port' \in BOOLEAN
  /\ UNCHANGED <<motor, faults, handlerVars, nodeVars, lifeVars>>

(* The handler is what it was when the node was last active. *)
on_activate ==
  /\ pc = "idle" /\ state = "inactive"
  /\ state' = "active" /\ subscribed' = TRUE /\ checked' = FALSE /\ since' = 0
  /\ ctrl_left' = ControlPeriod /\ check_left' = CheckPeriod /\ overtaken' = FALSE
  /\ UNCHANGED <<busVars, handlerVars, pc, i>>

(* The timers go, the subscriptions stay. *)
on_deactivate ==
  /\ pc = "idle" /\ state = "active"
  /\ state' = "inactive" /\ pc' = "stop" /\ since' = 0
  /\ UNCHANGED <<busVars, handlerVars, i, ctrl_left, check_left, overtaken,
                 subscribed, checked>>

on_cleanup ==
  /\ pc = "idle" /\ state = "inactive"
  /\ state' = "unconfigured" /\ port' = FALSE /\ subscribed' = FALSE
  /\ UNCHANGED <<motor, faults, handlerVars, nodeVars, checked, since>>

(* From any state.  Without a client, or with one whose port is closed,    *)
(* the stops that follow go nowhere. *)
on_shutdown ==
  /\ pc = "idle" /\ state # "finalized"
  /\ state' = "finalized" /\ pc' = "stop" /\ since' = 0
  /\ UNCHANGED <<busVars, handlerVars, i, ctrl_left, check_left, overtaken,
                 subscribed, checked>>

(* Mutant: only the first motor is stopped. *)
SendStop_first_only ==
  /\ pc = "stop"
  /\ \E outcome \in Outcomes, sleep \in 0 .. SlotTime :
       WritePacket(i, StopFrame, outcome) /\ AgeBy(Delay(outcome) + sleep)
  /\ pc' = IF state = "finalized" THEN "close" ELSE "idle"
  /\ UNCHANGED <<last_cmd, timed_out, active_mode, cycle, diagnosis,
                 i, ctrl_left, check_left, overtaken, lifeVars>>

(* The loop of on_deactivate and on_shutdown; the latter closes the port.  *)
SendStop ==
  /\ pc = "stop"
  /\ \E outcome \in Outcomes, sleep \in 0 .. SlotTime :
       WritePacket(i, StopFrame, outcome) /\ AgeBy(Delay(outcome) + sleep)
  /\ NextMotor("stop", IF state = "finalized" THEN "close" ELSE "idle")
  /\ UNCHANGED <<last_cmd, timed_out, active_mode, cycle, diagnosis,
                 ctrl_left, check_left, overtaken, lifeVars>>

(* spin returns and the node is destroyed: the port is closed. *)
Destroy ==
  /\ pc = "idle"
  /\ port' = FALSE /\ pc' = "dead"
  /\ UNCHANGED <<motor, faults, handlerVars, i, ctrl_left, check_left, overtaken, lifeVars>>

(* An inactive node waits without timers. *)
WaitInactive ==
  /\ pc = "idle" /\ state # "active"
  /\ AgeBy(1)
  /\ UNCHANGED <<busVars, last_cmd, timed_out, active_mode, cycle, diagnosis,
                 nodeVars, lifeVars>>

-----------------------------------------------------------------------------
LifeInit ==
  /\ BusInit /\ HandlerInit
  /\ pc = "idle" /\ i = 1
  /\ ctrl_left = ControlPeriod /\ check_left = CheckPeriod /\ overtaken = FALSE
  /\ state = "unconfigured" /\ subscribed = FALSE /\ checked = FALSE /\ since = 0

Transition ==
  \/ on_configure \/ ConfigureFails \/ on_activate \/ on_deactivate
  \/ on_cleanup \/ on_shutdown

LifeNext ==
  \/ Transition
  \/ SendStop \/ Destroy \/ WaitInactive
  \/ /\ Construct \/ ClosePort
     /\ UNCHANGED lifeVars
  \/ /\ \E outcome \in Outcomes, sleep \in 0 .. SlotTime :
          SlotFor(outcome, sleep) /\ Clock(Delay(outcome) + sleep)
     /\ UNCHANGED <<state, subscribed, checked>>
  \/ state = "active" /\ ControlTimer /\ UNCHANGED lifeVars
  \/ /\ state = "active"
     /\ Tick /\ Clock(1)
     /\ UNCHANGED <<state, subscribed, checked>>
  \/ /\ state = "active"
     /\ TimeoutTimer
     /\ checked' = TRUE
     /\ UNCHANGED <<state, subscribed, since>>
  \/ /\ subscribed
     /\ \E m \in Motor, cmd \in Commands : TopicCallback(m, cmd)
     /\ UNCHANGED lifeVars
  \/ Terminated /\ UNCHANGED lifeVars

LifeSpec == LifeInit /\ [][LifeNext]_allVars

-----------------------------------------------------------------------------
(* Properties *)

LifeTypeOK ==
  /\ TypeOK
  /\ state \in {"unconfigured", "inactive", "active", "finalized"}
  /\ subscribed \in BOOLEAN /\ checked \in BOOLEAN /\ since \in 0 .. AgeCap

(* While no transmission has failed, a node that is not active has left    *)
(* every motor stopped, and nothing makes it move: not a command that      *)
(* arrives meanwhile, and not a new configuration.                         *)
InactiveMeansStopped ==
  faults = 0 /\ state # "active" /\ pc # "stop"
    => \A m \in Motor : motor[m].target.type # "command"

(* While no transmission has failed, the loops that the handler of a       *)
(* configured node takes the motors to be in are the ones they are in,     *)
(* whatever was configured, active and cleaned up before.                  *)
CacheFollowsMotors ==
  faults = 0 /\ state \in {"inactive", "active"} /\ pc # "construct"
    => \A m \in Motor : active_mode[m] \in Modes => motor[m].mode = active_mode[m]

(* Once the watchdog has looked after an activation, its bound holds as in *)
(* the standalone node, though commands were taken while inactive.         *)
WatchdogBoundOnceChecked == state = "active" /\ checked => WatchdogBound

(* The first check after an activation: a period, and the control cycles   *)
(* that may come first.                                                    *)
FirstCheck == CheckPeriod + 2 * CycleTime

(* An active node leaves no motor with the command of a silent client,     *)
(* however old the command was when the node was activated, for longer     *)
(* than the first check, and then each failed transmission, takes.         *)
StoppedAfterActivation ==
  \A m \in Motor :
    state = "active" /\ port
    /\ age[m] > StopDeadline + faults * ApplyDeadline
    /\ since > FirstCheck + (faults + 1) * ApplyDeadline
      => motor[m].target.type = "stop"

(* While no transmission has failed, a motor of an active node follows the *)
(* latest command, in its mode, by the deadline, though the command may    *)
(* have come while the node was inactive.                                  *)
AppliedAfterActivation ==
  \A m \in Motor :
    LET cmd == last_cmd[m] IN
    faults = 0 /\ state = "active" /\ pc \in {"idle", "serve"} /\ ~timed_out[m]
    /\ age[m] > ApplyDeadline /\ since > ApplyDeadline /\ cmd.mode \in Modes
      => /\ motor[m].target = ValueFrame(cmd.mode, cmd.value, cmd.brake)
         /\ motor[m].read_as = cmd.mode

(* A motor is given the command of a silent client only before the first   *)
(* check after an activation.                                              *)
StaleOnlyAtFirst ==
  [][\A m \in Motor :
       motor'[m].target # motor[m].target /\ motor'[m].target.type = "command"
         => age[m] <= WatchdogDeadline \/ since <= FirstCheck]_allVars

(* No motor is given a command whose client has been silent for longer     *)
(* than the watchdog allows, in the first cycles after an activation       *)
(* neither.                                                                *)
FreshCommand ==
  [][\A m \in Motor :
       motor'[m].target # motor[m].target /\ motor'[m].target.type = "command"
         => age[m] <= WatchdogDeadline]_allVars
=============================================================================
