----------------------------- MODULE DriverNode -----------------------------
(***************************************************************************)
(* DDSM115DriverNode, the standalone node: one executor thread runs the    *)
(* constructor, then the callbacks of the control timer, of the timeout    *)
(* timer and of the command subscriptions, one at a time, and finally the  *)
(* destructor (src/src/ddsm115_driver_node.cpp,                            *)
(* src/src/ddsm115_driver_node_main.cpp).                                  *)
(*                                                                         *)
(* Time is a count of ticks.  It passes while the executor waits and, in   *)
(* the sleeps and reopens of the control cycle, while it is busy.          *)
(***************************************************************************)
EXTENDS NodeHandler

CONSTANTS
  ControlPeriod,  \* 1 / publish_rate, in ticks
  CheckPeriod,    \* 100 ms, in ticks
  SlotTime,       \* longest sleep after one frame of the control cycle
  ReopenTime      \* reinitialize_port: 500 ms, in ticks

ASSUME NodeAssumption ==
  /\ ControlPeriod \in Nat \ {0}
  /\ CheckPeriod \in Nat \ {0}
  /\ SlotTime \in Nat
  /\ ReopenTime \in Nat

VARIABLES
  pc,          \* where the executor thread is
  i,           \* the motor whose turn it is in a loop over motor_ids_
  ctrl_left,   \* ticks until the control timer is due
  check_left,  \* ticks until the timeout timer is due
  overtaken    \* a control cycle has started while the timeout timer was due

nodeVars == <<pc, i, ctrl_left, check_left, overtaken>>
vars == <<busVars, handlerVars, nodeVars>>

-----------------------------------------------------------------------------
Monus(x, d) == IF x > d THEN x - d ELSE 0

Elapse(d) ==
  /\ AgeBy(d)
  /\ ctrl_left' = Monus(ctrl_left, d)
  /\ check_left' = Monus(check_left, d)

(* How long a transmission keeps the thread, the sleep excepted. *)
Delay(outcome) == IF outcome \in {"reopen", "closed"} THEN ReopenTime ELSE 0

(* Mutant: one round too many. *)
NextMotor_past_the_end(again, done) ==
  /\ pc' = IF i <= NumMotors THEN again ELSE done
  /\ i' = IF i <= NumMotors THEN i + 1 ELSE 1

(* The next round of a loop over motor_ids_, or its end. *)
NextMotor(again, done) ==
  /\ pc' = IF i < NumMotors THEN again ELSE done
  /\ i' = IF i < NumMotors THEN i + 1 ELSE 1

-----------------------------------------------------------------------------
(* The constructor: open the port or throw. *)
InitPort ==
  /\ pc = "start"
  /\ \/ port' = TRUE  /\ pc' = "construct"
     \/ port' = FALSE /\ pc' = "dead"
  /\ UNCHANGED <<motor, faults, handlerVars, i, ctrl_left, check_left, overtaken>>

(* The handler's constructor puts one motor after the other into velocity  *)
(* mode while the port is open; then the timers are created.               *)
Construct ==
  /\ pc = "construct"
  /\ \E outcome \in Outcomes :
       IF port THEN WritePacket(i, ModeFrame(MODE_VELOCITY), outcome)
       ELSE UNCHANGED busVars
  /\ NextMotor("construct", "idle")
  /\ UNCHANGED <<handlerVars, ctrl_left, check_left, overtaken>>

(* topic_callback: the executor takes ready timers before subscriptions,   *)
(* but the message may have arrived before either timer was due.           *)
TopicCallback(m, cmd) ==
  /\ pc = "idle"
  /\ set_command(m, cmd)
  /\ UNCHANGED <<busVars, nodeVars>>

(* rcl keeps a timer's phase: after a late call less than a period is left. *)
ControlTimer ==
  /\ pc = "idle" /\ ctrl_left = 0
  /\ check_left = 0 => ~overtaken
  /\ ctrl_left' \in 1 .. ControlPeriod
  /\ CountCycle
  /\ overtaken' = (check_left = 0)
  /\ pc' = "serve"
  /\ UNCHANGED <<busVars, last_cmd, age, timed_out, active_mode, diagnosis,
                 i, check_left>>

(* One frame of the control cycle and the sleep behind it. *)
SlotFor(outcome, sleep) ==
  /\ pc = "serve"
  /\ \/ ServeWithoutCommand(i, outcome) /\ NextMotor("serve", "idle")
     \/ ServeSwitch(i, outcome) /\ UNCHANGED <<pc, i>>
     \/ ServeValue(i, outcome) /\ NextMotor("serve", "idle")
  /\ Elapse(Delay(outcome) + sleep)
  /\ UNCHANGED overtaken

Slot == \E outcome \in Outcomes, sleep \in 0 .. SlotTime : SlotFor(outcome, sleep)

TimeoutTimer ==
  /\ pc = "idle" /\ check_left = 0
  /\ check_timeouts
  /\ check_left' \in 1 .. CheckPeriod
  /\ overtaken' = FALSE
  /\ UNCHANGED <<busVars, pc, i, ctrl_left>>

(* The executor waits only while no timer is due. *)
Tick ==
  /\ pc = "idle" /\ ctrl_left > 0 /\ check_left > 0
  /\ Elapse(1)
  /\ UNCHANGED <<busVars, last_cmd, timed_out, active_mode, cycle, diagnosis,
                 pc, i, overtaken>>

(* spin returns between two callbacks and the node is destroyed: the       *)
(* timers are cancelled, every motor is sent the stop, the port is closed. *)
Shutdown ==
  /\ pc = "idle"
  /\ pc' = "stop"
  /\ UNCHANGED <<busVars, handlerVars, i, ctrl_left, check_left, overtaken>>

(* Mutant: only the first motor is stopped. *)
StopMotor_first_only ==
  /\ pc = "stop"
  /\ \E outcome \in Outcomes : WritePacket(i, StopFrame, outcome)
  /\ pc' = "close"
  /\ UNCHANGED <<handlerVars, i, ctrl_left, check_left, overtaken>>

StopMotor ==
  /\ pc = "stop"
  /\ \E outcome \in Outcomes : WritePacket(i, StopFrame, outcome)
  /\ NextMotor("stop", "close")
  /\ UNCHANGED <<handlerVars, ctrl_left, check_left, overtaken>>

ClosePort ==
  /\ pc = "close"
  /\ port' = FALSE
  /\ pc' = "stopped"
  /\ UNCHANGED <<motor, faults, handlerVars, i, ctrl_left, check_left, overtaken>>

Terminated == pc \in {"stopped", "dead"} /\ UNCHANGED vars

-----------------------------------------------------------------------------
Init ==
  /\ BusInit
  /\ HandlerInit
  /\ pc = "start" /\ i = 1
  /\ ctrl_left = ControlPeriod /\ check_left = CheckPeriod
  /\ overtaken = FALSE

ExecutorStep ==
  \/ InitPort \/ Construct
  \/ ControlTimer \/ Slot \/ TimeoutTimer
  \/ StopMotor \/ ClosePort

Next ==
  \/ ExecutorStep
  \/ \E m \in Motor, cmd \in Commands : TopicCallback(m, cmd)
  \/ Tick
  \/ Shutdown
  \/ Terminated

Spec == Init /\ [][Next]_vars

(* The thread runs whatever is ready, and time does not stand still. *)
FairSpec == Spec /\ WF_vars(ExecutorStep) /\ WF_vars(Tick)

-----------------------------------------------------------------------------
(* Properties *)

TypeOK ==
  /\ BusTypeOK
  /\ HandlerTypeOK
  /\ pc \in {"start", "dead", "construct", "idle", "serve", "stop", "close", "stopped"}
  /\ i \in Motor
  /\ ctrl_left \in 0 .. ControlPeriod
  /\ check_left \in 0 .. CheckPeriod
  /\ overtaken \in BOOLEAN

(* The longest one frame and its sleep, and one control cycle with a mode  *)
(* switch for every motor, can keep the thread.                            *)
WriteTime ==
  SlotTime + (IF Faults \cap {"reopen", "closed"} = {} THEN 0 ELSE ReopenTime)
CycleTime == NumMotors * (2 * WriteTime)

(* The watchdog cannot be late by more than its period and the control     *)
(* cycles that may come first, whatever fails on the bus: a motor still    *)
(* trusted to its command has had one that recently.                       *)
WatchdogDeadline == Timeout + CheckPeriod + 2 * CycleTime
WatchdogBound == \A m \in Motor : ~timed_out[m] => age[m] <= WatchdogDeadline

(* While no transmission has failed, a motor whose client has gone silent  *)
(* holds the driver's stop frame, temperature queries included.            *)
ApplyDeadline == 2 * ControlPeriod + 2 * CycleTime
StopDeadline == WatchdogDeadline + 2 * ControlPeriod + 2 * CycleTime
StoppedInTime ==
  \A m \in Motor :
    faults = 0 /\ age[m] > StopDeadline => motor[m].target.type = "stop"

(* Every lost transmission, of whatever frame, costs a silent motor one    *)
(* more wait for the stop, and no more: the stop is repeated until it has  *)
(* arrived, reopened ports included, unless the port stays closed.         *)
StoppedDespiteLosses ==
  \A m \in Motor :
    port /\ age[m] > StopDeadline + faults * ApplyDeadline
      => motor[m].target.type = "stop"

(* While no transmission has failed, a motor follows the latest command in *)
(* a known mode, in that mode, one query cycle and one command cycle after *)
(* it was received, and until the watchdog fires.                          *)
AppliedInTime ==
  \A m \in Motor :
    LET cmd == last_cmd[m] IN
    faults = 0 /\ pc \in {"idle", "serve"} /\ ~timed_out[m]
    /\ age[m] > ApplyDeadline /\ cmd.mode \in Modes
      => /\ motor[m].target = ValueFrame(cmd.mode, cmd.value, cmd.brake)
         /\ motor[m].read_as = cmd.mode

(* A motor reads a command's value in the unit the command was given in    *)
(* (amperes, RPM or degrees: msg/Ddsm115Command.msg).                      *)
CommandReadAsMeant ==
  \A m \in Motor :
    motor[m].target.type = "command" => motor[m].read_as = motor[m].target.loop

(* The driver's stop is 0 RPM with the brake, which only a motor in        *)
(* velocity mode makes of it.                                              *)
StopIsBrake ==
  \A m \in Motor :
    motor[m].target.type = "stop" => motor[m].read_as = MODE_VELOCITY

(* Diagnostics never say OK of a node one of whose motors the watchdog has *)
(* stopped or nobody has commanded yet.                                    *)
WatchdogReported == diagnosis = "OK" => \A m \in Motor : ~timed_out[m]

(* The destructor leaves every motor with the stop, if nothing failed.     *)
ShutdownStops ==
  pc \in {"close", "stopped"} /\ faults = 0
    => \A m \in Motor : motor[m].target.type = "stop"

(* The motor of a silent client is eventually sent the stop, even when     *)
(* frames are lost and the port has to be reopened, unless the port is     *)
(* closed for good, the client speaks again or the node ends.              *)
WatchdogStops ==
  \A m \in Motor :
    age[m] > Timeout
      ~> \/ motor[m].target.type = "stop"
         \/ age[m] <= Timeout
         \/ ~port \/ pc \in {"stop", "close", "stopped"}
=============================================================================
