---------------------------- MODULE NodeHandler ----------------------------
(***************************************************************************)
(* DDSM115NodeHandler: the commands, the watchdog flags and the cached     *)
(* control loops of the motors of a node, and what one slot of the control *)
(* cycle sends (src/src/ddsm115_node_handler.cpp).                         *)
(*                                                                         *)
(* The operators here are steps of the handler; the node that owns the     *)
(* handler decides when they run.  The feedback half of the handler        *)
(* (process_feedback, get_joint_state) keeps other fields of MotorState    *)
(* and is the subject of module FeedbackPath.                              *)
(***************************************************************************)
EXTENDS MotorBus

CONSTANTS
  Commands,     \* command messages a client may publish
  Timeout,      \* command_timeout_, in ticks
  QueryPeriod,  \* every how many cycles the temperature is queried (20)
  AgeCap        \* ages saturate here (bound)

ASSUME HandlerAssumption ==
  /\ Commands \subseteq [mode : 0 .. 255, value : Int, brake : BOOLEAN]
  /\ Timeout \in Nat
  /\ QueryPeriod \in Nat \ {0}
  /\ AgeCap \in Nat /\ AgeCap > Timeout

VARIABLES
  last_cmd,     \* MotorState::last_cmd
  age,          \* now - last_cmd_time; since the timers started before that
  timed_out,    \* MotorState::timed_out
  active_mode,  \* MotorState::active_mode
  cycle,        \* control_cycle_count_ % QueryPeriod
  diagnosis     \* level of the last diagnostics published

handlerVars == <<last_cmd, age, timed_out, active_mode, cycle, diagnosis>>

-----------------------------------------------------------------------------
DefaultCommand == [mode |-> MODE_VELOCITY, value |-> 0, brake |-> FALSE]

(* The MotorState of a motor before and after the constructor's loop.  The *)
(* epoch in last_cmd_time is never compared while timed_out holds.         *)
HandlerInit ==
  /\ last_cmd = [m \in Motor |-> DefaultCommand]
  /\ age = [m \in Motor |-> 0]
  /\ timed_out = [m \in Motor |-> TRUE]
  /\ active_mode = [m \in Motor |-> MODE_VELOCITY]
  /\ cycle = 0
  /\ diagnosis = "none"

(* Mutants: the cached loop follows the message instead of the mode frame; *)
(* the time stamp is kept.                                                 *)
set_command_caches_mode(m, cmd) ==
  /\ last_cmd' = [last_cmd EXCEPT ![m] = cmd]
  /\ age' = [age EXCEPT ![m] = 0]
  /\ timed_out' = [timed_out EXCEPT ![m] = FALSE]
  /\ active_mode' = [active_mode EXCEPT ![m] = cmd.mode]
  /\ UNCHANGED <<cycle, diagnosis>>
set_command_keeps_time(m, cmd) ==
  /\ last_cmd' = [last_cmd EXCEPT ![m] = cmd]
  /\ timed_out' = [timed_out EXCEPT ![m] = FALSE]
  /\ UNCHANGED <<age, active_mode, cycle, diagnosis>>

set_command(m, cmd) ==
  /\ last_cmd' = [last_cmd EXCEPT ![m] = cmd]
  /\ age' = [age EXCEPT ![m] = 0]
  /\ timed_out' = [timed_out EXCEPT ![m] = FALSE]
  /\ UNCHANGED <<active_mode, cycle, diagnosis>>

(* Mutant: only motors in velocity mode are watched. *)
Expired_velocity_only(m) ==
  timed_out[m] \/ (active_mode[m] = MODE_VELOCITY /\ age[m] > Timeout)

Expired(m) == timed_out[m] \/ age[m] > Timeout

(* The level that produce_diagnostics reports, for given watchdog flags. *)
DiagnosisOf(flags) ==
  IF ~port THEN "ERROR" ELSE IF \E m \in Motor : flags[m] THEN "WARN" ELSE "OK"

(* Mutant: the diagnostics are published before the check. *)
check_timeouts_reported_first ==
  /\ timed_out' = [m \in Motor |-> Expired(m)]
  /\ diagnosis' = DiagnosisOf(timed_out)
  /\ UNCHANGED <<last_cmd, age, active_mode, cycle>>

(* check_timeouts, then the diagnostics the same callback publishes. *)
check_timeouts ==
  /\ timed_out' = [m \in Motor |-> Expired(m)]
  /\ diagnosis' = DiagnosisOf(timed_out')
  /\ UNCHANGED <<last_cmd, age, active_mode, cycle>>

(* Time passes for every stored time stamp. *)
AgeBy(d) ==
  age' = [m \in Motor |-> IF age[m] + d > AgeCap THEN AgeCap ELSE age[m] + d]

-----------------------------------------------------------------------------
(* execute_control_cycle: the counter advances once, then the motors are   *)
(* served in order.                                                        *)
CountCycle == cycle' = (cycle + 1) % QueryPeriod

QueryCycle == cycle = 0

NeedsSwitch(m) == last_cmd[m].mode # active_mode[m]

(* Mutants: a timed-out motor is still sent its command, or only queried. *)
SlotFrame_ignores_watchdog(m) ==
  IF QueryCycle THEN QueryFrame
  ELSE ValueFrame(last_cmd[m].mode, last_cmd[m].value, last_cmd[m].brake)
SlotFrame_queries_only(m) ==
  IF QueryCycle \/ timed_out[m] THEN QueryFrame
  ELSE ValueFrame(last_cmd[m].mode, last_cmd[m].value, last_cmd[m].brake)

(* The frame of the slot of motor m, the mode switch excepted. *)
SlotFrame(m) ==
  IF QueryCycle THEN QueryFrame
  ELSE IF timed_out[m] THEN StopFrame
  ELSE ValueFrame(last_cmd[m].mode, last_cmd[m].value, last_cmd[m].brake)

(* The slot that asks for the temperature in place of a command, or sends  *)
(* the watchdog's stop.                                                    *)
ServeWithoutCommand(m, outcome) ==
  /\ QueryCycle \/ timed_out[m]
  /\ WritePacket(m, SlotFrame(m), outcome)
  /\ UNCHANGED <<last_cmd, timed_out, active_mode, cycle, diagnosis>>

(* Mutant: the new loop is noted but never sent. *)
ServeSwitch_unsent(m, outcome) ==
  /\ ~QueryCycle /\ ~timed_out[m] /\ NeedsSwitch(m)
  /\ outcome \in Outcomes
  /\ active_mode' = [active_mode EXCEPT ![m] = last_cmd[m].mode]
  /\ UNCHANGED <<busVars, last_cmd, timed_out, cycle, diagnosis>>

(* active_mode follows whatever became of the mode frame. *)
ServeSwitch(m, outcome) ==
  /\ ~QueryCycle /\ ~timed_out[m] /\ NeedsSwitch(m)
  /\ WritePacket(m, ModeFrame(last_cmd[m].mode), outcome)
  /\ active_mode' = [active_mode EXCEPT ![m] = last_cmd[m].mode]
  /\ UNCHANGED <<last_cmd, timed_out, cycle, diagnosis>>

(* A mode outside the switch sends nothing. *)
ServeValue(m, outcome) ==
  /\ ~QueryCycle /\ ~timed_out[m] /\ ~NeedsSwitch(m)
  /\ IF last_cmd[m].mode \in Modes
     THEN WritePacket(m, SlotFrame(m), outcome)
     ELSE outcome \in Outcomes \ Faults /\ UNCHANGED busVars
  /\ UNCHANGED <<last_cmd, timed_out, active_mode, cycle, diagnosis>>

HandlerTypeOK ==
  /\ last_cmd \in [Motor -> Commands \cup {DefaultCommand}]
  /\ age \in [Motor -> 0 .. AgeCap]
  /\ timed_out \in [Motor -> BOOLEAN]
  /\ active_mode \in [Motor -> 0 .. 255]
  /\ cycle \in 0 .. QueryPeriod - 1
  /\ diagnosis \in {"none", "OK", "WARN", "ERROR"}
=============================================================================
