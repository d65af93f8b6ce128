------------------------ MODULE DriverNodeRefinement ------------------------
(***************************************************************************)
(* A standalone node whose transmissions never fail implements the dead    *)
(* man's switch.  An order is the 0x64 frame that a command becomes; a     *)
(* command in an unknown mode is an order that no motor is ever given.     *)
(***************************************************************************)
EXTENDS DriverNode

OrderOf(cmd) == ValueFrame(cmd.mode, cmd.value, cmd.brake)

Switch == INSTANCE DeadMan WITH
  Order       <- {OrderOf(cmd) : cmd \in Commands \cup {DefaultCommand}},
  None        <- NoFrame,
  Stop        <- StopFrame,
  MinSilence  <- Timeout,
  ArmedUntil  <- WatchdogDeadline,
  DrivenUntil <- StopDeadline,
  Cap         <- AgeCap,
  order       <- [m \in Motor |-> OrderOf(last_cmd[m])],
  armed       <- [m \in Motor |-> ~timed_out[m]],
  silence     <- age,
  target      <- [m \in Motor |-> motor[m].target],
  over        <- pc \in {"stop", "close", "stopped"}

(* The node's promise to its clients: every step is one of the switch. *)
ImplementsSwitch == Switch!AbsSpec
=============================================================================
