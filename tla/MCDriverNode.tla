---------------------------- MODULE MCDriverNode ----------------------------
(* Instances of DriverNode for TLC. *)
EXTENDS DriverNodeRefinement

Command(mode, value, brake) == [mode |-> mode, value |-> value, brake |-> brake]

(* 2 A, 10 RPM, 90 degrees; more than a motor can do, with the brake bit;  *)
(* a mode byte that selects no loop. *)
Torque  == Command(MODE_CURRENT, 20, FALSE)
Speed   == Command(MODE_VELOCITY, 100, FALSE)
Reverse == Command(MODE_VELOCITY, -5000, TRUE)
Angle   == Command(MODE_POSITION, 900, TRUE)
Unknown == Command(0, 10, FALSE)

TwoLoops     == {Torque, Speed}
LoopCommands == {Torque, Speed, Angle}
AnyCommands  == {Torque, Reverse, Unknown}

(* Ages that saturate must still show a missed deadline. *)
ASSUME AgeCap >= WatchdogDeadline
=============================================================================
