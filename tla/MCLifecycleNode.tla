-------------------------- MODULE MCLifecycleNode --------------------------
(* Instances of LifecycleNode for TLC. *)
EXTENDS LifecycleNode

Command(mode, value, brake) == [mode |-> mode, value |-> value, brake |-> brake]

(* 2 A, 10 RPM *)
Torque   == Command(MODE_CURRENT, 20, FALSE)
Speed    == Command(MODE_VELOCITY, 100, FALSE)
TwoLoops == {Torque, Speed}

(* Ages that saturate must still show a missed deadline. *)
ASSUME AgeCap > WatchdogDeadline
=============================================================================
