-------------------------- MODULE MCSystemHardware --------------------------
(* Instances of SystemHardware for TLC: motors 1 and 2, the second mounted *)
(* the other way round. *)
EXTENDS SystemHardware

TwoSpeeds  == {0, 500}
SecondOnly == {2}
=============================================================================
