------------------------------- MODULE DeadMan -------------------------------
(***************************************************************************)
(* What the watchdog of a driver node promises to the clients that command *)
(* its motors: a dead man's switch per motor.  Hearing a client arms the   *)
(* motor; only an armed motor is given an order, and always the latest one *)
(* heard; a motor is disarmed only after a silence longer than MinSilence, *)
(* and then stopped; time cannot pass the moments at which a motor that    *)
(* hears nothing has to be disarmed and stopped.                           *)
(*                                                                         *)
(* The module abstracts from frames, modes, timers and loops over motors;  *)
(* module DriverNodeRefinement says how the node implements it.            *)
(***************************************************************************)
EXTENDS Integers

CONSTANTS
  Motor,       \* the motors
  Order,       \* what a client can ask for
  None,        \* what a motor does before it is first addressed
  Stop,        \* what it does once stopped
  MinSilence,  \* silence that a client may rely on being tolerated
  ArmedUntil,  \* longest silence of an armed motor
  DrivenUntil, \* longest silence of a motor that follows an order
  Cap          \* silences saturate here (bound)

VARIABLES
  order,    \* the latest order heard for each motor
  armed,    \* whether it may be given to the motor
  silence,  \* time since it was heard
  target,   \* what each motor does
  over      \* the node is ending

absVars == <<order, armed, silence, target, over>>

Driven(m) == target[m] \notin {None, Stop}

Deadlines ==
  \A m \in Motor :
    /\ armed[m]  => silence[m] <= ArmedUntil
    /\ Driven(m) => silence[m] <= DrivenUntil

(* Time may pass, as long as no deadline is missed. *)
Pass ==
  /\ \E d \in 0 .. Cap :
       silence' = [m \in Motor |-> IF silence[m] + d > Cap THEN Cap ELSE silence[m] + d]
  /\ Deadlines'

AbsInit ==
  /\ order \in [Motor -> Order]
  /\ armed = [m \in Motor |-> FALSE]
  /\ silence = [m \in Motor |-> 0]
  /\ target = [m \in Motor |-> None]
  /\ over = FALSE

Hear(m, o) ==
  /\ ~over
  /\ armed' = [armed EXCEPT ![m] = TRUE]
  /\ order' = [order EXCEPT ![m] = o]
  /\ silence' = [silence EXCEPT ![m] = 0]
  /\ UNCHANGED <<target, over>>

Disarm(S) ==
  /\ \A m \in S : armed[m] /\ silence[m] > MinSilence
  /\ armed' = [m \in Motor |-> armed[m] /\ m \notin S]
  /\ UNCHANGED <<order, silence, target, over>>

(* Giving an order or a stop takes time. *)
Drive(m) ==
  /\ ~over /\ armed[m]
  /\ target' = [target EXCEPT ![m] = order[m]]
  /\ UNCHANGED <<armed, over, order>>
  /\ Pass

Halt(m) ==
  /\ over \/ ~armed[m]
  /\ target' = [target EXCEPT ![m] = Stop]
  /\ UNCHANGED <<armed, over, order>>
  /\ Pass

Wait ==
  /\ ~over
  /\ UNCHANGED <<armed, target, over, order>>
  /\ Pass

End == over' = TRUE /\ UNCHANGED <<order, armed, silence, target>>

AbsNext ==
  \/ Wait
  \/ \E m \in Motor : Drive(m) \/ Halt(m)
  \/ \E S \in SUBSET Motor : Disarm(S)
  \/ \E m \in Motor, o \in Order : Hear(m, o)
  \/ End

AbsSpec == AbsInit /\ [][AbsNext]_absVars
=============================================================================
