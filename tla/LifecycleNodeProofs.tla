------------------------- MODULE LifecycleNodeProofs -------------------------
(***************************************************************************)
(* Theorems about the managed node for every number of motors, every set   *)
(* of commands and faults, every choice of periods and every order of the  *)
(* transitions.  The callbacks it shares with the standalone node are      *)
(* steps of DriverNode, and the lemmas about those are used as they are.   *)
(***************************************************************************)
EXTENDS LifecycleNode, DriverNodeDeadlineProofs

-----------------------------------------------------------------------------
(* The steps of the standalone node among those of the managed one. *)
Quietly ==
  \/ Construct \/ ClosePort
  \/ \E m \in Motor, cmd \in Commands : TopicCallback(m, cmd)
  \/ UNCHANGED vars

ClockedSlot ==
  \E outcome \in Outcomes, sleep \in 0 .. SlotTime :
    SlotFor(outcome, sleep) /\ Clock(Delay(outcome) + sleep)

Shared ==
  /\ UNCHANGED <<state, subscribed>>
  /\ \/ Quietly /\ UNCHANGED <<checked, since>>
     \/ ClockedSlot /\ UNCHANGED checked
     \/ state = "active" /\ ControlTimer /\ UNCHANGED <<checked, since>>
     \/ state = "active" /\ Tick /\ Clock(1) /\ UNCHANGED checked
     \/ state = "active" /\ TimeoutTimer /\ checked' = TRUE /\ UNCHANGED since

LEMMA SharedIsNext == Shared => [Next]_vars
BY DEF Shared, Quietly, ClockedSlot, Slot, Next, ExecutorStep

LEMMA LifeSteps ==
  ASSUME [LifeNext]_allVars
  PROVE  \/ Transition \/ SendStop \/ Destroy \/ WaitInactive \/ Shared
<1>1. CASE LifeNext
  BY <1>1, Zenon DEF LifeNext, Shared, Quietly, ClockedSlot, lifeVars, Terminated
<1>2. CASE UNCHANGED allVars
  BY <1>2 DEF Shared, Quietly, allVars, lifeVars
<1> QED
  BY <1>1, <1>2

-----------------------------------------------------------------------------
(* Type correctness *)

(* Time that passes makes the activation older by as much at most. *)
LEMMA ClockRuns ==
  ASSUME since \in 0 .. AgeCap, NEW d \in Nat, Clock(d)
  PROVE  since' \in 0 .. AgeCap /\ since' <= since + d
BY HandlerAssumption DEF Clock

LEMMA LifeTypeNext ==
  ASSUME LifeTypeOK, [LifeNext]_allVars
  PROVE  LifeTypeOK'
<1> USE DEF LifeTypeOK
<1>0. /\ TypeOK /\ BusTypeOK /\ HandlerTypeOK
      /\ MODE_VELOCITY \in 0 .. 255 /\ 0 \in 0 .. AgeCap /\ 0 \in 0 .. QueryPeriod - 1
  BY HandlerAssumption DEF TypeOK, MODE_VELOCITY
<1>1. CASE on_configure
  <2>1. HandlerTypeOK'
    BY <1>0, <1>1 DEF on_configure, NewHandler, HandlerTypeOK
  <2> QED
    BY <1>0, <1>1, <2>1 DEF on_configure, BusTypeOK, TypeOK
<1>2. CASE ConfigureFails
  BY <1>0, <1>2 DEF ConfigureFails, BusTypeOK, TypeOK, HandlerTypeOK, handlerVars,
     nodeVars, lifeVars
<1>3. CASE on_activate
  <2>1. ControlPeriod \in 0 .. ControlPeriod /\ CheckPeriod \in 0 .. CheckPeriod
    BY NodeAssumption
  <2> QED
    BY <1>0, <1>3, <2>1 DEF on_activate, BusTypeOK, TypeOK, HandlerTypeOK, handlerVars,
       busVars
<1>4. CASE on_deactivate \/ on_shutdown
  BY <1>0, <1>4 DEF on_deactivate, on_shutdown, BusTypeOK, TypeOK, HandlerTypeOK,
     handlerVars, busVars
<1>5. CASE on_cleanup
  BY <1>0, <1>5 DEF on_cleanup, BusTypeOK, TypeOK, HandlerTypeOK, handlerVars, nodeVars
<1>6. CASE SendStop
  <2>1. PICK outcome \in Outcomes, sleep \in 0 .. SlotTime :
          WritePacket(i, StopFrame, outcome) /\ AgeBy(Delay(outcome) + sleep)
    BY <1>6 DEF SendStop
  <2>2. BusTypeOK'
    BY <1>0, <2>1, FramesTyped, WritePacketTyped DEF TypeOK
  <2>3. i' \in Motor /\ pc' \in {"stop", "close", "idle"}
    BY <1>0, <1>6, NextMotorTyped DEF SendStop, TypeOK
  <2>4. age' \in [Motor -> 0 .. AgeCap]
    <3>1. Delay(outcome) + sleep \in Nat
      BY DelayTyped, NodeAssumption
    <3> QED
      BY <1>0, <2>1, <3>1, HandlerAssumption DEF AgeBy, HandlerTypeOK
  <2> QED
    BY <1>0, <1>6, <2>2, <2>3, <2>4 DEF SendStop, TypeOK, HandlerTypeOK, lifeVars
<1>7. CASE Destroy
  BY <1>0, <1>7 DEF Destroy, BusTypeOK, TypeOK, HandlerTypeOK, handlerVars, lifeVars
<1>8. CASE WaitInactive
  <2>1. age' \in [Motor -> 0 .. AgeCap]
    BY <1>0, <1>8, HandlerAssumption DEF WaitInactive, AgeBy, HandlerTypeOK
  <2> QED
    BY <1>0, <1>8, <2>1 DEF WaitInactive, BusTypeOK, TypeOK, HandlerTypeOK, busVars,
       nodeVars, lifeVars
<1>9. CASE Shared
  <2>1. TypeOK'
    BY <1>0, <1>9, SharedIsNext, TypeStep
  <2>2. since' \in 0 .. AgeCap
    <3>1. CASE UNCHANGED since
      BY <3>1
    <3>2. CASE Clock(1)
      BY <3>2, ClockRuns
    <3>3. CASE ClockedSlot
      <4>1. PICK outcome \in Outcomes, sleep \in 0 .. SlotTime : Clock(Delay(outcome) + sleep)
        BY <3>3 DEF ClockedSlot
      <4>2. Delay(outcome) + sleep \in Nat
        BY DelayTyped
      <4> QED
        BY <4>1, <4>2, ClockRuns
    <3> QED
      BY <1>9, <3>1, <3>2, <3>3 DEF Shared
  <2> QED
    BY <1>9, <2>1, <2>2 DEF Shared
<1> QED
  BY <1>1, <1>2, <1>3, <1>4, <1>5, <1>6, <1>7, <1>8, <1>9, LifeSteps DEF Transition

LEMMA LifeTypeInit == LifeInit => LifeTypeOK
<1> SUFFICES ASSUME LifeInit PROVE LifeTypeOK
  OBVIOUS
<1> USE BusAssumption, HandlerAssumption, NodeAssumption
<1>1. MODE_VELOCITY \in Modes /\ MODE_VELOCITY \in 0 .. 255 /\ NoFrame \in Target
  BY FramesTyped DEF Modes, MODE_VELOCITY
<1>2. BusTypeOK
  <2>1. motor \in [Motor -> [mode : Modes, target : Target, read_as : Modes]]
    BY <1>1 DEF LifeInit, BusInit
  <2>2. port \in BOOLEAN
    BY DEF LifeInit, BusInit
  <2>3. faults \in 0 .. MaxFaults
    BY DEF LifeInit, BusInit
  <2> QED
    BY <2>1, <2>2, <2>3 DEF BusTypeOK
<1>3. HandlerTypeOK
  BY <1>1 DEF LifeInit, HandlerInit, HandlerTypeOK
<1>4. i \in Motor /\ ctrl_left \in 0 .. ControlPeriod /\ check_left \in 0 .. CheckPeriod
  BY DEF LifeInit, Motor
<1>5. pc = "idle" /\ overtaken \in BOOLEAN /\ subscribed \in BOOLEAN /\ checked \in BOOLEAN
      /\ state = "unconfigured"
  BY DEF LifeInit
<1>6. since \in 0 .. AgeCap
  BY DEF LifeInit
<1>7. TypeOK
  <2>1. pc \in {"start", "dead", "construct", "idle", "serve", "stop", "close", "stopped"}
    BY <1>5
  <2>2. overtaken \in BOOLEAN
    BY <1>5
  <2> QED
    BY <1>2, <1>3, <1>4, <2>1, <2>2, Zenon DEF TypeOK
<1> QED
  BY <1>5, <1>6, <1>7 DEF LifeTypeOK

(* Every variable of the managed node keeps its type, through every order  *)
(* of transitions: a new handler is as well-typed as the old one, and the  *)
(* loops of on_deactivate and on_shutdown stay within motor_ids_.          *)
THEOREM LifecycleTyped == LifeSpec => []LifeTypeOK
BY LifeTypeInit, LifeTypeNext, PTL DEF LifeSpec

-----------------------------------------------------------------------------
(* Where the thread can be in which state *)

Places ==
  /\ Counter
  /\ pc # "start"
  /\ pc = "construct" => state = "inactive"
  /\ pc = "serve" => state = "active"
  /\ pc = "stop" => state \in {"inactive", "finalized"}
  /\ pc = "close" => state = "finalized"

LEMMA PlacesNext ==
  ASSUME LifeTypeOK, Places, [LifeNext]_allVars
  PROVE  Places'
<1>1. CASE on_configure \/ ConfigureFails \/ on_activate \/ on_deactivate \/ on_cleanup
           \/ on_shutdown \/ Destroy \/ WaitInactive
  BY <1>1 DEF Places, Counter, on_configure, ConfigureFails, on_activate, on_deactivate,
     on_cleanup, on_shutdown, Destroy, WaitInactive, nodeVars, lifeVars
<1>2. CASE SendStop
  <2>1. state \in {"inactive", "finalized"} /\ UNCHANGED state
    BY <1>2 DEF SendStop, Places, lifeVars
  <2>2. CASE i < NumMotors
    BY <1>2, <2>1, <2>2 DEF SendStop, NextMotor, Places, Counter
  <2>3. CASE ~ (i < NumMotors)
    BY <1>2, <2>1, <2>3 DEF SendStop, NextMotor, Places, Counter
  <2> QED
    BY <2>2, <2>3
<1>3. CASE Shared
  <2>1. Counter' /\ UNCHANGED state
    BY <1>3, SharedIsNext, CounterNext DEF Shared, Places, LifeTypeOK
  <2>2. CASE Construct \/ ClockedSlot
    BY <2>1, <2>2 DEF Places, Construct, ClockedSlot, SlotFor, NextMotor
  <2>3. CASE ClosePort \/ Tick \/ TimeoutTimer \/ UNCHANGED vars
             \/ \E m \in Motor, cmd \in Commands : TopicCallback(m, cmd)
    BY <2>1, <2>3 DEF Places, ClosePort, Tick, TimeoutTimer, TopicCallback,
       nodeVars, vars
  <2>4. CASE state = "active" /\ ControlTimer
    BY <2>1, <2>4 DEF Places, ControlTimer
  <2> QED
    BY <1>3, <2>2, <2>3, <2>4 DEF Shared, Quietly
<1> QED
  BY <1>1, <1>2, <1>3, LifeSteps DEF Transition

-----------------------------------------------------------------------------
(* What the motors hold, while no frame has been lost                      *)
(*                                                                         *)
(* A motor may hold a command only while the node is active, or in the     *)
(* loop of stops that ends that; a finalizing node whose port was never    *)
(* open has no commanded motor to stop.  The cached loops are the motors'  *)
(* from the end of the handler's constructor to the cleanup.               *)

Resting == \A m \in Motor : motor[m].target.type # "command"

Stopping ==
  \/ Resting
  \/ port /\ \A m \in Motor : m < i => motor[m].target.type # "command"

LifeHeard ==
  faults = 0 =>
    /\ pc # "dead" /\ state \in {"inactive", "active"} => port
    /\ CommandReadAsMeant
    /\ pc = "construct" => Constructing
    /\ pc # "construct" /\ state \in {"inactive", "active"} => Cached
    /\ pc # "stop" /\ state # "active" => Resting
    /\ pc = "stop" => Stopping

(* One round of the loop of stops, through an open port or a closed one    *)
LEMMA StopHeard ==
  ASSUME TypeOK, SendStop, faults' = 0, CommandReadAsMeant, Stopping
  PROVE  /\ faults = 0 /\ port' = port /\ CommandReadAsMeant' /\ (Cached => Cached')
         /\ pc' = "stop" => Stopping'
         /\ pc' # "stop" => Resting'
<1>0. /\ BusTypeOK /\ i \in Motor /\ i \in Nat /\ NumMotors \in Nat
      /\ motor[i] \in [mode : Modes, target : Target, read_as : Modes]
  BY BusAssumption DEF TypeOK, BusTypeOK, Motor
<1>1. PICK outcome : WritePacket(i, StopFrame, outcome)
  BY DEF SendStop
<1>2. faults = 0
  BY <1>0, <1>1, FaultsGrow
<1>3. active_mode' = active_mode
  BY DEF SendStop
<1>4. /\ i < NumMotors => pc' = "stop" /\ i' = i + 1
      /\ ~ (i < NumMotors) => pc' # "stop" /\ \A m \in Motor : m = i \/ m < i
  BY <1>0 DEF SendStop, NextMotor, Motor
<1>5. CASE port
  <2>1. /\ port' /\ motor'[i] = Receive(motor[i], StopFrame)
        /\ \A k \in Motor : k # i => motor'[k] = motor[k]
    BY <1>0, <1>1, <1>5, Addressed
  <2>2. motor'[i].mode = motor[i].mode /\ motor'[i].target.type = "stop"
    BY <1>0, <2>1, Understood, FrameKinds
  <2>3. CommandReadAsMeant' /\ (Cached => Cached')
    BY <1>3, <2>1, <2>2 DEF CommandReadAsMeant, Cached
  <2>4. Resting => Resting'
    BY <2>1, <2>2 DEF Resting
  <2>5. ASSUME \A m \in Motor : m < i => motor[m].target.type # "command"
        PROVE  \A m \in Motor : m = i \/ m < i => motor'[m].target.type # "command"
    BY <2>1, <2>2, <2>5
  <2>6. i < NumMotors => \A m \in Motor : m < i' => m = i \/ m < i
    BY <1>0, <1>4 DEF Motor
  <2>7. (pc' = "stop" => Stopping') /\ (pc' # "stop" => Resting')
    BY <1>4, <2>1, <2>4, <2>5, <2>6 DEF Stopping, Resting
  <2> QED
    BY <1>2, <1>5, <2>1, <2>3, <2>7
<1>6. CASE ~ port
  <2>1. motor' = motor /\ port' = port
    BY <1>1, <1>6 DEF WritePacket, Outcomes
  <2>2. Resting'
    BY <1>6, <2>1 DEF Stopping, Resting
  <2> QED
    BY <1>2, <1>3, <2>1, <2>2 DEF Stopping, Resting, CommandReadAsMeant, Cached
<1> QED
  BY <1>5, <1>6

LEMMA LifeHeardNext ==
  ASSUME LifeTypeOK, Places, LifeHeard, [LifeNext]_allVars
  PROVE  LifeHeard'
<1> SUFFICES ASSUME faults' = 0 PROVE LifeHeard'
  BY DEF LifeHeard
<1>0. TypeOK /\ BusTypeOK /\ i \in Motor /\ \A m \in Motor : ~ (m < 1)
  BY BusAssumption DEF LifeTypeOK, TypeOK, Motor
<1>1. CASE on_configure
  <2>1. /\ faults = 0 /\ motor' = motor /\ port' /\ pc' = "construct" /\ state' = "inactive"
        /\ pc = "idle" /\ state = "unconfigured" /\ i' = 1
        /\ active_mode' = [m \in Motor |-> MODE_VELOCITY]
    BY <1>1 DEF on_configure, NewHandler, Places, Counter
  <2>2. CommandReadAsMeant /\ Resting
    BY <2>1 DEF LifeHeard
  <2> QED
    BY <1>0, <2>1, <2>2 DEF LifeHeard, CommandReadAsMeant, Resting, Constructing
<1>2. CASE ConfigureFails
  BY <1>2 DEF ConfigureFails, handlerVars, nodeVars, lifeVars, LifeHeard,
     CommandReadAsMeant, Resting
<1>3. CASE on_activate
  BY <1>3 DEF on_activate, busVars, handlerVars, LifeHeard, CommandReadAsMeant, Cached
<1>4. CASE on_deactivate
  <2>1. i' = 1 /\ pc' = "stop"
    BY <1>4 DEF on_deactivate, Places, Counter
  <2>2. Stopping'
    BY <1>0, <1>4, <2>1 DEF on_deactivate, busVars, LifeHeard, Stopping
  <2> QED
    BY <1>4, <2>1, <2>2 DEF on_deactivate, busVars, handlerVars, LifeHeard,
       CommandReadAsMeant, Cached
<1>5. CASE on_cleanup
  BY <1>5 DEF on_cleanup, handlerVars, nodeVars, LifeHeard, CommandReadAsMeant, Resting
<1>6. CASE on_shutdown
  <2>1. i' = 1 /\ pc' = "stop" /\ state' = "finalized" /\ UNCHANGED busVars
    BY <1>6 DEF on_shutdown, Places, Counter
  <2>2. Resting \/ port
    BY <1>6, <2>1 DEF on_shutdown, LifeHeard, busVars
  <2>3. Stopping'
    BY <1>0, <2>1, <2>2 DEF busVars, Stopping, Resting
  <2> QED
    BY <1>6, <2>1, <2>3 DEF busVars, LifeHeard, CommandReadAsMeant
<1>7. CASE SendStop
  <2>1. faults = 0
    BY <1>0, <1>7, FaultsGrow DEF SendStop
  <2>2. CommandReadAsMeant /\ Stopping /\ pc = "stop" /\ state' = state
    BY <1>7, <2>1 DEF SendStop, LifeHeard, lifeVars
  <2>3. /\ port' = port /\ CommandReadAsMeant' /\ (Cached => Cached')
        /\ pc' = "stop" => Stopping'
        /\ pc' # "stop" => Resting'
    BY <1>0, <1>7, <2>2, StopHeard
  <2>4. pc' \in {"stop", "close", "idle"}
    BY <1>7 DEF SendStop, NextMotor
  <2> QED
    BY <2>1, <2>2, <2>3, <2>4 DEF LifeHeard
<1>8. CASE Destroy
  BY <1>8 DEF Destroy, lifeVars, handlerVars, LifeHeard, CommandReadAsMeant, Cached, Resting
<1>9. CASE WaitInactive
  BY <1>9 DEF WaitInactive, lifeVars, busVars, nodeVars, LifeHeard, CommandReadAsMeant,
     Cached, Resting
<1>10. CASE Shared
  <2>0. state' = state
    BY <1>10 DEF Shared
  <2>1. CASE Construct
    <3>1. faults = 0
      BY <1>0, <2>1, FaultsGrow DEF Construct, busVars
    <3>2. /\ port /\ CommandReadAsMeant /\ Constructing /\ Resting
          /\ pc = "construct" /\ state = "inactive"
      BY <2>1, <3>1 DEF Construct, LifeHeard, Places
    <3>3. /\ port' /\ CommandReadAsMeant' /\ pc' \in {"construct", "idle"}
          /\ pc' = "construct" => Constructing'
          /\ pc' = "idle" => Cached'
          /\ \A m \in Motor : motor'[m].target = motor[m].target
      BY <1>0, <2>1, <3>2, ConstructHeard
    <3>4. Resting'
      BY <3>2, <3>3 DEF Resting
    <3> QED
      BY <2>0, <3>2, <3>3, <3>4 DEF LifeHeard
  <2>2. CASE ClockedSlot
    <3>1. PICK outcome \in Outcomes, sleep \in 0 .. SlotTime :
            \/ ServeWithoutCommand(i, outcome) /\ NextMotor("serve", "idle")
            \/ ServeSwitch(i, outcome) /\ UNCHANGED <<pc, i>>
            \/ ServeValue(i, outcome) /\ NextMotor("serve", "idle")
      BY <2>2 DEF ClockedSlot, SlotFor
    <3>2. faults = 0
      BY <1>0, <3>1, FaultsGrow DEF ServeWithoutCommand, ServeSwitch, ServeValue, busVars
    <3>3. pc = "serve" /\ state = "active" /\ port /\ CommandReadAsMeant /\ Cached
      BY <2>2, <3>2 DEF LifeHeard, ClockedSlot, SlotFor, Places
    <3>4. port' /\ CommandReadAsMeant' /\ Cached'
      BY <1>0, <3>1, <3>2, <3>3, SlotHeard
    <3>5. pc' \in {"serve", "idle"}
      BY <3>1, <3>3 DEF NextMotor
    <3> QED
      BY <2>0, <3>3, <3>4, <3>5 DEF LifeHeard
  <2>3. CASE ClosePort
    <3>1. state = "finalized"
      BY <2>3 DEF ClosePort, Places
    <3> QED
      BY <2>0, <2>3, <3>1 DEF ClosePort, LifeHeard, CommandReadAsMeant, Resting
  <2>4. CASE state = "active" /\ ControlTimer
    BY <2>0, <2>4 DEF ControlTimer, busVars, LifeHeard, Cached, CommandReadAsMeant
  <2>5. CASE TimeoutTimer
    BY <2>0, <2>5 DEF TimeoutTimer, check_timeouts, busVars, LifeHeard, Cached,
       CommandReadAsMeant, Resting
  <2>6. CASE Tick
    BY <2>0, <2>6 DEF Tick, busVars, LifeHeard, Cached, CommandReadAsMeant, Resting
  <2>7. CASE \E m \in Motor, cmd \in Commands : TopicCallback(m, cmd)
    BY <2>0, <2>7 DEF TopicCallback, set_command, busVars, nodeVars, LifeHeard, Cached,
       CommandReadAsMeant, Resting
  <2>8. CASE UNCHANGED vars
    BY <2>0, <2>8 DEF vars, busVars, handlerVars, nodeVars, LifeHeard, Cached,
       CommandReadAsMeant, Resting, Constructing, Stopping
  <2> QED
    BY <1>10, <2>1, <2>2, <2>3, <2>4, <2>5, <2>6, <2>7, <2>8 DEF Shared, Quietly
<1> QED
  BY <1>1, <1>2, <1>3, <1>4, <1>5, <1>6, <1>7, <1>8, <1>9, <1>10, LifeSteps DEF Transition

LifeInv == LifeTypeOK /\ Places /\ LifeHeard

LEMMA LifeInvAlways == LifeSpec => []LifeInv
<1>1. LifeInit => LifeInv
  <2> SUFFICES ASSUME LifeInit PROVE LifeInv
    OBVIOUS
  <2>1. \A m \in Motor : motor[m].target.type = "none"
    BY DEF LifeInit, BusInit, NoFrame, FrameOf
  <2>2. LifeHeard
    BY <2>1 DEF LifeInit, LifeHeard, CommandReadAsMeant, Resting
  <2>3. Places
    BY DEF LifeInit, Places, Counter
  <2> QED
    BY <2>2, <2>3, LifeTypeInit DEF LifeInv
<1>2. ASSUME LifeInv, [LifeNext]_allVars
      PROVE  LifeInv'
  <2>1. LifeTypeOK' /\ Places' /\ LifeHeard'
    BY <1>2, LifeTypeNext, PlacesNext, LifeHeardNext DEF LifeInv
  <2> QED
    BY <2>1 DEF LifeInv
<1> QED
  BY <1>1, <1>2, PTL DEF LifeSpec

(* on_deactivate, on_cleanup and on_shutdown leave no motor with a         *)
(* command, and an inactive node gives none, whatever transitions came     *)
(* before and whatever commands arrive, unless a frame got lost.           *)
THEOREM InactiveStopsAll == LifeSpec => []InactiveMeansStopped
<1>1. LifeInv => InactiveMeansStopped
  BY DEF LifeInv, LifeHeard, Resting, InactiveMeansStopped
<1> QED
  BY <1>1, LifeInvAlways, PTL

(* A handler made by on_configure takes motors that remember an earlier    *)
(* configuration for what they are: its mode frames come first.            *)
THEOREM CacheTrue == LifeSpec => []CacheFollowsMotors
<1>1. LifeInv => CacheFollowsMotors
  BY DEF LifeInv, LifeHeard, Cached, CacheFollowsMotors
<1> QED
  BY <1>1, LifeInvAlways, PTL

-----------------------------------------------------------------------------
(* The watchdog after an activation                                        *)

(* The first check establishes what the later steps keep.                  *)
LEMMA CheckWatches ==
  ASSUME TypeOK, TimeoutTimer
  PROVE  /\ overtaken' => check_left' = 0
         /\ \A m \in Motor : ~ timed_out'[m] => OnTime(m)'
<1>1. /\ check_left' \in 1 .. CheckPeriod /\ overtaken' = FALSE /\ age' = age
      /\ timed_out' = [m \in Motor |-> Expired(m)]
  BY DEF TimeoutTimer, check_timeouts
<1>2. ASSUME NEW m \in Motor, ~ timed_out'[m] PROVE OnTime(m)'
  <2>1. ~ (age[m] > Timeout)
    BY <1>1, <1>2 DEF Expired
  <2>2. age'[m] \in Nat /\ age'[m] <= Timeout
    BY <1>1, <2>1, HandlerAssumption DEF TypeOK, HandlerTypeOK
  <2> QED
    BY <1>1, <2>2, HandlerAssumption, NodeAssumption DEF OnTime
<1> QED
  BY <1>1, <1>2

LifeWatched == LifeTypeOK /\ Places /\ (state = "active" /\ checked => WatchdogInv)

LEMMA LifeWatchedNext ==
  ASSUME LifeWatched, [LifeNext]_allVars
  PROVE  LifeWatched'
<1>0. /\ LifeTypeOK /\ LifeTypeOK' /\ Places /\ Places' /\ TypeOK /\ TypeOK'
  BY LifeTypeNext, PlacesNext DEF LifeWatched, LifeTypeOK
<1> SUFFICES ASSUME state' = "active" /\ checked' PROVE WatchdogInv'
  BY <1>0 DEF LifeWatched
<1>1. CASE Transition
  BY <1>1 DEF Transition, on_configure, ConfigureFails, on_activate, on_deactivate,
     on_cleanup, on_shutdown, lifeVars
<1>2. CASE SendStop \/ WaitInactive
  BY <1>0, <1>2 DEF SendStop, WaitInactive, lifeVars, Places
<1>3. CASE Destroy
  <2>1. /\ UNCHANGED <<timed_out, age, check_left, overtaken>>
        /\ pc # "serve" /\ pc' # "serve"
    BY <1>3 DEF Destroy, handlerVars
  <2>2. WatchdogInv
    BY <1>3 DEF Destroy, lifeVars, LifeWatched
  <2>3. Grace' = Grace
    BY <2>1 DEF Grace, Overtaking, InCycle, CycleTime, WriteTime
  <2>4. \A m \in Motor : OnTime(m)' <=> OnTime(m)
    BY <2>1, <2>3 DEF OnTime
  <2> QED
    BY <1>0, <2>1, <2>2, <2>4 DEF WatchdogInv
<1>4. CASE Shared
  <2>1. CASE UNCHANGED checked
    BY <1>4, <2>1, SharedIsNext, WatchdogNext DEF Shared, LifeWatched
  <2>2. CASE TimeoutTimer
    BY <1>0, <2>2, CheckWatches DEF WatchdogInv
  <2> QED
    BY <1>4, <2>1, <2>2 DEF Shared
<1> QED
  BY <1>1, <1>2, <1>3, <1>4, LifeSteps

(* Whatever a client sent while the node was inactive, and however old it  *)
(* is, from the first check after on_activate the watchdog's bound is the  *)
(* standalone node's.                                                      *)
THEOREM WatchdogBackInTime == LifeSpec => []WatchdogBoundOnceChecked
<1>1. LifeInit => LifeWatched
  BY LifeTypeInit DEF LifeInit, LifeWatched, Places, Counter
<1>2. LifeWatched /\ [LifeNext]_allVars => LifeWatched'
  BY LifeWatchedNext
<1>3. LifeWatched => WatchdogBoundOnceChecked
  BY WatchdogBounds DEF LifeWatched, WatchdogBoundOnceChecked
<1> QED
  BY <1>1, <1>2, <1>3, PTL DEF LifeSpec

-----------------------------------------------------------------------------
(* The first check after an activation                                     *)

(* What the time since the activation and the time to the check add up to. *)
Early ==
  /\ check_left > 0 => since + check_left <= CheckPeriod
  /\ check_left = 0 => since <= CheckPeriod + Grace

FirstDue == state = "active" /\ ~ checked => Early

LEMMA EarlyElapse ==
  ASSUME LifeTypeOK, LifeTypeOK', NEW d \in Nat, Elapse(d), Clock(d), Early
  PROVE  \A g \in Nat, h \in Nat :
           /\ Grace = g /\ Grace' = h
           /\ check_left <= d => h >= (IF check_left = 0 THEN g ELSE 0) + (d - check_left)
           => Early'
<1>1. /\ check_left \in Nat /\ check_left' \in Nat /\ CheckPeriod \in Nat
      /\ since \in Nat /\ since' \in Nat /\ since' <= since + d
  BY ClockRuns, HandlerAssumption, NodeAssumption DEF LifeTypeOK, TypeOK
<1>2. check_left' = IF check_left > d THEN check_left - d ELSE 0
  BY DEF Elapse, Monus
<1>3. PICK s \in Nat, t \in Nat, c \in Nat, r \in Nat, p \in Nat :
        since = s /\ since' = t /\ check_left = c /\ check_left' = r /\ CheckPeriod = p
  BY <1>1, Zenon
<1>4. ASSUME NEW g \in Nat, NEW h \in Nat,
             /\ t <= s + d /\ r = IF c > d THEN c - d ELSE 0
             /\ c > 0 => s + c <= p
             /\ c = 0 => s <= p + g
             /\ c <= d => h >= (IF c = 0 THEN g ELSE 0) + (d - c)
      PROVE  /\ r > 0 => t + r <= p
             /\ r = 0 => t <= p + h
  BY <1>4
<1> TAKE g \in Nat, h \in Nat
<1> HAVE /\ Grace = g /\ Grace' = h
         /\ check_left <= d => h >= (IF check_left = 0 THEN g ELSE 0) + (d - check_left)
<1>5. /\ t <= s + d /\ r = IF c > d THEN c - d ELSE 0
      /\ c > 0 => s + c <= p
      /\ c = 0 => s <= p + g
      /\ c <= d => h >= (IF c = 0 THEN g ELSE 0) + (d - c)
  BY <1>1, <1>2, <1>3, Zenon DEF Early
<1>6. /\ r > 0 => t + r <= p
      /\ r = 0 => t <= p + h
  BY <1>4, <1>5, Zenon
<1> QED
  BY <1>3, <1>6, Zenon DEF Early

LEMMA FirstDueNext ==
  ASSUME LifeTypeOK, LifeTypeOK', Places, FirstDue, [LifeNext]_allVars
  PROVE  FirstDue'
<1> SUFFICES ASSUME state' = "active", ~ checked'
             PROVE  Early'
  BY DEF FirstDue
<1>0. TypeOK /\ TypeOK' /\ check_left \in Nat
  BY DEF LifeTypeOK, TypeOK
<1>6. Grace \in Nat /\ Grace' \in Nat
  <2>1. (Grace \in Nat)'
    BY <1>0, GraceBounds, PTL
  <2> QED
    BY <1>0, <2>1, GraceBounds
(* Steps that leave the clock and the grace alone. *)
<1>1. ASSUME UNCHANGED <<state, checked, since, check_left, overtaken>>,
             pc # "serve", pc' # "serve"
      PROVE  Early'
  <2>1. Grace' = Grace
    BY <1>1 DEF Grace, Overtaking, InCycle, CycleTime, WriteTime
  <2> QED
    BY <1>1, <2>1 DEF FirstDue, Early
<1>2. CASE Transition
  <2>1. since' = 0 /\ check_left' = CheckPeriod
    BY <1>2 DEF Transition, on_configure, ConfigureFails, on_activate, on_deactivate,
       on_cleanup, on_shutdown, lifeVars
  <2> QED
    BY <2>1, NodeAssumption DEF Early
<1>3. CASE SendStop \/ WaitInactive
  BY <1>3 DEF SendStop, WaitInactive, lifeVars, Places
<1>4. CASE Destroy
  BY <1>1, <1>4 DEF Destroy, lifeVars
<1>5. CASE Shared
  <2>1. state = "active" /\ ~ checked /\ Early
    BY <1>5 DEF Shared, FirstDue
  <2>2. CASE Quietly /\ UNCHANGED <<checked, since>>
    <3>1. CASE Construct \/ ClosePort
      BY <2>1, <3>1 DEF Construct, ClosePort, Places
    <3>2. CASE \E m \in Motor, cmd \in Commands : TopicCallback(m, cmd)
      BY <1>1, <1>5, <2>2, <3>2 DEF Shared, TopicCallback, nodeVars
    <3>3. CASE UNCHANGED vars
      <4>1. UNCHANGED <<check_left, overtaken, pc, i, last_cmd, active_mode, since>>
        BY <2>2, <3>3 DEF vars, handlerVars, nodeVars
      <4>2. Grace' = Grace
        BY <4>1 DEF Grace, Overtaking, InCycle, Spent, NeedsSwitch, Before, CycleTime,
           WriteTime
      <4> QED
        BY <2>1, <4>1, <4>2 DEF Early
    <3> QED
      BY <2>2, <3>1, <3>2, <3>3 DEF Quietly
  <2>3. CASE ClockedSlot
    <3>1. PICK outcome \in Outcomes, sleep \in 0 .. SlotTime :
            SlotFor(outcome, sleep) /\ Clock(Delay(outcome) + sleep)
      BY <2>3 DEF ClockedSlot
    <3>2. PICK d \in 0 .. WriteTime : d = Delay(outcome) + sleep /\ Elapse(d) /\ Clock(d)
      BY <3>1, SlotDelay DEF SlotFor
    <3>3. Grace' >= (IF check_left = 0 THEN Grace ELSE 0) + (d - check_left)
      BY <1>0, <3>1, SlotLeaves DEF SlotFor
    <3>4. d \in Nat
      BY WriteTimeNat
    <3> QED
      BY <1>6, <2>1, <3>2, <3>3, <3>4, EarlyElapse
  <2>4. CASE ControlTimer /\ UNCHANGED since
    <3>1. check_left' = check_left
      BY <2>4 DEF ControlTimer
    <3>2. CASE check_left > 0
      BY <2>1, <2>4, <3>1, <3>2 DEF Early
    <3>3. CASE check_left = 0
      <4>1. Grace' >= Grace
        BY <1>0, <2>4, <3>3, CycleLeaves
      <4>2. since \in Nat /\ CheckPeriod \in Nat
        BY HandlerAssumption, NodeAssumption DEF LifeTypeOK
      <4>3. PICK s \in Nat, p \in Nat, g \in Nat, h \in Nat :
              since = s /\ CheckPeriod = p /\ Grace = g /\ Grace' = h
        BY <1>6, <4>2, Zenon
      <4>4. s <= p + g /\ g <= h
        BY <2>1, <3>3, <4>1, <4>3 DEF Early
      <4>5. s <= p + h
        BY <4>4
      <4> QED
        BY <2>4, <3>1, <3>3, <4>3, <4>5 DEF Early
    <3> QED
      BY <1>0, <3>2, <3>3
  <2>5. CASE Tick /\ Clock(1)
    <3>1. check_left > 0 /\ Elapse(1)
      BY <2>5 DEF Tick
    <3>3. check_left <= 1 =>
            Grace' >= (IF check_left = 0 THEN Grace ELSE 0) + (1 - check_left)
      BY <1>0, <1>6, <3>1
    <3> QED
      BY <1>6, <2>1, <2>5, <3>1, <3>3, EarlyElapse
  <2> QED
    BY <1>5, <2>2, <2>3, <2>4, <2>5 DEF Shared
<1> QED
  BY <1>2, <1>3, <1>4, <1>5, LifeSteps

LEMMA FirstInTime ==
  ASSUME LifeTypeOK, FirstDue, state = "active", ~ checked
  PROVE  since <= FirstCheck
<1>1. Grace \in Nat /\ Grace <= 2 * CycleTime
  BY GraceBounds DEF LifeTypeOK
<1>2. since \in Nat /\ check_left \in Nat /\ CheckPeriod \in Nat
  BY NodeAssumption DEF LifeTypeOK, TypeOK
<1> QED
  BY <1>1, <1>2, CycleTimeNat DEF FirstDue, Early, FirstCheck

-----------------------------------------------------------------------------
(* The deadlines after an activation                                       *)
(*                                                                         *)
(* While the node was inactive no wait was spent, but the commands aged.   *)
(* Once it is active the time since on_activate, too, adds up with the     *)
(* waits.                                                                  *)

LifeLate(m) == since + Wait(m) <= FirstCheck + ApplyDeadline + Allowance

AfterActivation ==
  state = "active" /\ port => \A m \in Motor : Driven(m) => HeldLate(m) \/ LifeLate(m)

ActiveInv == LifeWatched /\ FirstDue /\ AfterActivation

(* The terms of the bounds, as numbers                                     *)
LEMMA LifeTerms ==
  ASSUME LifeTypeOK, QueryPeriod > 1, NEW m \in Motor
  PROVE  /\ since \in Nat /\ Wait(m) \in Nat /\ Wait(m) <= ApplyDeadline
         /\ age[m] \in Nat /\ Allowance \in Nat
         /\ ApplyDeadline \in Nat /\ FirstCheck \in Nat
<1>1. TypeOK /\ BusTypeOK
  BY DEF LifeTypeOK, TypeOK
<1>2. since \in Nat /\ age[m] \in Nat
  BY <1>1, HandlerAssumption DEF LifeTypeOK, TypeOK, HandlerTypeOK
<1>3. Wait(m) \in Nat /\ Wait(m) <= ApplyDeadline
  BY <1>1, WaitBounds
<1>4. ApplyDeadline \in Nat
  BY DeadlinesNat
<1>5. Allowance \in Nat
  <2>1. faults \in Nat
    BY <1>1, BusAssumption DEF BusTypeOK
  <2> QED
    BY <1>4, <2>1, TimesGrows DEF Allowance
<1>6. FirstCheck \in Nat
  BY NodeAssumption, CycleTimeNat DEF FirstCheck
<1> QED
  BY <1>2, <1>3, <1>4, <1>5, <1>6

(* A motor trusted to its command has had one recently, or the node has    *)
(* been active for no longer than the first check takes.                   *)
LEMMA TrustedInTime ==
  ASSUME LifeWatched, FirstDue, QueryPeriod > 1, state = "active",
         NEW m \in Motor, ~ timed_out[m]
  PROVE  HeldLate(m) \/ LifeLate(m)
<1>0. LifeTypeOK
  BY DEF LifeWatched
<1>1. CASE checked
  BY <1>1, WatchdogBounds DEF LifeWatched, WatchdogBound, HeldLate
<1>2. CASE ~ checked
  <2>1. since <= FirstCheck
    BY <1>0, <1>2, FirstInTime
  <2>2. PICK s \in Nat, w \in Nat, a \in Nat, f \in Nat, l \in Nat :
          /\ since = s /\ Wait(m) = w /\ ApplyDeadline = a /\ FirstCheck = f
          /\ Allowance = l
    BY <1>0, LifeTerms, Zenon
  <2>3. s <= f /\ w <= a
    BY <1>0, <2>1, <2>2, LifeTerms, Zenon
  <2>4. s + w <= f + a + l
    BY <2>3
  <2> QED
    BY <2>2, <2>4, Zenon DEF LifeLate
<1> QED
  BY <1>1, <1>2

(* What passes since the activation is taken from the wait of a motor that *)
(* is not served.                                                          *)
SincePaid(m) == \E d \in Nat : since' <= since + d /\ Wait(m)' + d <= Wait(m)

LEMMA SincePaidNext ==
  ASSUME LifeTypeOK, LifeTypeOK', Places, QueryPeriod > 1, state = "active", Shared,
         NEW m \in Motor, ~ (ClockedSlot /\ ServedIn(m))
  PROVE  SincePaid(m)
<1>0. /\ TypeOK /\ TypeOK' /\ Counter /\ since \in 0 .. AgeCap /\ since \in Nat
      /\ Wait(m) \in Nat /\ ctrl_left \in Nat
  BY LifeTerms DEF LifeTypeOK, Places, TypeOK
<1>1. ASSUME UNCHANGED since, Wait(m)' + 0 <= Wait(m)
      PROVE  SincePaid(m)
  <2>1. since' <= since + 0
    BY <1>0, <1>1
  <2> QED
    BY <1>1, <2>1 DEF SincePaid
<1>2. CASE Quietly /\ UNCHANGED <<checked, since>>
  <2>1. CASE Construct \/ ClosePort
    BY <2>1 DEF Construct, ClosePort, Places
  <2>2. CASE UNCHANGED vars \/ \E k \in Motor, cmd \in Commands : TopicCallback(k, cmd)
    <3>1. Wait(m)' = Wait(m)
      BY <1>0, <2>2, WaitKept
    <3>2. Wait(m)' + 0 <= Wait(m)
      BY <1>0, <3>1
    <3> QED
      BY <1>1, <1>2, <3>2
  <2> QED
    BY <1>2, <2>1, <2>2 DEF Quietly
<1>3. CASE ClockedSlot
  <2>1. PICK outcome \in Outcomes, sleep \in 0 .. SlotTime :
          SlotFor(outcome, sleep) /\ Clock(Delay(outcome) + sleep)
    BY <1>3 DEF ClockedSlot
  <2>2. PICK d \in 0 .. WriteTime : d = Delay(outcome) + sleep /\ Elapse(d) /\ Clock(d)
    BY <2>1, SlotDelay DEF SlotFor
  <2>3. d \in Nat /\ d <= WriteTime /\ pc = "serve" /\ SlotStep(outcome)
    BY <2>1, WriteTimeNat DEF SlotFor, SlotStep
  <2>4. ctrl_left' <= ctrl_left /\ UNCHANGED cycle
    BY <1>0, <2>2, <2>3
       DEF Elapse, Monus, SlotStep, ServeWithoutCommand, ServeSwitch, ServeValue
  <2>5. ~ Served(m, outcome)
    BY <1>3, <2>3 DEF ServedIn
  <2>6. Wait(m)' + d <= Wait(m)
    BY <1>0, <2>3, <2>4, <2>5, WaitSlot
  <2> QED
    BY <1>0, <2>2, <2>3, <2>6, ClockRuns DEF SincePaid
<1>4. CASE ControlTimer /\ UNCHANGED since
  BY <1>0, <1>1, <1>4, WaitStarts
<1>5. CASE Tick /\ Clock(1)
  <2>1. since' <= since + 1
    BY <1>0, <1>5, ClockRuns
  <2> QED
    BY <1>0, <1>5, <2>1, WaitTick DEF SincePaid
<1>6. CASE TimeoutTimer /\ UNCHANGED since
  <2>1. Wait(m)' = Wait(m)
    BY <1>0, <1>6, WaitKept
  <2>2. Wait(m)' + 0 <= Wait(m)
    BY <1>0, <2>1
  <2> QED
    BY <1>1, <1>6, <2>2
<1> QED
  BY <1>2, <1>3, <1>4, <1>5, <1>6 DEF Shared

LEMMA PaidSince ==
  ASSUME LifeTypeOK, LifeTypeOK', QueryPeriod > 1, faults' >= faults, NEW m \in Motor,
         SincePaid(m), LifeLate(m)
  PROVE  LifeLate(m)'
<1>1. PICK d \in Nat : since' <= since + d /\ Wait(m)' + d <= Wait(m)
  BY DEF SincePaid
<1>2. /\ ApplyDeadline' = ApplyDeadline /\ FirstCheck' = FirstCheck
      /\ Allowance \in Nat /\ Allowance' \in Nat /\ Allowance <= Allowance'
  BY AllowanceGrows DEF ApplyDeadline, FirstCheck, CycleTime, WriteTime, LifeTypeOK
<1>3. (since \in Nat /\ Wait(m) \in Nat)'
  BY LifeTerms, PTL
<1>4. PICK s \in Nat, t \in Nat, w \in Nat, x \in Nat, a \in Nat, f \in Nat,
           l \in Nat, k \in Nat :
        /\ since = s /\ since' = t /\ Wait(m) = w /\ Wait(m)' = x
        /\ ApplyDeadline = a /\ FirstCheck = f /\ Allowance = l /\ Allowance' = k
  BY <1>2, <1>3, LifeTerms, Zenon
<1>5. t <= s + d /\ x + d <= w /\ s + w <= f + a + l /\ l <= k
  BY <1>1, <1>2, <1>4, Zenon DEF LifeLate
<1>6. t + x <= f + a + k
  BY <1>5
<1> QED
  BY <1>2, <1>4, <1>6, Zenon DEF LifeLate

(* A motor that is served in vain                                          *)
LEMMA ServedSince ==
  ASSUME LifeTypeOK, LifeTypeOK', QueryPeriod > 1, port, NEW m \in Motor, ServedIn(m),
         timed_out[m], LifeLate(m), Driven(m)',
         NEW outcome \in Outcomes, SlotStep(outcome),
         NEW d \in Nat, d <= WriteTime, Clock(d)
  PROVE  LifeLate(m)'
<1>0. TypeOK /\ TypeOK' /\ since \in 0 .. AgeCap
  BY DEF LifeTypeOK
<1>1. faults' = faults + 1 /\ Wait(m)' + d <= ApplyDeadline /\ since' <= since + d
  BY <1>0, ServedInVain, ClockRuns
<1>2. faults' >= faults
  BY <1>0, <1>1, BusAssumption DEF TypeOK, BusTypeOK
<1>3. /\ ApplyDeadline' = ApplyDeadline /\ FirstCheck' = FirstCheck
      /\ Allowance' = Allowance + ApplyDeadline
  BY <1>0, <1>1, <1>2, AllowanceGrows DEF ApplyDeadline, FirstCheck, CycleTime, WriteTime
<1>4. (since \in Nat /\ Wait(m) \in Nat)'
  BY LifeTerms, PTL
<1>5. PICK s \in Nat, t \in Nat, w \in Nat, x \in Nat, a \in Nat, f \in Nat, l \in Nat :
        /\ since = s /\ since' = t /\ Wait(m) = w /\ Wait(m)' = x
        /\ ApplyDeadline = a /\ FirstCheck = f /\ Allowance = l
  BY <1>4, LifeTerms, Zenon
<1>6. t <= s + d /\ x + d <= a /\ s + w <= f + a + l
  BY <1>1, <1>5, Zenon DEF LifeLate
<1>7. t + x <= f + a + (l + a)
  BY <1>6
<1> QED
  BY <1>3, <1>5, <1>7, Zenon DEF LifeLate

LEMMA AfterNext ==
  ASSUME ActiveInv, LifeWatched', FirstDue', QueryPeriod > 1, [LifeNext]_allVars
  PROVE  AfterActivation'
<1> SUFFICES ASSUME state' = "active", port', NEW m \in Motor, Driven(m)'
             PROVE  HeldLate(m)' \/ LifeLate(m)'
  BY DEF AfterActivation
<1>0. /\ LifeTypeOK /\ LifeTypeOK' /\ Places /\ TypeOK /\ TypeOK'
      /\ WatchdogDeadline \in Nat
  BY DeadlinesNat DEF ActiveInv, LifeWatched, LifeTypeOK
<1>1. WatchdogDeadline' = WatchdogDeadline
  BY DEF WatchdogDeadline, CycleTime, WriteTime
<1>2. CASE Transition
  <2>1. since' = 0
    BY <1>2 DEF Transition, on_configure, ConfigureFails, on_activate, on_deactivate,
       on_cleanup, on_shutdown, lifeVars, busVars
  <2>2. (/\ Wait(m) \in Nat /\ Wait(m) <= ApplyDeadline /\ Allowance \in Nat
         /\ ApplyDeadline \in Nat /\ FirstCheck \in Nat)'
    BY <1>0, LifeTerms, PTL
  <2>3. since' + Wait(m)' <= FirstCheck' + ApplyDeadline' + Allowance'
    BY <2>1, <2>2
  <2> QED
    BY <2>3 DEF LifeLate
<1>3. CASE SendStop \/ WaitInactive
  BY <1>0, <1>3 DEF SendStop, WaitInactive, lifeVars, Places
<1>4. CASE Destroy
  BY <1>4 DEF Destroy
<1>5. CASE Shared
  <2>1. state = "active" /\ [Next]_vars
    BY <1>5, SharedIsNext DEF Shared
  <2>2. faults' >= faults /\ port
    BY <1>0, <2>1, CountGrows DEF Places
  <2>3. CASE ~ timed_out'[m]
    <3>1. (LifeWatched /\ FirstDue /\ state = "active" /\ ~ timed_out[m]
           => HeldLate(m) \/ LifeLate(m))'
      BY TrustedInTime, PTL
    <3> QED
      BY <2>3, <3>1
  <2>4. CASE age'[m] = 0
    BY <1>0, <1>1, <2>4 DEF HeldLate
  <2>5. CASE timed_out'[m] /\ ClockedSlot /\ ServedIn(m)
    <3>1. PICK outcome \in Outcomes, sleep \in 0 .. SlotTime :
            SlotFor(outcome, sleep) /\ Clock(Delay(outcome) + sleep)
      BY <2>5 DEF ClockedSlot
    <3>2. PICK d \in 0 .. WriteTime :
            d = Delay(outcome) + sleep /\ Elapse(d) /\ Clock(d)
      BY <3>1, SlotDelay DEF SlotFor
    <3>3. d \in Nat /\ d <= WriteTime /\ AgeBy(d) /\ SlotStep(outcome)
      BY <3>1, <3>2, WriteTimeNat DEF Elapse, SlotFor, SlotStep
    <3>4. timed_out[m]
      BY <2>5, <3>3 DEF SlotStep, ServeWithoutCommand, ServeSwitch, ServeValue
    <3>5. Driven(m)
      BY <1>0, <2>2, <2>5, <3>3, <3>4, ServedInVain
    <3>6. HeldLate(m) \/ LifeLate(m)
      BY <2>1, <2>2, <3>5 DEF ActiveInv, AfterActivation
    <3>7. CASE HeldLate(m)
      BY <1>0, <2>2, <2>5, <3>3, <3>4, <3>7, ServedLate
    <3>8. CASE LifeLate(m)
      BY <1>0, <2>2, <2>5, <3>2, <3>3, <3>4, <3>8, ServedSince
    <3> QED
      BY <3>6, <3>7, <3>8
  <2>6. CASE age'[m] # 0 /\ ~ (ClockedSlot /\ ServedIn(m))
    <3>1. UNCHANGED vars \/ ~ ServedIn(m)
      BY <1>0, <1>5, <2>6
         DEF Shared, Quietly, Places, ServedIn, Construct, ClosePort, TopicCallback,
             ControlTimer, Tick, TimeoutTimer
    <3>2. motor' = motor \/ Untouched(m) \/ motor'[m].target = StopFrame
      BY <1>0, <2>1, <3>1, OthersTouch DEF vars, busVars
    <3>3. HeldLate(m) \/ LifeLate(m)
      BY <2>1, <2>2, <3>2 DEF ActiveInv, AfterActivation, Driven, Untouched
    <3>4. CASE HeldLate(m)
      <4>1. Young
        BY <1>0, <2>1 DEF Young, Places
      <4>2. Paid(m)
        BY <1>0, <2>1, <2>6, <3>1, <4>1, PaidNext, PaidStutter DEF Places
      <4> QED
        BY <1>0, <2>2, <3>4, <4>2, PaidLate
    <3>5. CASE LifeLate(m)
      BY <1>0, <1>5, <2>1, <2>2, <2>6, <3>5, SincePaidNext, PaidSince
    <3> QED
      BY <3>3, <3>4, <3>5
  <2> QED
    BY <2>3, <2>4, <2>5, <2>6
<1> QED
  BY <1>2, <1>3, <1>4, <1>5, LifeSteps

LEMMA ActiveInvAlways ==
  ASSUME QueryPeriod > 1
  PROVE  LifeSpec => []ActiveInv
<1>1. LifeInit => ActiveInv
  BY LifeTypeInit
     DEF LifeInit, ActiveInv, LifeWatched, FirstDue, AfterActivation, Places, Counter
<1>2. ASSUME ActiveInv, [LifeNext]_allVars
      PROVE  ActiveInv'
  <2>1. LifeWatched /\ FirstDue /\ LifeTypeOK /\ Places
    BY <1>2 DEF ActiveInv, LifeWatched
  <2>2. LifeWatched' /\ LifeTypeOK'
    BY <1>2, <2>1, LifeWatchedNext, LifeTypeNext
  <2>3. FirstDue'
    BY <1>2, <2>1, <2>2, FirstDueNext
  <2>4. AfterActivation'
    BY <1>2, <2>2, <2>3, AfterNext
  <2> QED
    BY <2>2, <2>3, <2>4 DEF ActiveInv
<1> QED
  BY <1>1, <1>2, PTL DEF LifeSpec

(* A command that was taken while the node was inactive, or that the last  *)
(* activation left behind, drives a motor no longer than the first check,  *)
(* one wait, and one more for each lost transmission last.                 *)
THEOREM SilentStoppedAfterActivation ==
  ASSUME QueryPeriod > 1
  PROVE  LifeSpec => []StoppedAfterActivation
<1>1. ActiveInv => StoppedAfterActivation
  <2> SUFFICES ASSUME ActiveInv, NEW m \in Motor, state = "active", port,
                      age[m] > StopDeadline + faults * ApplyDeadline,
                      since > FirstCheck + (faults + 1) * ApplyDeadline
               PROVE  motor[m].target.type = "stop"
    BY DEF StoppedAfterActivation
  <2>1. LifeTypeOK /\ (Driven(m) => HeldLate(m) \/ LifeLate(m))
    BY DEF ActiveInv, LifeWatched, AfterActivation
  <2>2. faults \in Nat
    BY <2>1, BusAssumption DEF LifeTypeOK, TypeOK, BusTypeOK
  <2>3. (faults + 1) * ApplyDeadline = Allowance + ApplyDeadline
    BY <2>2, TimesGrows, DeadlinesNat DEF Allowance
  <2>4. ~ HeldLate(m)
    BY <2>1, LifeTerms, DeadlinesNat DEF HeldLate, Allowance
  <2>5. ~ LifeLate(m)
    <3>1. PICK s \in Nat, w \in Nat, a \in Nat, f \in Nat, l \in Nat :
            /\ since = s /\ Wait(m) = w /\ ApplyDeadline = a /\ FirstCheck = f
            /\ Allowance = l
      BY <2>1, LifeTerms, Zenon
    <3>2. s > f + (l + a)
      BY <2>3, <3>1, Zenon
    <3>3. ~ (s + w <= f + a + l)
      BY <3>2
    <3> QED
      BY <3>1, <3>3, Zenon DEF LifeLate
  <2> QED
    BY <2>1, <2>4, <2>5, FrameKinds DEF Driven
<1> QED
  BY <1>1, ActiveInvAlways, PTL

(* What a motor is given a command by                                      *)
LEMMA StaleNext ==
  ASSUME LifeWatched, FirstDue, [LifeNext]_allVars, NEW m \in Motor,
         motor'[m].target # motor[m].target, motor'[m].target.type = "command"
  PROVE  age[m] <= WatchdogDeadline \/ since <= FirstCheck
<1>0. LifeTypeOK /\ Places /\ TypeOK /\ BusTypeOK /\ i \in Motor
  BY DEF LifeWatched, LifeTypeOK, TypeOK
<1>1. CASE Transition \/ Destroy \/ WaitInactive
  BY <1>1 DEF Transition, on_configure, ConfigureFails, on_activate, on_deactivate,
     on_cleanup, on_shutdown, Destroy, WaitInactive, busVars
<1>2. CASE SendStop
  <2>1. PICK outcome : WritePacket(i, StopFrame, outcome)
    BY <1>2 DEF SendStop
  <2>2. motor'[m].target = StopFrame
    BY <1>0, <2>1, Written, FrameKinds
  <2> QED
    BY <2>2, FrameKinds
<1>3. CASE Shared
  <2>1. ServedIn(m)
    <3>1. [Next]_vars
      BY <1>3, SharedIsNext
    <3> QED
      BY <1>0, <3>1, OthersTouch, FrameKinds DEF Untouched
  <2>2. PICK outcome : Served(m, outcome)
    BY <2>1 DEF ServedIn
  <2>3. ServeValue(m, outcome)
    <3>1. SUFFICES ASSUME ServeWithoutCommand(m, outcome) PROVE FALSE
      BY <2>2 DEF Served
    <3>2. WritePacket(m, StopFrame, outcome)
      BY <2>2, <3>1 DEF Served, ServeWithoutCommand, SlotFrame
    <3>3. motor'[m].target = StopFrame
      BY <1>0, <3>2, Written, FrameKinds
    <3> QED
      BY <3>3, FrameKinds
  <2>4. ~ timed_out[m] /\ state = "active"
    BY <1>0, <2>1, <2>3 DEF ServeValue, ServedIn, Places
  <2>5. CASE checked
    BY <2>4, <2>5, WatchdogBounds DEF LifeWatched, WatchdogBound
  <2>6. CASE ~ checked
    BY <1>0, <2>4, <2>6, FirstInTime
  <2> QED
    BY <2>5, <2>6
<1> QED
  BY <1>1, <1>2, <1>3, LifeSteps

(* The command of a silent client is only sent by the cycles that run      *)
(* before the first check after an activation, however many motors there   *)
(* are and whatever is lost.                                               *)
THEOREM StaleCommandsEnd == LifeSpec => StaleOnlyAtFirst
<1>1. LifeInit => LifeWatched /\ FirstDue
  BY LifeTypeInit DEF LifeInit, LifeWatched, FirstDue, Places, Counter
<1>2. LifeWatched /\ FirstDue /\ [LifeNext]_allVars => (LifeWatched /\ FirstDue)'
  <2> SUFFICES ASSUME LifeWatched, FirstDue, [LifeNext]_allVars
               PROVE  (LifeWatched /\ FirstDue)'
    OBVIOUS
  <2>1. LifeTypeOK /\ LifeTypeOK' /\ Places /\ LifeWatched'
    BY LifeWatchedNext, LifeTypeNext DEF LifeWatched
  <2> QED
    BY <2>1, FirstDueNext
<1>3. LifeWatched /\ FirstDue /\ [LifeNext]_allVars
      => [\A m \in Motor :
            motor'[m].target # motor[m].target /\ motor'[m].target.type = "command"
              => age[m] <= WatchdogDeadline \/ since <= FirstCheck]_allVars
  BY StaleNext
<1> QED
  BY <1>1, <1>2, <1>3, PTL DEF LifeSpec, StaleOnlyAtFirst

-----------------------------------------------------------------------------
(* Commands after an activation                                            *)

ActiveApplied ==
  faults = 0 /\ state = "active" /\ pc \in {"idle", "serve"} =>
    \A m \in Motor :
      Trusted(m) => AppliedSoon(m) \/ since + Wait(m) <= ApplyDeadline

LEMMA ActiveAppliedNext ==
  ASSUME LifeInv, LifeTypeOK', QueryPeriod > 1, ActiveApplied, [LifeNext]_allVars
  PROVE  ActiveApplied'
<1> SUFFICES ASSUME faults' = 0, state' = "active", (pc \in {"idle", "serve"})',
                    NEW m \in Motor, Trusted(m)'
             PROVE  AppliedSoon(m)' \/ since' + Wait(m)' <= ApplyDeadline'
  BY DEF ActiveApplied
<1>0. LifeTypeOK /\ Places /\ LifeHeard /\ TypeOK /\ TypeOK'
  BY DEF LifeInv, LifeTypeOK
<1>1. CASE Transition
  <2>1. since' = 0
    BY <1>1 DEF Transition, on_configure, ConfigureFails, on_activate, on_deactivate,
       on_cleanup, on_shutdown, lifeVars
  <2>2. (Wait(m) \in Nat /\ Wait(m) <= ApplyDeadline)'
    BY <1>0, WaitBounds, PTL
  <2> QED
    BY <2>1, <2>2
<1>2. CASE SendStop \/ WaitInactive \/ Destroy
  BY <1>0, <1>2 DEF SendStop, WaitInactive, Destroy, lifeVars, Places
<1>3. CASE Shared
  <2>1. state = "active" /\ [Next]_vars /\ faults = 0
    BY <1>0, <1>3, SharedIsNext, FaultsNext DEF Shared
  <2>2. CASE age'[m] = 0
    BY <1>0, <2>2, FreshApplied
  <2>3. CASE ServedIn(m)
    <3>1. Heard
      BY <1>0, <2>1, <2>3 DEF ServedIn, LifeHeard, Heard
    <3>2. Applied(m)'
      BY <1>0, <2>3, <3>1, ServedRight DEF Trusted
    <3> QED
      BY <3>2 DEF AppliedSoon
  <2>4. CASE age'[m] # 0 /\ ~ ServedIn(m)
    <3>1. Young
      BY <1>0, <2>1 DEF Young, Places
    <3>2. Untouched(m)
      BY <1>0, <2>1, <2>4, OthersTouch
    <3>3. ~ timed_out[m] /\ last_cmd'[m] = last_cmd[m] /\ pc \in {"idle", "serve"}
      BY <1>0, <2>1, <2>4, <3>1, TrustNext DEF Trusted
    <3>4. AppliedSoon(m) \/ since + Wait(m) <= ApplyDeadline
      BY <2>1, <3>3 DEF ActiveApplied, Trusted
    <3>5. CASE Applied(m)
      BY <3>2, <3>3, <3>5 DEF Applied, AppliedSoon, Untouched
    <3>6. CASE age[m] + Wait(m) <= ApplyDeadline
      <4>1. Paid(m)
        BY <1>0, <2>1, <2>4, <3>1, PaidNext DEF Places
      <4> QED
        BY <1>0, <3>6, <4>1, PaidApplied
    <3>7. CASE since + Wait(m) <= ApplyDeadline
      <4>1. SincePaid(m)
        BY <1>0, <1>3, <2>1, <2>4, SincePaidNext
      <4>2. PICK d \in Nat : since' <= since + d /\ Wait(m)' + d <= Wait(m)
        BY <4>1 DEF SincePaid
      <4>3. (since \in Nat /\ Wait(m) \in Nat)'
        BY LifeTerms, PTL
      <4>4. ApplyDeadline' = ApplyDeadline
        BY DEF ApplyDeadline, CycleTime, WriteTime
      <4>5. PICK s \in Nat, t \in Nat, w \in Nat, x \in Nat, a \in Nat :
              /\ since = s /\ since' = t /\ Wait(m) = w /\ Wait(m)' = x
              /\ ApplyDeadline = a
        BY <1>0, <4>3, LifeTerms, Zenon
      <4>6. t <= s + d /\ x + d <= w /\ s + w <= a
        BY <3>7, <4>2, <4>5, Zenon
      <4>7. t + x <= a
        BY <4>6
      <4> QED
        BY <4>4, <4>5, <4>7, Zenon
    <3> QED
      BY <3>4, <3>5, <3>6, <3>7 DEF AppliedSoon
  <2> QED
    BY <2>2, <2>3, <2>4
<1> QED
  BY <1>1, <1>2, <1>3, LifeSteps

(* While nothing is lost, a motor of an active node follows the newest     *)
(* command, in its mode, one wait after the command and the activation,    *)
(* the commands included that came while the node was inactive.            *)
THEOREM CommandsAppliedAfterActivation ==
  ASSUME QueryPeriod > 1
  PROVE  LifeSpec => []AppliedAfterActivation
<1>1. LifeInit => ActiveApplied
  BY DEF LifeInit, ActiveApplied
<1>2. ASSUME LifeInv, LifeInv', ActiveApplied, [LifeNext]_allVars
      PROVE  ActiveApplied'
  <2>1. LifeTypeOK'
    BY <1>2 DEF LifeInv
  <2> QED
    BY <1>2, <2>1, ActiveAppliedNext
<1>3. LifeInv /\ ActiveApplied => AppliedAfterActivation
  <2> SUFFICES ASSUME LifeInv, ActiveApplied, NEW m \in Motor, faults = 0,
                      state = "active", pc \in {"idle", "serve"}, Trusted(m),
                      age[m] > ApplyDeadline, since > ApplyDeadline
               PROVE  Applied(m)
    BY DEF AppliedAfterActivation, Applied, Trusted
  <2>1. AppliedSoon(m) \/ since + Wait(m) <= ApplyDeadline
    BY DEF ActiveApplied
  <2>2. PICK s \in Nat, w \in Nat, g \in Nat, a \in Nat :
          since = s /\ Wait(m) = w /\ age[m] = g /\ ApplyDeadline = a
    BY LifeTerms, Zenon DEF LifeInv
  <2>3. s > a /\ g > a
    BY <2>2, Zenon
  <2>4. ~ (g + w <= a) /\ ~ (s + w <= a)
    BY <2>3
  <2> QED
    BY <2>1, <2>2, <2>4, Zenon DEF AppliedSoon
<1> QED
  BY <1>1, <1>2, <1>3, LifeInvAlways, PTL DEF LifeSpec
=============================================================================
