-------------------------- MODULE DriverNodeProofs --------------------------
(***************************************************************************)
(* Theorems about the standalone node for every number of motors, every    *)
(* set of commands and faults and every choice of periods.                 *)
(***************************************************************************)
EXTENDS DriverNode, MotorBusProofs

-----------------------------------------------------------------------------
(* Lemmas about the operators of the model. *)

LEMMA CommandsTyped ==
  ASSUME HandlerTypeOK, NEW m \in Motor
  PROVE  /\ last_cmd[m].mode \in 0 .. 255
         /\ last_cmd[m].value \in Int
         /\ last_cmd[m].brake \in BOOLEAN
<1>1. DefaultCommand \in [mode : 0 .. 255, value : Int, brake : BOOLEAN]
  BY DEF DefaultCommand, MODE_VELOCITY
<1>2. last_cmd[m] \in [mode : 0 .. 255, value : Int, brake : BOOLEAN]
  BY <1>1, HandlerAssumption DEF HandlerTypeOK
<1> QED
  BY <1>2

-----------------------------------------------------------------------------
(* Type correctness *)

(* The loop counter stays within motor_ids_, where it is used as an index. *)
LEMMA NextMotorTyped ==
  ASSUME i \in Motor, NEW again, NEW done, NextMotor(again, done)
  PROVE  i' \in Motor /\ pc' \in {again, done}
BY BusAssumption DEF NextMotor, Motor

LEMMA ElapseTyped ==
  ASSUME TypeOK, NEW d \in Nat, Elapse(d)
  PROVE  /\ age' \in [Motor -> 0 .. AgeCap]
         /\ ctrl_left' \in 0 .. ControlPeriod
         /\ check_left' \in 0 .. CheckPeriod
BY HandlerAssumption, NodeAssumption
   DEF TypeOK, HandlerTypeOK, Elapse, AgeBy, Monus

LEMMA DelayTyped ==
  ASSUME NEW outcome
  PROVE  Delay(outcome) \in Nat
BY NodeAssumption DEF Delay

(* A slot of the control cycle leaves the handler and the bus well-typed. *)
LEMMA SlotTyped ==
  ASSUME TypeOK, NEW outcome,
         \/ ServeWithoutCommand(i, outcome)
         \/ ServeSwitch(i, outcome)
         \/ ServeValue(i, outcome)
  PROVE  /\ BusTypeOK'
         /\ UNCHANGED <<last_cmd, timed_out, cycle, diagnosis>>
         /\ active_mode' \in [Motor -> 0 .. 255]
<1> USE DEF TypeOK
<1>1. last_cmd[i].mode \in 0 .. 255 /\ last_cmd[i].value \in Int
      /\ last_cmd[i].brake \in BOOLEAN
  BY CommandsTyped
<1>2. CASE ServeWithoutCommand(i, outcome)
  <2>1. SlotFrame(i) \in {QueryFrame, StopFrame}
    BY <1>2 DEF ServeWithoutCommand, SlotFrame
  <2>2. SlotFrame(i) \in AnyFrame
    BY <2>1, FramesTyped
  <2>3. BusTypeOK'
    BY <1>2, <2>2, WritePacketTyped DEF ServeWithoutCommand
  <2> QED
    BY <1>2, <2>3 DEF ServeWithoutCommand, HandlerTypeOK
<1>3. CASE ServeSwitch(i, outcome)
  <2>1. ModeFrame(last_cmd[i].mode) \in AnyFrame
    BY <1>1, FramesTyped
  <2>2. BusTypeOK'
    BY <1>3, <2>1, WritePacketTyped DEF ServeSwitch
  <2> QED
    BY <1>1, <1>3, <2>2 DEF ServeSwitch, HandlerTypeOK
<1>4. CASE ServeValue(i, outcome)
  <2>1. CASE last_cmd[i].mode \in Modes
    <3>1. SlotFrame(i) = ValueFrame(last_cmd[i].mode, last_cmd[i].value,
                                    last_cmd[i].brake)
      BY <1>4 DEF ServeValue, SlotFrame
    <3>2. SlotFrame(i) \in AnyFrame
      <4>1. SlotFrame(i) \in Target
        BY <1>1, <2>1, <3>1, FramesTyped
      <4> QED
        BY <4>1 DEF AnyFrame
    <3>3. BusTypeOK'
      BY <1>4, <2>1, <3>2, WritePacketTyped DEF ServeValue
    <3> QED
      BY <1>4, <3>3 DEF ServeValue, HandlerTypeOK
  <2>2. CASE last_cmd[i].mode \notin Modes
    BY <1>4, <2>2 DEF ServeValue, HandlerTypeOK, busVars, BusTypeOK
  <2> QED
    BY <2>1, <2>2
<1> QED
  BY <1>2, <1>3, <1>4

LEMMA TypeInit == Init => TypeOK
<1> USE BusAssumption, HandlerAssumption, NodeAssumption
<1> SUFFICES ASSUME Init PROVE TypeOK
  OBVIOUS
<1>1. MODE_VELOCITY \in Modes /\ MODE_VELOCITY \in 0 .. 255 /\ NoFrame \in Target
  BY FramesTyped DEF Modes, MODE_VELOCITY
<1>2. BusTypeOK
  <2>1. motor \in [Motor -> [mode : Modes, target : Target, read_as : Modes]]
    BY <1>1 DEF Init, BusInit
  <2>2. port \in BOOLEAN
    BY DEF Init, BusInit
  <2>3. faults \in 0 .. MaxFaults
    BY DEF Init, BusInit
  <2> QED
    BY <2>1, <2>2, <2>3 DEF BusTypeOK
<1>3. HandlerTypeOK
  BY <1>1 DEF Init, HandlerInit, HandlerTypeOK
<1>4. /\ pc = "start" /\ i \in Motor
      /\ ctrl_left \in 0 .. ControlPeriod /\ check_left \in 0 .. CheckPeriod
  BY DEF Init, Motor
<1>5. overtaken \in BOOLEAN
  BY DEF Init
<1> QED
  BY <1>2, <1>3, <1>4, <1>5 DEF TypeOK

LEMMA TypeStep == TypeOK /\ [Next]_vars => TypeOK'
<1> USE BusAssumption, HandlerAssumption, NodeAssumption
<1> SUFFICES ASSUME TypeOK, [Next]_vars PROVE TypeOK'
  OBVIOUS
<1> USE DEF TypeOK
<1>1. CASE InitPort
  BY <1>1 DEF InitPort, BusTypeOK, HandlerTypeOK, handlerVars
<1>2. CASE Construct
  <2>1. ModeFrame(MODE_VELOCITY) \in AnyFrame
    BY FramesTyped DEF MODE_VELOCITY
  <2>2. BusTypeOK'
    BY <1>2, <2>1, WritePacketTyped DEF Construct, busVars, BusTypeOK
  <2>3. i' \in Motor /\ pc' \in {"construct", "idle"}
    BY <1>2, NextMotorTyped DEF Construct
  <2> QED
    BY <1>2, <2>2, <2>3 DEF Construct, HandlerTypeOK, handlerVars
<1>3. CASE \E m \in Motor, cmd \in Commands : TopicCallback(m, cmd)
  BY <1>3 DEF TopicCallback, set_command, BusTypeOK, HandlerTypeOK, busVars, nodeVars
<1>4. CASE ControlTimer
  <2>1. cycle' \in 0 .. QueryPeriod - 1
    BY <1>4 DEF ControlTimer, CountCycle, HandlerTypeOK
  <2> QED
    BY <1>4, <2>1 DEF ControlTimer, BusTypeOK, HandlerTypeOK, busVars
<1>5. CASE Slot
  <2>1. PICK outcome \in Outcomes, sleep \in 0 .. SlotTime :
          /\ \/ ServeWithoutCommand(i, outcome) /\ NextMotor("serve", "idle")
             \/ ServeSwitch(i, outcome) /\ UNCHANGED <<pc, i>>
             \/ ServeValue(i, outcome) /\ NextMotor("serve", "idle")
          /\ Elapse(Delay(outcome) + sleep)
    BY <1>5 DEF Slot, SlotFor
  <2>2. /\ BusTypeOK'
        /\ UNCHANGED <<last_cmd, timed_out, cycle, diagnosis>>
        /\ active_mode' \in [Motor -> 0 .. 255]
    BY <2>1, SlotTyped
  <2>3. i' \in Motor /\ pc' \in {"serve", "idle"}
    BY <1>5, <2>1, NextMotorTyped DEF Slot, SlotFor
  <2>4. Delay(outcome) + sleep \in Nat
    BY DelayTyped
  <2>5. /\ age' \in [Motor -> 0 .. AgeCap]
        /\ ctrl_left' \in 0 .. ControlPeriod
        /\ check_left' \in 0 .. CheckPeriod
    BY <2>1, <2>4, ElapseTyped
  <2> QED
    BY <1>5, <2>2, <2>3, <2>5 DEF Slot, SlotFor, HandlerTypeOK
<1>6. CASE TimeoutTimer
  <2>1. timed_out' \in [Motor -> BOOLEAN]
    BY <1>6 DEF TimeoutTimer, check_timeouts, Expired, HandlerTypeOK
  <2>2. diagnosis' \in {"OK", "WARN", "ERROR"}
    BY <1>6 DEF TimeoutTimer, check_timeouts, DiagnosisOf
  <2>3. BusTypeOK'
    BY <1>6 DEF TimeoutTimer, BusTypeOK, busVars
  <2>4. HandlerTypeOK'
    BY <1>6, <2>1, <2>2 DEF TimeoutTimer, check_timeouts, HandlerTypeOK
  <2>5. check_left' \in 0 .. CheckPeriod
    BY <1>6 DEF TimeoutTimer
  <2>6. overtaken' \in BOOLEAN
    BY <1>6 DEF TimeoutTimer
  <2> QED
    BY <1>6, <2>3, <2>4, <2>5, <2>6 DEF TimeoutTimer
<1>7. CASE StopMotor
  <2>1. BusTypeOK'
    BY <1>7, FramesTyped, WritePacketTyped DEF StopMotor
  <2>2. i' \in Motor /\ pc' \in {"stop", "close"}
    BY <1>7, NextMotorTyped DEF StopMotor
  <2> QED
    BY <1>7, <2>1, <2>2 DEF StopMotor, HandlerTypeOK, handlerVars
<1>8. CASE ClosePort
  BY <1>8 DEF ClosePort, BusTypeOK, HandlerTypeOK, handlerVars
<1>9. CASE Tick
  <2>1. /\ age' \in [Motor -> 0 .. AgeCap]
        /\ ctrl_left' \in 0 .. ControlPeriod
        /\ check_left' \in 0 .. CheckPeriod
    BY <1>9, ElapseTyped DEF Tick
  <2> QED
    BY <1>9, <2>1 DEF Tick, BusTypeOK, HandlerTypeOK, busVars
<1>10. CASE Shutdown
  BY <1>10 DEF Shutdown, BusTypeOK, HandlerTypeOK, busVars, handlerVars
<1>11. CASE UNCHANGED vars
  BY <1>11 DEF vars, BusTypeOK, HandlerTypeOK, busVars, handlerVars, nodeVars
<1> QED
  BY <1>1, <1>2, <1>3, <1>4, <1>5, <1>6, <1>7, <1>8, <1>9, <1>10, <1>11
     DEF Next, ExecutorStep, Terminated

(* Every variable of the node keeps its type. *)
THEOREM TypeCorrect == Spec => []TypeOK
BY TypeInit, TypeStep, PTL DEF Spec

-----------------------------------------------------------------------------
(* The watchdog's deadline                                                 *)
(*                                                                         *)
(* WatchdogBound is not inductive: it forgets how soon the timeout timer   *)
(* is due and how long the executor may still keep it waiting.  OnTime     *)
(* remembers both.  While the timer runs, age and remaining time balance;  *)
(* once it is due, the age may exceed the balance by the Grace that the    *)
(* control cycle in progress, and one cycle that overtook the timer, have  *)
(* used so far.                                                            *)

(* What the slots before that of motor k take at most. *)
Before(k) == (k - 1) * (2 * WriteTime)

Spent == Before(i) + (IF NeedsSwitch(i) THEN 0 ELSE WriteTime)

Overtaking == IF overtaken THEN CycleTime ELSE 0
InCycle    == IF pc = "serve" THEN Spent ELSE CycleTime
Grace      == Overtaking + InCycle

OnTime(m) ==
  IF check_left > 0
  THEN age[m] + check_left <= Timeout + CheckPeriod
  ELSE age[m] <= Timeout + CheckPeriod + Grace

WatchdogInv ==
  /\ TypeOK
  /\ overtaken => check_left = 0
  /\ \A m \in Motor : ~timed_out[m] => OnTime(m)

LEMMA WriteTimeNat == WriteTime \in Nat
BY NodeAssumption DEF WriteTime

LEMMA CycleTimeNat == CycleTime \in Nat
<1>1. 2 * WriteTime \in Nat
  BY WriteTimeNat
<1> QED
  BY <1>1, BusAssumption DEF CycleTime

(* The slots of a cycle add up to no more than the cycle. *)
LEMMA SlotsAddUp ==
  ASSUME NEW k \in Motor
  PROVE  /\ Before(k) \in Nat
         /\ Before(k) + 2 * WriteTime <= CycleTime
         /\ Before(k + 1) = Before(k) + 2 * WriteTime
<1> DEFINE w == 2 * WriteTime
<1>1. w \in Nat /\ NumMotors \in Nat /\ k \in Nat /\ k >= 1 /\ k <= NumMotors
  BY WriteTimeNat, BusAssumption DEF Motor
<1> HIDE DEF w
<1>2. (k - 1) * w \in Nat
  BY <1>1
<1>3. k * w = (k - 1) * w + w
  BY <1>1
<1>4. k * w <= NumMotors * w
  <2>1. (NumMotors - k) * w >= 0
    BY <1>1
  <2>2. (NumMotors - k) * w = NumMotors * w - k * w
    BY <1>1
  <2> QED
    BY <1>1, <2>1, <2>2
<1>5. (k + 1) - 1 = k
  BY <1>1
<1> QED
  BY <1>1, <1>2, <1>3, <1>4, <1>5 DEF w, Before, CycleTime

LEMMA GraceBounds ==
  TypeOK => /\ Grace \in Nat /\ Grace <= 2 * CycleTime
            /\ Spent \in Nat /\ Spent + WriteTime <= CycleTime
<1> SUFFICES ASSUME TypeOK
             PROVE  /\ Grace \in Nat /\ Grace <= 2 * CycleTime
                    /\ Spent \in Nat /\ Spent + WriteTime <= CycleTime
  OBVIOUS
<1>1. i \in Motor
  BY DEF TypeOK
<1>2. Spent \in Nat /\ Spent + WriteTime <= CycleTime
  BY <1>1, SlotsAddUp, WriteTimeNat, CycleTimeNat DEF Spent
<1>3. Overtaking \in {0, CycleTime} /\ InCycle \in {Spent, CycleTime}
  BY DEF Overtaking, InCycle
<1> QED
  BY <1>2, <1>3, CycleTimeNat, WriteTimeNat DEF Grace

(* Time that passes is time the motor has left, or time that was granted. *)
LEMMA OnTimeElapse ==
  ASSUME TypeOK, NEW m \in Motor, NEW d \in Nat, Elapse(d), OnTime(m),
         Grace \in Nat, Grace' \in Nat,
         check_left <= d =>
           Grace' >= (IF check_left = 0 THEN Grace ELSE 0) + (d - check_left)
  PROVE  OnTime(m)'
<1>1. age[m] \in Nat /\ check_left \in Nat
  BY DEF TypeOK, HandlerTypeOK
<1>2. age'[m] \in Nat /\ age'[m] <= age[m] + d
  BY <1>1, HandlerAssumption DEF Elapse, AgeBy
<1>3. check_left' = IF check_left > d THEN check_left - d ELSE 0
  BY DEF Elapse, Monus
<1>4. Timeout \in Nat /\ CheckPeriod \in Nat
  BY HandlerAssumption, NodeAssumption
<1>5. CASE check_left > d
  BY <1>1, <1>2, <1>3, <1>4, <1>5 DEF OnTime
<1>6. CASE ~(check_left > d) /\ check_left > 0
  BY <1>1, <1>2, <1>3, <1>4, <1>6 DEF OnTime
<1>7. CASE check_left = 0
  BY <1>1, <1>2, <1>3, <1>4, <1>7 DEF OnTime
<1> QED
  BY <1>1, <1>5, <1>6, <1>7

(* A transmission and its sleep take at most WriteTime. *)
LEMMA SlotDelay ==
  ASSUME NEW outcome \in Outcomes, NEW sleep \in 0 .. SlotTime
  PROVE  Delay(outcome) + sleep \in 0 .. WriteTime
<1>1. outcome \in {"sent", "refused"} \cup Faults
  BY DEF Outcomes
<1>2. CASE outcome \in {"reopen", "closed"}
  <2>1. Faults \cap {"reopen", "closed"} # {}
    BY <1>1, <1>2
  <2> QED
    BY <1>2, <2>1, NodeAssumption DEF Delay, WriteTime
<1>3. CASE outcome \notin {"reopen", "closed"}
  BY <1>3, NodeAssumption DEF Delay, WriteTime
<1> QED
  BY <1>2, <1>3

(* Every step of a cycle is granted the time it takes. *)
LEMMA SlotGranted ==
  ASSUME TypeOK, TypeOK', pc = "serve", UNCHANGED overtaken, NEW outcome,
         \/ ServeWithoutCommand(i, outcome) /\ NextMotor("serve", "idle")
         \/ ServeSwitch(i, outcome) /\ UNCHANGED <<pc, i>>
         \/ ServeValue(i, outcome) /\ NextMotor("serve", "idle")
  PROVE  Grace' >= Grace + WriteTime
<1>1. /\ Grace = Overtaking + Spent
      /\ Overtaking' = Overtaking
      /\ Grace' = Overtaking' + InCycle'
  BY DEF Grace, Overtaking, InCycle
<1>2. i \in Motor /\ i' \in Motor
  BY DEF TypeOK
<1>3. InCycle' >= Spent + WriteTime
  <2>1. CASE ServeSwitch(i, outcome) /\ UNCHANGED <<pc, i>>
    <3>1. NeedsSwitch(i) /\ ~NeedsSwitch(i)'
      BY <1>2, <2>1 DEF ServeSwitch, NeedsSwitch, TypeOK, HandlerTypeOK
    <3>2. Spent = Before(i)
      BY <1>2, <3>1, SlotsAddUp DEF Spent
    <3>3. Before(i)' = Before(i) /\ i' = i
      BY <2>1 DEF Before, WriteTime
    <3>4. Spent' = Before(i) + WriteTime
      BY <3>1, <3>3 DEF Spent, WriteTime
    <3>5. InCycle' = Spent'
      BY <2>1 DEF InCycle
    <3> QED
      BY <1>2, <3>2, <3>4, <3>5, SlotsAddUp, WriteTimeNat
  <2>2. CASE NextMotor("serve", "idle")
    <3>1. CASE i < NumMotors
      <4>1. i' = i + 1 /\ pc' = "serve"
        BY <2>2, <3>1 DEF NextMotor
      <4>2. InCycle' = Spent' /\ Spent' >= Before(i')
        BY <1>2, <4>1, SlotsAddUp, WriteTimeNat DEF InCycle, Spent, Before, WriteTime
      <4>3. Spent <= Before(i) + WriteTime
        BY <1>2, SlotsAddUp, WriteTimeNat DEF Spent
      <4>4. Before(i') = Before(i) + 2 * WriteTime
        BY <1>2, <4>1, SlotsAddUp
      <4>5. Before(i) \in Nat /\ Spent \in Nat /\ Spent' \in Nat
        BY <1>2, SlotsAddUp, WriteTimeNat DEF Spent, Before, WriteTime
      <4> QED
        BY <4>2, <4>3, <4>4, <4>5, WriteTimeNat
    <3>2. CASE ~(i < NumMotors)
      <4>1. InCycle' = CycleTime
        BY <2>2, <3>2 DEF NextMotor, InCycle, CycleTime, WriteTime
      <4> QED
        BY <4>1, GraceBounds, CycleTimeNat
    <3> QED
      BY <3>1, <3>2
  <2> QED
    BY <2>1, <2>2
<1>4. Overtaking \in Nat
  BY CycleTimeNat DEF Overtaking
<1>5. InCycle' \in Nat /\ Spent \in Nat
  <2>1. Spent' \in Nat
    BY <1>2, SlotsAddUp, WriteTimeNat DEF Spent, Before, WriteTime
  <2> QED
    BY <2>1, GraceBounds, CycleTimeNat DEF InCycle, CycleTime, WriteTime
<1>6. PICK n \in Nat : n = InCycle'
  BY <1>5
<1>7. n >= Spent + WriteTime
  BY <1>3, <1>6
<1>8. Overtaking + n >= (Overtaking + Spent) + WriteTime
  BY <1>4, <1>5, <1>7, WriteTimeNat
<1> QED
  BY <1>1, <1>6, <1>8

(* So is whatever the timeout timer waits for once it is due. *)
LEMMA SlotLeaves ==
  ASSUME TypeOK, TypeOK', pc = "serve", UNCHANGED overtaken, NEW outcome,
         \/ ServeWithoutCommand(i, outcome) /\ NextMotor("serve", "idle")
         \/ ServeSwitch(i, outcome) /\ UNCHANGED <<pc, i>>
         \/ ServeValue(i, outcome) /\ NextMotor("serve", "idle"),
         NEW d \in 0 .. WriteTime
  PROVE  Grace' >= (IF check_left = 0 THEN Grace ELSE 0) + (d - check_left)
<1>1. Grace \in Nat /\ check_left \in Nat
  BY GraceBounds DEF TypeOK
<1>2. (Grace \in Nat)'
  BY GraceBounds, PTL
<1>3. PICK n \in Nat : n = Grace'
  BY <1>2
<1>4. n >= Grace + WriteTime
  BY <1>3, SlotGranted
<1>5. n >= (IF check_left = 0 THEN Grace ELSE 0) + (d - check_left)
  BY <1>1, <1>3, <1>4, WriteTimeNat
<1> QED
  BY <1>3, <1>5

(* A cycle that overtakes the timeout timer keeps it waiting as long as a  *)
(* cycle may. *)
LEMMA CycleLeaves ==
  ASSUME TypeOK, TypeOK', ControlTimer, check_left = 0
  PROVE  Grace' >= Grace
<1>1. Grace = CycleTime
  BY CycleTimeNat DEF ControlTimer, Grace, Overtaking, InCycle
<1>2. Overtaking' = CycleTime /\ InCycle' = Spent'
  BY DEF ControlTimer, Overtaking, InCycle, CycleTime, WriteTime
<1>3. (Spent \in Nat)'
  BY GraceBounds, PTL
<1>4. PICK n \in Nat : n = Spent'
  BY <1>3
<1>5. Grace' = CycleTime + n
  BY <1>2, <1>4 DEF Grace
<1>6. CycleTime + n >= CycleTime
  BY CycleTimeNat
<1> QED
  BY <1>1, <1>5, <1>6

(* The watchdog invariant is inductive. *)
LEMMA WatchdogNext ==
  ASSUME WatchdogInv, [Next]_vars
  PROVE  WatchdogInv'
<1>1. TypeOK /\ TypeOK'
  BY TypeStep DEF WatchdogInv
<1>2. Grace \in Nat
  BY <1>1, GraceBounds
<1>3. (Grace \in Nat)'
  BY <1>1, GraceBounds, PTL
<1> USE DEF WatchdogInv
(* Steps that leave the clock, the watchdog and the grace alone. *)
<1>4. ASSUME UNCHANGED <<timed_out, age, check_left, overtaken>>,
             pc # "serve", pc' # "serve"
      PROVE  WatchdogInv'
  <2>1. Grace' = Grace
    BY <1>4 DEF Grace, Overtaking, InCycle, CycleTime, WriteTime
  <2>2. \A m \in Motor : OnTime(m)' <=> OnTime(m)
    BY <1>4, <2>1 DEF OnTime
  <2> QED
    BY <1>1, <1>4, <2>2
<1>5. CASE InitPort \/ Construct \/ Shutdown \/ StopMotor \/ ClosePort
  <2>1. pc # "serve" /\ pc' # "serve"
    BY <1>5 DEF InitPort, Construct, Shutdown, StopMotor, ClosePort, NextMotor
  <2> QED
    BY <1>4, <1>5, <2>1
       DEF InitPort, Construct, Shutdown, StopMotor, ClosePort, handlerVars
<1>6. CASE \E m \in Motor, cmd \in Commands : TopicCallback(m, cmd)
  <2>1. PICK k \in Motor, cmd \in Commands : TopicCallback(k, cmd)
    BY <1>6
  <2>2. pc = "idle" /\ UNCHANGED <<pc, overtaken, check_left>>
    BY <2>1 DEF TopicCallback, nodeVars
  <2>3. Grace' = Grace
    BY <2>2 DEF Grace, Overtaking, InCycle, CycleTime, WriteTime
  <2>4. ASSUME NEW m \in Motor, ~timed_out'[m] PROVE OnTime(m)'
    <3>1. CASE m = k
      <4>1. age'[m] = 0
        BY <2>1, <3>1, <1>1 DEF TopicCallback, set_command, TypeOK, HandlerTypeOK
      <4> QED
        BY <1>1, <1>2, <2>2, <2>3, <4>1, HandlerAssumption, NodeAssumption
           DEF OnTime, TypeOK
    <3>2. CASE m # k
      <4>1. age'[m] = age[m] /\ timed_out'[m] = timed_out[m]
        BY <2>1, <3>2, <1>1 DEF TopicCallback, set_command, TypeOK, HandlerTypeOK
      <4> QED
        BY <2>2, <2>3, <2>4, <4>1 DEF OnTime
    <3> QED
      BY <3>1, <3>2
  <2> QED
    BY <1>1, <2>2, <2>4
<1>7. CASE ControlTimer
  <2>1. UNCHANGED <<timed_out, age, check_left>>
    BY <1>7 DEF ControlTimer
  <2>2. overtaken' => check_left' = 0
    BY <1>7 DEF ControlTimer
  <2>3. check_left = 0 => Grace' >= Grace
    BY <1>1, <1>7, CycleLeaves
  <2>4. ASSUME NEW m \in Motor, OnTime(m) PROVE OnTime(m)'
    <3>1. CASE check_left = 0
      BY <1>1, <1>2, <1>3, <2>1, <2>3, <2>4, <3>1, HandlerAssumption, NodeAssumption
         DEF OnTime, TypeOK, HandlerTypeOK
    <3>2. CASE check_left # 0
      BY <1>1, <2>1, <2>4, <3>2 DEF OnTime, TypeOK
    <3> QED
      BY <3>1, <3>2
  <2> QED
    BY <1>1, <2>1, <2>2, <2>4
<1>8. CASE Slot
  <2>1. PICK outcome \in Outcomes, sleep \in 0 .. SlotTime :
          /\ \/ ServeWithoutCommand(i, outcome) /\ NextMotor("serve", "idle")
             \/ ServeSwitch(i, outcome) /\ UNCHANGED <<pc, i>>
             \/ ServeValue(i, outcome) /\ NextMotor("serve", "idle")
          /\ Elapse(Delay(outcome) + sleep)
    BY <1>8 DEF Slot, SlotFor
  <2>2. pc = "serve" /\ UNCHANGED overtaken
    BY <1>8 DEF Slot, SlotFor
  <2>3. PICK d \in 0 .. WriteTime : d = Delay(outcome) + sleep /\ Elapse(d)
    BY <2>1, SlotDelay
  <2>4. Grace' >= (IF check_left = 0 THEN Grace ELSE 0) + (d - check_left)
    BY <1>1, <2>1, <2>2, SlotLeaves
  <2>5. UNCHANGED <<timed_out, overtaken>>
    BY <1>8, <2>1 DEF Slot, SlotFor, ServeWithoutCommand, ServeSwitch, ServeValue
  <2>6. check_left = 0 => check_left' = 0
    BY <1>1, <2>3, WriteTimeNat DEF Elapse, Monus
  <2>7. ASSUME NEW m \in Motor, OnTime(m) PROVE OnTime(m)'
    <3>1. d \in Nat
      BY WriteTimeNat
    <3> QED
      BY <1>1, <1>2, <1>3, <2>3, <2>4, <2>7, <3>1, OnTimeElapse
  <2> QED
    BY <1>1, <2>5, <2>6, <2>7
<1>9. CASE TimeoutTimer
  <2>1. /\ check_left' \in 1 .. CheckPeriod
        /\ overtaken' = FALSE
        /\ age' = age
        /\ timed_out' = [m \in Motor |-> Expired(m)]
    BY <1>9 DEF TimeoutTimer, check_timeouts
  <2>2. ASSUME NEW m \in Motor, ~timed_out'[m] PROVE OnTime(m)'
    <3>1. ~(age[m] > Timeout)
      BY <2>1, <2>2 DEF Expired
    <3>2. age'[m] \in Nat /\ age'[m] <= Timeout
      BY <1>1, <2>1, <3>1, HandlerAssumption DEF TypeOK, HandlerTypeOK
    <3> QED
      BY <2>1, <3>2, HandlerAssumption, NodeAssumption DEF OnTime
  <2> QED
    BY <1>1, <2>1, <2>2
<1>10. CASE Tick
  <2>1. /\ pc = "idle" /\ pc' = pc /\ check_left > 0 /\ Elapse(1)
        /\ UNCHANGED <<timed_out, overtaken>>
    BY <1>10 DEF Tick
  <2>2. ASSUME NEW m \in Motor, OnTime(m) PROVE OnTime(m)'
    <3>1. check_left \in Nat
      BY <1>1 DEF TypeOK
    <3>2. PICK n \in Nat : n = Grace'
      BY <1>3
    <3>3. check_left <= 1 =>
            n >= (IF check_left = 0 THEN Grace ELSE 0) + (1 - check_left)
      BY <2>1, <3>1, <3>2
    <3> QED
      BY <1>1, <1>2, <1>3, <2>1, <2>2, <3>2, <3>3, OnTimeElapse
  <2>3. check_left \in Nat /\ ~overtaken
    BY <1>1, <2>1 DEF TypeOK
  <2> QED
    BY <1>1, <2>1, <2>2, <2>3
<1>11. CASE UNCHANGED vars
  <2>1. UNCHANGED <<timed_out, age, check_left, overtaken, pc, i, last_cmd, active_mode>>
    BY <1>11 DEF vars, handlerVars, nodeVars
  <2>2. Grace' = Grace
    BY <2>1 DEF Grace, Overtaking, InCycle, Spent, NeedsSwitch, Before, CycleTime, WriteTime
  <2>3. \A m \in Motor : OnTime(m)' <=> OnTime(m)
    BY <2>1, <2>2 DEF OnTime
  <2> QED
    BY <1>1, <2>1, <2>3
<1> QED
  BY <1>5, <1>6, <1>7, <1>8, <1>9, <1>10, <1>11
     DEF Next, ExecutorStep, Terminated

LEMMA WatchdogInvInductive == Spec => []WatchdogInv
<1>1. Init => WatchdogInv
  <2> SUFFICES ASSUME Init PROVE WatchdogInv
    OBVIOUS
  <2>1. TypeOK
    BY TypeInit
  <2>2. ~overtaken /\ \A m \in Motor : timed_out[m]
    BY DEF Init, HandlerInit
  <2> QED
    BY <2>1, <2>2 DEF WatchdogInv
<1>2. WatchdogInv /\ [Next]_vars => WatchdogInv'
  BY WatchdogNext
<1> QED
  BY <1>1, <1>2, PTL DEF Spec

LEMMA WatchdogBounds == WatchdogInv => WatchdogBound
<1> SUFFICES ASSUME WatchdogInv, NEW m \in Motor, ~timed_out[m]
             PROVE  age[m] <= WatchdogDeadline
  BY DEF WatchdogBound
<1>1. TypeOK /\ OnTime(m)
  BY DEF WatchdogInv
<1>2. Grace \in Nat /\ Grace <= 2 * CycleTime
  BY <1>1, GraceBounds
<1> QED
  BY <1>1, <1>2, CycleTimeNat, HandlerAssumption, NodeAssumption
     DEF OnTime, WatchdogDeadline, TypeOK, HandlerTypeOK

(* However transmissions fail and sleeps add up, the watchdog fires within *)
(* WatchdogDeadline of the last command: check_timeouts runs in time.      *)
THEOREM WatchdogInTime == Spec => []WatchdogBound
BY WatchdogBounds, WatchdogInvInductive, PTL

-----------------------------------------------------------------------------
(* Diagnostics that say OK are about motors whose commands are trusted:    *)
(* the flags change only where they are reported, or when a command makes  *)
(* the report stale in the harmless direction.                             *)
THEOREM DiagnosticsHonest == Spec => []WatchdogReported
<1>1. Init => WatchdogReported
  BY DEF Init, HandlerInit, WatchdogReported
<1>2. TypeOK /\ WatchdogReported /\ [Next]_vars => WatchdogReported'
  <2> SUFFICES ASSUME TypeOK, WatchdogReported, [Next]_vars, diagnosis' = "OK",
                      NEW m \in Motor
               PROVE  ~timed_out'[m]
    BY DEF WatchdogReported
  <2>1. CASE UNCHANGED <<timed_out, diagnosis>>
    BY <2>1 DEF WatchdogReported
  <2>2. CASE \E k \in Motor, cmd \in Commands : TopicCallback(k, cmd)
    BY <2>2 DEF TopicCallback, set_command, WatchdogReported, TypeOK, HandlerTypeOK
  <2>3. CASE TimeoutTimer
    <3>1. timed_out' = [k \in Motor |-> Expired(k)]
      BY <2>3 DEF TimeoutTimer, check_timeouts
    <3>2. DiagnosisOf(timed_out') = "OK"
      BY <2>3 DEF TimeoutTimer, check_timeouts
    <3> QED
      BY <3>2 DEF DiagnosisOf
  <2>4. CASE Slot
    BY <2>1, <2>4 DEF Slot, SlotFor, ServeWithoutCommand, ServeSwitch, ServeValue
  <2> QED
    BY <2>1, <2>2, <2>3, <2>4
       DEF Next, ExecutorStep, InitPort, Construct, ControlTimer, StopMotor, ClosePort,
           Tick, Shutdown, Terminated, handlerVars, vars
<1> QED
  BY <1>1, <1>2, TypeCorrect, PTL DEF Spec

-----------------------------------------------------------------------------
(* What a motor makes of the frames, while none has been lost              *)
(*                                                                         *)
(* CommandReadAsMeant needs the cached loop to be the motor's, from the    *)
(* mode frames of the constructor on; ShutdownStops needs the loop of the  *)
(* destructor to have stopped the motors it has left behind.               *)

Cached == \A m \in Motor : active_mode[m] \in Modes => motor[m].mode = active_mode[m]

(* The handler's constructor: motors before i are in the velocity loop.    *)
Constructing ==
  \A m \in Motor : /\ active_mode[m] = MODE_VELOCITY
                   /\ m < i => motor[m].mode = MODE_VELOCITY

Counter == pc \notin {"construct", "serve", "stop"} => i = 1

Heard ==
  faults = 0 =>
    /\ pc \in {"construct", "idle", "serve", "stop"} => port
    /\ CommandReadAsMeant
    /\ pc \in {"start", "construct"} => Constructing
    /\ pc \in {"idle", "serve"} => Cached
    /\ pc = "stop" => \A m \in Motor : m < i => motor[m].target.type = "stop"
    /\ pc \in {"close", "stopped"} => \A m \in Motor : motor[m].target.type = "stop"

(* The frames of the bus, one motor at a time.                             *)
LEMMA Addressed ==
  ASSUME BusTypeOK, port, NEW m \in Motor, NEW f, NEW outcome,
         WritePacket(m, f, outcome), faults' = 0
  PROVE  /\ faults = 0 /\ port'
         /\ motor'[m] = Receive(motor[m], f)
         /\ \A k \in Motor : k # m => motor'[k] = motor[k]
<1>1. /\ faults = 0 /\ port' = port
      /\ motor' = [motor EXCEPT ![m] = Receive(motor[m], f)]
  BY WriteArrives
<1> QED
  BY <1>1 DEF BusTypeOK

LEMMA Understood ==
  ASSUME NEW s \in [mode : Modes, target : Target, read_as : Modes], NEW f
  PROVE  /\ f.type = "mode" /\ f.loop \in Modes
              => /\ Receive(s, f).mode = f.loop
                 /\ Receive(s, f).target = s.target /\ Receive(s, f).read_as = s.read_as
         /\ f.type = "mode" /\ f.loop \notin Modes => Receive(s, f) = s
         /\ f.type \in {"command", "stop"}
              => /\ Receive(s, f).mode = s.mode
                 /\ Receive(s, f).target = f /\ Receive(s, f).read_as = s.mode
         /\ f.type = "query" => Receive(s, f) = s
BY DEF Receive

LEMMA FrameKinds ==
  /\ \A mode : ModeFrame(mode).type = "mode" /\ ModeFrame(mode).loop = mode
  /\ StopFrame.type = "stop" /\ QueryFrame.type = "query"
  /\ \A mode, v, brake : /\ ValueFrame(mode, v, brake).type = "command"
                         /\ ValueFrame(mode, v, brake).loop = mode
BY DEF ModeFrame, StopFrame, QueryFrame, ValueFrame, FrameOf

LEMMA FaultsGrow ==
  ASSUME BusTypeOK, NEW m, NEW f, NEW outcome, WritePacket(m, f, outcome), faults' = 0
  PROVE  faults = 0
BY BusAssumption DEF WritePacket, BusTypeOK

(* A slot of the control cycle keeps the cache true and uses it.           *)
LEMMA SlotHeard ==
  ASSUME TypeOK, port, faults = 0, CommandReadAsMeant, Cached, faults' = 0, NEW outcome,
         \/ ServeWithoutCommand(i, outcome)
         \/ ServeSwitch(i, outcome)
         \/ ServeValue(i, outcome)
  PROVE  port' /\ CommandReadAsMeant' /\ Cached'
<1>0. /\ BusTypeOK /\ i \in Motor /\ active_mode \in [Motor -> 0 .. 255]
      /\ motor[i] \in [mode : Modes, target : Target, read_as : Modes]
  BY DEF TypeOK, BusTypeOK, HandlerTypeOK
<1>1. CASE ServeWithoutCommand(i, outcome)
  <2>1. SlotFrame(i) = QueryFrame \/ SlotFrame(i) = StopFrame
    BY <1>1 DEF ServeWithoutCommand, SlotFrame
  <2>2. /\ port' /\ motor'[i] = Receive(motor[i], SlotFrame(i))
        /\ \A k \in Motor : k # i => motor'[k] = motor[k]
    BY <1>0, <1>1, Addressed DEF ServeWithoutCommand
  <2>3. /\ motor'[i].mode = motor[i].mode
        /\ motor'[i] = motor[i] \/ motor'[i].target.type = "stop"
    BY <1>0, <2>1, <2>2, Understood, FrameKinds
  <2> QED
    BY <1>0, <1>1, <2>2, <2>3 DEF ServeWithoutCommand, CommandReadAsMeant, Cached
<1>2. CASE ServeSwitch(i, outcome)
  <2>1. /\ port' /\ motor'[i] = Receive(motor[i], ModeFrame(last_cmd[i].mode))
        /\ \A k \in Motor : k # i => motor'[k] = motor[k]
    BY <1>0, <1>2, Addressed DEF ServeSwitch
  <2>2. /\ motor'[i].target = motor[i].target /\ motor'[i].read_as = motor[i].read_as
        /\ last_cmd[i].mode \in Modes => motor'[i].mode = last_cmd[i].mode
    BY <1>0, <2>1, Understood, FrameKinds
  <2>3. /\ active_mode'[i] = last_cmd[i].mode
        /\ \A k \in Motor : k # i => active_mode'[k] = active_mode[k]
    BY <1>0, <1>2 DEF ServeSwitch
  <2> QED
    BY <1>0, <2>1, <2>2, <2>3 DEF CommandReadAsMeant, Cached
<1>3. CASE ServeValue(i, outcome)
  <2>1. CASE last_cmd[i].mode \in Modes
    <3>1. SlotFrame(i) = ValueFrame(last_cmd[i].mode, last_cmd[i].value, last_cmd[i].brake)
      BY <1>3 DEF ServeValue, SlotFrame
    <3>2. /\ port' /\ motor'[i] = Receive(motor[i], SlotFrame(i))
          /\ \A k \in Motor : k # i => motor'[k] = motor[k]
      BY <1>0, <1>3, <2>1, Addressed DEF ServeValue
    <3>3. /\ motor'[i].mode = motor[i].mode /\ motor'[i].read_as = motor[i].mode
          /\ motor'[i].target.loop = last_cmd[i].mode
      BY <1>0, <3>1, <3>2, Understood, FrameKinds
    <3>4. motor[i].mode = last_cmd[i].mode
      BY <1>0, <1>3, <2>1 DEF ServeValue, NeedsSwitch, Cached
    <3> QED
      BY <1>0, <1>3, <3>2, <3>3, <3>4 DEF ServeValue, CommandReadAsMeant, Cached
  <2>2. CASE last_cmd[i].mode \notin Modes
    BY <1>3, <2>2 DEF ServeValue, CommandReadAsMeant, Cached, busVars
  <2> QED
    BY <2>1, <2>2
<1> QED
  BY <1>1, <1>2, <1>3

(* One round of the handler's constructor *)
LEMMA ConstructHeard ==
  ASSUME TypeOK, Construct, port, CommandReadAsMeant, Constructing, faults' = 0
  PROVE  /\ port' /\ faults = 0 /\ CommandReadAsMeant'
         /\ pc' = "construct" => Constructing'
         /\ pc' = "idle" => Cached'
         /\ pc' \in {"construct", "idle"} /\ (pc' = "idle" => i' = 1)
         /\ \A m \in Motor : motor'[m].target = motor[m].target
<1>0. /\ BusTypeOK /\ i \in Motor /\ i \in Nat /\ NumMotors \in Nat
      /\ motor[i] \in [mode : Modes, target : Target, read_as : Modes]
  BY BusAssumption DEF TypeOK, BusTypeOK, Motor
<1>1. PICK outcome : WritePacket(i, ModeFrame(MODE_VELOCITY), outcome)
  BY DEF Construct
<1>2. /\ port' /\ faults = 0 /\ motor'[i] = Receive(motor[i], ModeFrame(MODE_VELOCITY))
      /\ \A k \in Motor : k # i => motor'[k] = motor[k]
  BY <1>0, <1>1, Addressed
<1>3. /\ motor'[i].target = motor[i].target /\ motor'[i].read_as = motor[i].read_as
      /\ motor'[i].mode = MODE_VELOCITY
  <2>1. MODE_VELOCITY \in Modes
    BY DEF Modes
  <2> QED
    BY <1>0, <1>2, <2>1, Understood, FrameKinds
<1>4. \A m \in Motor : active_mode'[m] = MODE_VELOCITY /\ active_mode[m] = MODE_VELOCITY
  BY DEF Construct, handlerVars, Constructing
<1>5. CASE i < NumMotors
  <2>1. pc' = "construct" /\ i' = i + 1
    BY <1>5 DEF Construct, NextMotor
  <2>2. \A m \in Motor : m < i' => m = i \/ m < i
    BY <1>0, <2>1 DEF Motor
  <2> QED
    BY <1>2, <1>3, <1>4, <2>1, <2>2 DEF Constructing, CommandReadAsMeant
<1>6. CASE ~ (i < NumMotors)
  <2>1. pc' = "idle" /\ i' = 1
    BY <1>6 DEF Construct, NextMotor
  <2>2. \A m \in Motor : m = i \/ m < i
    BY <1>0, <1>6 DEF Motor
  <2> QED
    BY <1>2, <1>3, <1>4, <2>1, <2>2 DEF Constructing, Cached, CommandReadAsMeant
<1> QED
  BY <1>5, <1>6

HeardInv == TypeOK /\ Counter /\ Heard

LEMMA HeardInit == Init => Counter /\ Heard
<1> SUFFICES ASSUME Init PROVE Counter /\ Heard
  OBVIOUS
<1>1. Counter
  BY DEF Init, Counter
<1>2. \A m \in Motor : motor[m].target.type = "none"
  BY DEF Init, BusInit, NoFrame, FrameOf
<1>3. \A m \in Motor : active_mode[m] = MODE_VELOCITY /\ ~ (m < i)
  BY BusAssumption DEF Init, HandlerInit, Motor
<1> QED
  BY <1>1, <1>2, <1>3 DEF Init, Heard, Constructing, CommandReadAsMeant

LEMMA CounterNext ==
  ASSUME TypeOK, Counter, [Next]_vars
  PROVE  Counter'
<1>1. ASSUME NEW again, NEW done, NextMotor(again, done)
      PROVE  pc' = again \/ i' = 1
  BY <1>1 DEF NextMotor
<1>2. CASE Construct \/ Slot \/ StopMotor
  BY <1>1, <1>2 DEF Construct, Slot, SlotFor, StopMotor, Counter
<1>3. CASE InitPort \/ ClosePort
  BY <1>3 DEF InitPort, ClosePort, Counter
<1>4. CASE ControlTimer \/ TimeoutTimer \/ Shutdown \/ Tick
  BY <1>4 DEF ControlTimer, TimeoutTimer, Shutdown, Tick, Counter
<1>5. CASE \E m \in Motor, cmd \in Commands : TopicCallback(m, cmd)
  BY <1>5 DEF TopicCallback, nodeVars, Counter
<1>6. CASE UNCHANGED vars
  BY <1>6 DEF vars, nodeVars, Counter
<1> QED
  BY <1>2, <1>3, <1>4, <1>5, <1>6 DEF Next, ExecutorStep, Terminated

LEMMA HeardNext ==
  ASSUME TypeOK, Counter, Heard, [Next]_vars
  PROVE  Heard'
<1> SUFFICES ASSUME faults' = 0 PROVE Heard'
  BY DEF Heard
<1>0. BusTypeOK /\ i \in Motor
  BY DEF TypeOK
<1>1. CASE InitPort
  BY <1>1 DEF InitPort, Heard, handlerVars, Constructing, CommandReadAsMeant
<1>2. CASE Construct
  <2>1. faults = 0
    BY <1>0, <1>2, FaultsGrow DEF Construct, busVars
  <2>2. port /\ CommandReadAsMeant /\ Constructing
    BY <1>2, <2>1 DEF Heard, Construct
  <2> QED
    BY <1>2, <2>2, ConstructHeard DEF Heard
<1>3. CASE Slot
  <2>1. PICK outcome \in Outcomes, sleep \in 0 .. SlotTime :
          \/ ServeWithoutCommand(i, outcome) /\ NextMotor("serve", "idle")
          \/ ServeSwitch(i, outcome) /\ UNCHANGED <<pc, i>>
          \/ ServeValue(i, outcome) /\ NextMotor("serve", "idle")
    BY <1>3 DEF Slot, SlotFor
  <2>2. faults = 0
    BY <1>0, <2>1, FaultsGrow DEF ServeWithoutCommand, ServeSwitch, ServeValue, busVars
  <2>3. port /\ CommandReadAsMeant /\ Cached
    BY <1>3, <2>2 DEF Heard, Slot, SlotFor
  <2>4. port' /\ CommandReadAsMeant' /\ Cached'
    BY <2>1, <2>2, <2>3, SlotHeard
  <2>5. pc' \in {"serve", "idle"}
    BY <1>3, <2>1 DEF Slot, SlotFor, NextMotor
  <2> QED
    BY <2>4, <2>5 DEF Heard
<1>4. CASE StopMotor
  <2>1. PICK outcome : WritePacket(i, StopFrame, outcome)
    BY <1>4 DEF StopMotor
  <2>2. faults = 0 /\ port /\ CommandReadAsMeant
    BY <1>0, <1>4, <2>1, FaultsGrow DEF StopMotor, Heard
  <2>3. /\ port' /\ motor'[i] = Receive(motor[i], StopFrame)
        /\ \A k \in Motor : k # i => motor'[k] = motor[k]
    BY <1>0, <2>1, <2>2, Addressed
  <2>4. motor'[i].target.type = "stop"
    BY <1>0, <2>3, Understood, FrameKinds DEF BusTypeOK
  <2>5. CommandReadAsMeant'
    BY <2>2, <2>3, <2>4 DEF CommandReadAsMeant
  <2>6. /\ pc' = IF i < NumMotors THEN "stop" ELSE "close"
        /\ i' = IF i < NumMotors THEN i + 1 ELSE 1
    BY <1>4 DEF StopMotor, NextMotor
  <2>7. \A m \in Motor : m < i => motor[m].target.type = "stop"
    BY <1>4, <2>2 DEF StopMotor, Heard
  <2>8. CASE i < NumMotors
    <3>1. \A m \in Motor : m < i' => m = i \/ m < i
      BY <1>0, <2>6, <2>8, BusAssumption DEF Motor
    <3> QED
      BY <2>3, <2>4, <2>5, <2>6, <2>7, <2>8, <3>1 DEF Heard
  <2>9. CASE ~ (i < NumMotors)
    <3>1. \A m \in Motor : m = i \/ m < i
      BY <1>0, <2>9, BusAssumption DEF Motor
    <3> QED
      BY <2>3, <2>4, <2>5, <2>6, <2>7, <2>9, <3>1 DEF Heard
  <2> QED
    BY <2>8, <2>9
<1>5. CASE Shutdown
  <2>1. \A m \in Motor : ~ (m < 1)
    BY BusAssumption DEF Motor
  <2> QED
    BY <1>5, <2>1 DEF Shutdown, Heard, Counter, CommandReadAsMeant, busVars
<1>6. CASE ControlTimer
  BY <1>6 DEF ControlTimer, Heard, Cached, CommandReadAsMeant, busVars
<1>7. CASE TimeoutTimer
  BY <1>7 DEF TimeoutTimer, check_timeouts, Heard, Cached, CommandReadAsMeant, busVars
<1>8. CASE \E m \in Motor, cmd \in Commands : TopicCallback(m, cmd)
  BY <1>8 DEF TopicCallback, set_command, Heard, Cached, CommandReadAsMeant, busVars,
     nodeVars
<1>9. CASE Tick
  BY <1>9 DEF Tick, Heard, Cached, CommandReadAsMeant, busVars
<1>10. CASE ClosePort
  BY <1>10 DEF ClosePort, Heard, CommandReadAsMeant
<1>11. CASE UNCHANGED vars
  BY <1>11 DEF vars, busVars, handlerVars, nodeVars, Heard, Cached, Constructing,
     CommandReadAsMeant
<1> QED
  BY <1>1, <1>2, <1>3, <1>4, <1>5, <1>6, <1>7, <1>8, <1>9, <1>10, <1>11
     DEF Next, ExecutorStep, Terminated

LEMMA HeardAlways == Spec => []HeardInv
<1>1. Init => HeardInv
  BY TypeInit, HeardInit DEF HeardInv
<1>2. ASSUME HeardInv, [Next]_vars
      PROVE  HeardInv'
  <2>1. TypeOK' /\ Counter' /\ Heard'
    BY <1>2, TypeStep, CounterNext, HeardNext DEF HeardInv
  <2> QED
    BY <2>1 DEF HeardInv
<1> QED
  BY <1>1, <1>2, PTL DEF Spec

(* The destructor leaves every motor with the stop, for any number of      *)
(* motors and wherever the control cycle was, unless a frame got lost.     *)
THEOREM DestructorStopsAll == Spec => []ShutdownStops
<1>1. HeardInv => ShutdownStops
  BY DEF HeardInv, Heard, ShutdownStops
<1> QED
  BY <1>1, HeardAlways, PTL

(* On a bus that loses nothing, execute_control_cycle never lets a motor   *)
(* read a value in another unit than the command's.                        *)
THEOREM CommandsReadAsMeant ==
  ASSUME Faults = {}
  PROVE  Spec => []CommandReadAsMeant
<1>1. Init => faults = 0
  BY DEF Init, BusInit
<1>2. faults = 0 /\ [Next]_vars => (faults = 0)'
  <2>1. ASSUME NEW m, NEW f, NEW outcome, WritePacket(m, f, outcome), faults = 0
        PROVE  faults' = 0
    BY <2>1 DEF WritePacket
  <2> SUFFICES ASSUME faults = 0, [Next]_vars PROVE faults' = 0
    OBVIOUS
  <2>2. CASE Construct \/ StopMotor
    BY <2>1, <2>2 DEF Construct, StopMotor, busVars
  <2>3. CASE Slot
    BY <2>1, <2>3 DEF Slot, SlotFor, ServeWithoutCommand, ServeSwitch, ServeValue, busVars
  <2>4. CASE InitPort \/ ControlTimer \/ TimeoutTimer \/ ClosePort \/ Tick \/ Shutdown
             \/ UNCHANGED vars
    BY <2>4 DEF InitPort, ControlTimer, TimeoutTimer, ClosePort, Tick, Shutdown, vars, busVars
  <2>5. CASE \E m \in Motor, cmd \in Commands : TopicCallback(m, cmd)
    BY <2>5 DEF TopicCallback, busVars
  <2> QED
    BY <2>2, <2>3, <2>4, <2>5 DEF Next, ExecutorStep, Terminated
<1>3. faults = 0 /\ HeardInv => CommandReadAsMeant
  BY DEF HeardInv, Heard
<1> QED
  BY <1>1, <1>2, <1>3, HeardAlways, PTL DEF Spec
=============================================================================
