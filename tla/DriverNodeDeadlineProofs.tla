----------------------- MODULE DriverNodeDeadlineProofs -----------------------
(***************************************************************************)
(* The deadlines of the standalone node, and that it implements the dead   *)
(* man's switch, for every number of motors, every set of commands and     *)
(* every choice of periods.  Only the temperature must not be queried in   *)
(* every cycle: then no command would ever be sent.                        *)
(***************************************************************************)
EXTENDS DriverNodeRefinement, DriverNodeProofs

-----------------------------------------------------------------------------
(* How long a motor waits for its value frame                              *)
(*                                                                         *)
(* Wait(m) bounds the time until motor m is next served in a cycle that    *)
(* carries commands.  Whatever the node does next, either the time that    *)
(* passes is taken from Wait(m), or motor m is served.  The deadlines      *)
(* follow: no wait is longer than ApplyDeadline.                           *)

NextQuery  == (cycle + 1) % QueryPeriod = 0
QueryDelay == IF NextQuery THEN ControlPeriod + CycleTime ELSE 0

(* From the start of a cycle until the value frame of m has been sent *)
Due(m) == Before(m) + WriteTime

Wait(m) ==
  IF pc = "idle" THEN ctrl_left + QueryDelay + Due(m)
  ELSE IF pc # "serve" THEN 0
  ELSE IF ~ QueryCycle /\ i <= m THEN Due(m) - Spent
  ELSE ctrl_left + (CycleTime - Spent) + QueryDelay + Due(m)

LEMMA SlotsInOrder ==
  ASSUME NEW k \in Motor, NEW l \in Motor, k < l
  PROVE  Before(k) + 2 * WriteTime <= Before(l)
<1> DEFINE w == 2 * WriteTime
<1>1. w \in Nat /\ k \in Nat /\ l \in Nat /\ k + 1 <= l
  BY WriteTimeNat, BusAssumption DEF Motor
<1> HIDE DEF w
<1>2. (l - k - 1) * w >= 0
  BY <1>1
<1>3. (l - k - 1) * w = (l - 1) * w - (k - 1) * w - w
  BY <1>1
<1>4. (l - 1) * w \in Int /\ (k - 1) * w \in Int
  BY <1>1
<1>5. (k - 1) * w + w <= (l - 1) * w
  BY <1>1, <1>2, <1>3, <1>4
<1> QED
  BY <1>5 DEF w, Before

(* The terms of a wait, as numbers *)
LEMMA WaitTerms ==
  ASSUME TypeOK, NEW m \in Motor
  PROVE  /\ ctrl_left \in Nat /\ ctrl_left <= ControlPeriod /\ ControlPeriod \in Nat
         /\ WriteTime \in Nat /\ CycleTime \in Nat
         /\ Due(m) \in Nat /\ Due(m) + WriteTime <= CycleTime
         /\ Spent \in Nat /\ Spent + WriteTime <= CycleTime
         /\ QueryDelay \in Nat /\ QueryDelay <= ControlPeriod + CycleTime
         /\ i < m => Spent + WriteTime <= Due(m)
         /\ i = m => Spent <= Due(m)
         /\ i > m => Due(m) + WriteTime <= Spent
<1>1. i \in Motor /\ i \in Nat /\ m \in Nat
  BY DEF TypeOK, Motor
<1>2. ctrl_left \in Nat /\ ctrl_left <= ControlPeriod /\ ControlPeriod \in Nat
  BY NodeAssumption DEF TypeOK
<1>3. WriteTime \in Nat /\ CycleTime \in Nat
  BY WriteTimeNat, CycleTimeNat
<1>4. /\ Before(m) \in Nat /\ Before(m) + 2 * WriteTime <= CycleTime
      /\ Before(i) \in Nat
  BY <1>1, SlotsAddUp
<1>5. Due(m) \in Nat /\ Due(m) + WriteTime <= CycleTime
  BY <1>3, <1>4 DEF Due
<1>6. Spent \in Nat /\ Spent + WriteTime <= CycleTime
  BY GraceBounds
<1>7. Spent <= Before(i) + WriteTime /\ Before(i) <= Spent
  BY <1>3, <1>4 DEF Spent
<1>8. QueryDelay \in Nat /\ QueryDelay <= ControlPeriod + CycleTime
  BY <1>2, <1>3 DEF QueryDelay
<1>9. i < m => Spent + WriteTime <= Due(m)
  <2>1. i < m => Before(i) + 2 * WriteTime <= Before(m)
    BY <1>1, SlotsInOrder
  <2> QED
    BY <2>1, <1>3, <1>4, <1>6, <1>7 DEF Due
<1>10. i = m => Spent <= Due(m)
  BY <1>7 DEF Due
<1>11. i > m => Due(m) + WriteTime <= Spent
  <2>1. i > m => Before(m) + 2 * WriteTime <= Before(i)
    BY <1>1, SlotsInOrder
  <2> QED
    BY <2>1, <1>3, <1>4, <1>6, <1>7 DEF Due
<1> QED
  BY <1>2, <1>3, <1>5, <1>6, <1>8, <1>9, <1>10, <1>11

(* A cycle that queries is followed by one that does not. *)
LEMMA NoTwoQueries ==
  ASSUME QueryPeriod > 1
  PROVE  QueryCycle => ~ NextQuery
<1>1. 1 % QueryPeriod = 1
  BY HandlerAssumption
<1> QED
  BY <1>1 DEF QueryCycle, NextQuery

LEMMA WaitBounds ==
  ASSUME TypeOK, QueryPeriod > 1, NEW m \in Motor
  PROVE  Wait(m) \in Nat /\ Wait(m) <= ApplyDeadline
<1>1. i \in Nat /\ m \in Nat
  BY DEF TypeOK, Motor
<1>2. QueryCycle => QueryDelay = 0
  BY NoTwoQueries DEF QueryDelay
<1>3. CASE pc = "idle"
  BY <1>3, WaitTerms DEF Wait, ApplyDeadline
<1>4. CASE pc = "serve" /\ ~ QueryCycle /\ i <= m
  BY <1>1, <1>4, WaitTerms DEF Wait, ApplyDeadline
<1>5. CASE pc = "serve" /\ QueryCycle
  BY <1>1, <1>2, <1>5, WaitTerms DEF Wait, ApplyDeadline
<1>6. CASE pc = "serve" /\ ~ QueryCycle /\ ~ (i <= m)
  BY <1>1, <1>6, WaitTerms DEF Wait, ApplyDeadline
<1>7. CASE pc # "idle" /\ pc # "serve"
  BY <1>7, WaitTerms DEF Wait, ApplyDeadline
<1> QED
  BY <1>3, <1>4, <1>5, <1>6, <1>7

(* Motor m is sent its value, or the stop in its place. *)
Served(m, outcome) ==
  /\ i = m /\ ~ QueryCycle
  /\ ServeWithoutCommand(m, outcome) \/ ServeValue(m, outcome)

(* The alternatives of a slot *)
SlotStep(outcome) ==
  \/ ServeWithoutCommand(i, outcome) /\ NextMotor("serve", "idle")
  \/ ServeSwitch(i, outcome) /\ UNCHANGED <<pc, i>>
  \/ ServeValue(i, outcome) /\ NextMotor("serve", "idle")

(* A slot spends the time that it may take. *)
LEMMA SlotSpends ==
  ASSUME TypeOK, TypeOK', pc = "serve", NEW outcome, SlotStep(outcome)
  PROVE  \/ pc' = "idle"
         \/ /\ pc' = "serve" /\ Spent' >= Spent + WriteTime
            /\ \/ i' = i + 1
               \/ i' = i /\ ServeSwitch(i, outcome)
<1>1. i \in Motor /\ i' \in Motor
  BY DEF TypeOK
<1>2. CASE ServeSwitch(i, outcome) /\ UNCHANGED <<pc, i>>
  <2>1. NeedsSwitch(i) /\ ~ NeedsSwitch(i)'
    BY <1>1, <1>2 DEF ServeSwitch, NeedsSwitch, TypeOK, HandlerTypeOK
  <2>2. Spent = Before(i) /\ Spent' = Before(i) + WriteTime
    <3>1. Spent = Before(i)
      BY <1>1, <2>1, SlotsAddUp DEF Spent
    <3>2. Before(i)' = Before(i) /\ i' = i
      BY <1>2 DEF Before, WriteTime
    <3> QED
      BY <2>1, <3>1, <3>2 DEF Spent, WriteTime
  <2> QED
    BY <1>1, <1>2, <2>2, SlotsAddUp, WriteTimeNat
<1>3. CASE NextMotor("serve", "idle") /\ i < NumMotors
  <2>1. i' = i + 1 /\ pc' = "serve"
    BY <1>3 DEF NextMotor
  <2>2. Spent' >= Before(i')
    BY <1>1, <2>1, SlotsAddUp, WriteTimeNat DEF Spent, Before, WriteTime
  <2>3. Spent <= Before(i) + WriteTime
    BY <1>1, SlotsAddUp, WriteTimeNat DEF Spent
  <2>4. Before(i') = Before(i) + 2 * WriteTime
    BY <1>1, <2>1, SlotsAddUp
  <2>5. Before(i) \in Nat /\ Spent \in Nat /\ Spent' \in Nat
    BY <1>1, SlotsAddUp, WriteTimeNat DEF Spent, Before, WriteTime
  <2> QED
    BY <2>1, <2>2, <2>3, <2>4, <2>5, WriteTimeNat
<1>4. CASE NextMotor("serve", "idle") /\ ~ (i < NumMotors)
  BY <1>4 DEF NextMotor
<1> QED
  BY <1>2, <1>3, <1>4 DEF SlotStep

(* A slot takes its time from the wait of every motor it does not serve.   *)
LEMMA WaitSlot ==
  ASSUME TypeOK, TypeOK', QueryPeriod > 1, pc = "serve", NEW outcome,
         SlotStep(outcome), UNCHANGED <<cycle>>, NEW d \in Nat, d <= WriteTime,
         ctrl_left' <= ctrl_left, NEW m \in Motor, ~ Served(m, outcome)
  PROVE  Wait(m)' + d <= Wait(m)
<1> DEFINE spent == Spent  now == Spent'  c == ctrl_left  cc == ctrl_left'
           q == QueryDelay  due == Due(m)
<1>1. /\ c \in Nat /\ WriteTime \in Nat /\ CycleTime \in Nat
      /\ due \in Nat /\ due + WriteTime <= CycleTime
      /\ spent \in Nat /\ spent + WriteTime <= CycleTime /\ q \in Nat
      /\ i < m => spent + WriteTime <= due
      /\ i = m => spent <= due
  BY WaitTerms
<1>2. cc \in Nat /\ cc <= c
  BY DEF TypeOK
<1>3. now \in Nat
  <2>1. TypeOK'
    OBVIOUS
  <2>2. (Spent \in Nat)'
    BY <2>1, GraceBounds, PTL
  <2> QED
    BY <2>2
<1>4. /\ Due(m)' = due /\ QueryDelay' = q /\ QueryCycle' = QueryCycle
      /\ CycleTime' = CycleTime
  BY DEF Due, QueryDelay, NextQuery, QueryCycle, Before, WriteTime, CycleTime
<1>5. Wait(m) = IF ~ QueryCycle /\ i <= m THEN due - spent
                ELSE c + (CycleTime - spent) + q + due
  BY DEF Wait
<1>6. i \in Nat /\ m \in Nat /\ i' \in Nat
  BY DEF TypeOK, Motor
<1>7. CASE pc' = "idle"
  <2>1. Wait(m)' = cc + q + due
    BY <1>4, <1>7 DEF Wait
  <2>2. QueryCycle \/ ~ (i <= m)
    <3>1. SUFFICES ASSUME ~ QueryCycle, i <= m PROVE FALSE
      OBVIOUS
    <3>2. i = NumMotors /\ m <= NumMotors /\ ~ ServeSwitch(i, outcome)
      BY <1>7, BusAssumption DEF SlotStep, NextMotor, Motor, TypeOK, ServeSwitch,
         ServeWithoutCommand, ServeValue
    <3>3. i = m
      BY <1>6, <3>1, <3>2
    <3> QED
      BY <3>1, <3>2, <3>3 DEF SlotStep, Served
  <2> QED
    BY <1>1, <1>2, <1>5, <2>1, <2>2
<1>8. CASE pc' = "serve"
  <2>1. /\ now >= spent + WriteTime
        /\ i' = i + 1 \/ (i' = i /\ ServeSwitch(i, outcome))
    BY <1>8, SlotSpends
  <2>2. Wait(m)' = IF ~ QueryCycle /\ i' <= m THEN due - now
                   ELSE cc + (CycleTime - now) + q + due
    BY <1>4, <1>8 DEF Wait
  <2>3. CASE ~ QueryCycle /\ i <= m
    <3>1. i' <= m
      <4>1. SUFFICES ASSUME ~ (i' <= m) PROVE FALSE
        OBVIOUS
      <4>2. i = m /\ i' = i + 1
        BY <1>6, <2>1, <2>3, <4>1
      <4>3. ~ UNCHANGED i
        BY <1>6, <4>2
      <4> QED
        BY <2>3, <4>2, <4>3 DEF SlotStep, Served
    <3> QED
      BY <1>1, <1>3, <1>5, <2>1, <2>2, <2>3, <3>1
  <2>4. CASE QueryCycle \/ ~ (i <= m)
    <3>1. QueryCycle \/ ~ (i' <= m)
      BY <1>6, <2>1, <2>4
    <3> QED
      BY <1>1, <1>2, <1>3, <1>5, <2>1, <2>2, <2>4, <3>1
  <2> QED
    BY <2>3, <2>4
<1> QED
  BY <1>7, <1>8, SlotSpends

(* So does a tick.                                                         *)
LEMMA WaitTick ==
  ASSUME TypeOK, Tick, NEW m \in Motor
  PROVE  Wait(m)' + 1 <= Wait(m)
<1>1. ctrl_left \in Nat /\ Due(m) \in Nat /\ QueryDelay \in Nat
  BY WaitTerms
<1>2. Due(m)' = Due(m) /\ QueryDelay' = QueryDelay
  BY DEF Tick, Due, Before, QueryDelay, NextQuery, CycleTime, WriteTime
<1>3. ctrl_left' = ctrl_left - 1 /\ pc = "idle" /\ pc' = "idle" /\ ctrl_left > 0
  BY <1>1 DEF Tick, Elapse, Monus
<1>4. /\ Wait(m) = ctrl_left + QueryDelay + Due(m)
      /\ Wait(m)' = ctrl_left' + QueryDelay + Due(m)
  BY <1>2, <1>3 DEF Wait
<1> QED
  BY <1>1, <1>3, <1>4

(* Nor does the start of a cycle prolong it.                               *)
LEMMA WaitStarts ==
  ASSUME TypeOK, TypeOK', Counter, QueryPeriod > 1, ControlTimer, NEW m \in Motor
  PROVE  Wait(m)' + 0 <= Wait(m)
<1>0. /\ ctrl_left \in Nat /\ Due(m) \in Nat /\ QueryDelay \in Nat
      /\ Due(m)' = Due(m) /\ CycleTime' = CycleTime /\ CycleTime \in Nat
      /\ WriteTime \in Nat /\ Due(m) + WriteTime <= CycleTime
  BY WaitTerms DEF Due, Before, WriteTime, CycleTime
<1>1. /\ pc = "idle" /\ ctrl_left = 0 /\ pc' = "serve" /\ i' = 1
      /\ ctrl_left' \in 1 .. ControlPeriod /\ cycle' = (cycle + 1) % QueryPeriod
  BY DEF ControlTimer, CountCycle, Counter
<1>2. Wait(m) = QueryDelay + Due(m)
  BY <1>0, <1>1 DEF Wait
<1>3. QueryCycle' <=> NextQuery
  BY <1>1 DEF QueryCycle, NextQuery
<1>4. PICK now \in Nat : now = Spent'
  <2>1. TypeOK'
    OBVIOUS
  <2>2. (Spent \in Nat)'
    BY <2>1, GraceBounds, PTL
  <2> QED
    BY <2>2
<1>5. CASE NextQuery
  <2>1. QueryDelay' = 0
    <3>1. QueryCycle' => ~ NextQuery'
      BY NoTwoQueries, PTL
    <3> QED
      BY <1>3, <1>5, <3>1 DEF QueryDelay
  <2>2. QueryDelay = ControlPeriod + CycleTime
    BY <1>5 DEF QueryDelay
  <2>3. Wait(m)' = ctrl_left' + (CycleTime - now) + 0 + Due(m)
    BY <1>0, <1>1, <1>3, <1>4, <1>5, <2>1 DEF Wait
  <2> QED
    BY <1>0, <1>1, <1>2, <2>2, <2>3, NodeAssumption
<1>6. CASE ~ NextQuery
  <2>1. i' <= m
    BY <1>1 DEF Motor
  <2>2. Wait(m)' = Due(m) - now
    BY <1>0, <1>1, <1>3, <1>4, <1>6, <2>1 DEF Wait
  <2> QED
    BY <1>0, <1>2, <2>2
<1> QED
  BY <1>5, <1>6

(* Nor do the callbacks that take no time.                                 *)
LEMMA WaitKept ==
  ASSUME TypeOK, NEW m \in Motor,
         \/ TimeoutTimer
         \/ \E k \in Motor, cmd \in Commands : TopicCallback(k, cmd)
         \/ UNCHANGED vars
  PROVE  Wait(m)' = Wait(m)
<1>0. ctrl_left \in Nat /\ Due(m)' = Due(m) /\ CycleTime' = CycleTime
  BY WaitTerms DEF Due, Before, WriteTime, CycleTime
<1>1. CASE TimeoutTimer
  BY <1>0, <1>1 DEF TimeoutTimer, check_timeouts, Wait, QueryDelay, NextQuery
<1>2. CASE \E k \in Motor, cmd \in Commands : TopicCallback(k, cmd)
  BY <1>0, <1>2 DEF TopicCallback, set_command, nodeVars, Wait, QueryDelay, NextQuery
<1>3. CASE UNCHANGED vars
  <2>1. UNCHANGED <<pc, i, ctrl_left, cycle, last_cmd, active_mode>>
    BY <1>3 DEF vars, handlerVars, nodeVars
  <2>2. QueryDelay' = QueryDelay /\ QueryCycle' = QueryCycle /\ Spent' = Spent
    BY <2>1 DEF QueryDelay, NextQuery, QueryCycle, Spent, NeedsSwitch, Before, WriteTime,
       CycleTime
  <2> QED
    BY <1>0, <2>1, <2>2 DEF Wait
<1> QED
  BY <1>1, <1>2, <1>3

-----------------------------------------------------------------------------
(* Every step takes its time from the waits                                *)

(* Before the timers start nothing has been heard.                         *)
Young ==
  pc \in {"start", "construct"} => \A m \in Motor : age[m] = 0 /\ timed_out[m]

(* What a step does to the age and the wait of a motor                     *)
Paid(m) == \E d \in Nat : age'[m] <= age[m] + d /\ Wait(m)' + d <= Wait(m)

ServedIn(m) == pc = "serve" /\ \E outcome \in Outcomes : Served(m, outcome)

LEMMA YoungNext ==
  ASSUME TypeOK, Young, [Next]_vars
  PROVE  Young'
<1>1. CASE InitPort \/ Construct
  BY <1>1 DEF InitPort, Construct, Young, handlerVars
<1>2. CASE Slot
  <2>1. PICK outcome \in Outcomes : SlotStep(outcome)
    BY <1>2 DEF Slot, SlotFor, SlotStep
  <2>2. pc' \in {"serve", "idle"}
    BY <1>2, <2>1 DEF Slot, SlotFor, SlotStep, NextMotor
  <2> QED
    BY <2>2 DEF Young
<1>3. CASE ControlTimer \/ TimeoutTimer \/ StopMotor \/ ClosePort \/ Tick \/ Shutdown
           \/ \E m \in Motor, cmd \in Commands : TopicCallback(m, cmd)
  BY <1>3 DEF ControlTimer, TimeoutTimer, StopMotor, ClosePort, Tick, Shutdown,
     TopicCallback, NextMotor, nodeVars, Young
<1>4. CASE UNCHANGED vars
  BY <1>4 DEF vars, handlerVars, nodeVars, Young
<1> QED
  BY <1>1, <1>2, <1>3, <1>4 DEF Next, ExecutorStep, Terminated

(* Time that passes makes a motor older by as much at most.                *)
LEMMA Ageing ==
  ASSUME TypeOK, NEW d \in Nat, AgeBy(d), NEW m \in Motor
  PROVE  age'[m] <= age[m] + d
BY HandlerAssumption DEF AgeBy, TypeOK, HandlerTypeOK

LEMMA PaidNothing ==
  ASSUME TypeOK, NEW m \in Motor, age'[m] = age[m], Wait(m)' = Wait(m) \/ Wait(m)' = 0,
         QueryPeriod > 1
  PROVE  Paid(m)
<1>1. age[m] \in Nat /\ Wait(m) \in Nat
  BY WaitBounds DEF TypeOK, HandlerTypeOK
<1>2. age'[m] <= age[m] + 0 /\ Wait(m)' + 0 <= Wait(m)
  BY <1>1
<1> QED
  BY <1>2 DEF Paid

LEMMA PaidStutter ==
  ASSUME TypeOK, QueryPeriod > 1, UNCHANGED vars, NEW m \in Motor
  PROVE  Paid(m)
BY WaitKept, PaidNothing DEF vars, handlerVars

LEMMA PaidNext ==
  ASSUME TypeOK, TypeOK', Counter, Young, QueryPeriod > 1, [Next]_vars, NEW m \in Motor
  PROVE  Paid(m) \/ age'[m] = 0 \/ ServedIn(m)
<1>0. age[m] \in Nat /\ ctrl_left \in Nat
  BY DEF TypeOK, HandlerTypeOK
<1>1. CASE InitPort \/ StopMotor \/ ClosePort
  <2>1. age'[m] = age[m] /\ Wait(m)' = 0
    BY <1>1 DEF InitPort, StopMotor, ClosePort, NextMotor, handlerVars, Wait
  <2> QED
    BY <2>1, PaidNothing
<1>2. CASE Construct
  BY <1>2 DEF Construct, Young, handlerVars
<1>3. CASE \E k \in Motor, cmd \in Commands : TopicCallback(k, cmd)
  <2>1. PICK k \in Motor, cmd \in Commands : TopicCallback(k, cmd)
    BY <1>3
  <2>2. age'[m] = 0 \/ age'[m] = age[m]
    BY <2>1 DEF TopicCallback, set_command, TypeOK, HandlerTypeOK
  <2>3. Wait(m)' = Wait(m)
    BY <1>3, WaitKept
  <2> QED
    BY <2>2, <2>3, PaidNothing
<1>4. CASE ControlTimer
  <2>1. age'[m] <= age[m] + 0 /\ Wait(m)' + 0 <= Wait(m)
    BY <1>0, <1>4, WaitStarts DEF ControlTimer
  <2> QED
    BY <2>1 DEF Paid
<1>5. CASE Slot
  <2>1. PICK outcome \in Outcomes, sleep \in 0 .. SlotTime :
          SlotStep(outcome) /\ Elapse(Delay(outcome) + sleep)
    BY <1>5 DEF Slot, SlotFor, SlotStep
  <2>2. PICK d \in 0 .. WriteTime : d = Delay(outcome) + sleep /\ Elapse(d)
    BY <2>1, SlotDelay
  <2>3. d \in Nat /\ d <= WriteTime /\ pc = "serve"
    BY <1>0, <1>5, <2>2 DEF Slot, SlotFor
  <2>4. ctrl_left' <= ctrl_left /\ age'[m] <= age[m] + d
    BY <1>0, <2>2, <2>3, Ageing DEF Elapse, Monus
  <2>5. UNCHANGED cycle
    BY <2>1 DEF SlotStep, ServeWithoutCommand, ServeSwitch, ServeValue
  <2>6. CASE Served(m, outcome)
    BY <2>3, <2>6 DEF ServedIn
  <2>7. CASE ~ Served(m, outcome)
    <3>1. Wait(m)' + d <= Wait(m)
      BY <2>1, <2>3, <2>4, <2>5, <2>7, WaitSlot
    <3> QED
      BY <2>3, <2>4, <3>1 DEF Paid
  <2> QED
    BY <2>6, <2>7
<1>6. CASE TimeoutTimer
  <2>1. age' = age /\ Wait(m)' = Wait(m)
    BY <1>6, WaitKept DEF TimeoutTimer, check_timeouts
  <2> QED
    BY <2>1, PaidNothing
<1>7. CASE Tick
  <2>1. age'[m] <= age[m] + 1
    BY <1>7, Ageing DEF Tick, Elapse
  <2> QED
    BY <1>7, <2>1, WaitTick DEF Paid
<1>8. CASE Shutdown
  <2>1. age'[m] = age[m] /\ Wait(m)' = 0
    BY <1>8 DEF Shutdown, handlerVars, Wait
  <2> QED
    BY <2>1, PaidNothing
<1>9. CASE UNCHANGED vars
  BY <1>9, PaidStutter
<1> QED
  BY <1>1, <1>2, <1>3, <1>4, <1>5, <1>6, <1>7, <1>8, <1>9 DEF Next, ExecutorStep, Terminated

-----------------------------------------------------------------------------
(* The deadlines                                                           *)

Driven(m) == motor[m].target # StopFrame

(* Once the watchdog's own deadline has passed, a motor that does not hold *)
(* the stop has time left to wait for it. *)
HeldSoon(m) == \/ age[m] <= WatchdogDeadline
               \/ age[m] + Wait(m) <= WatchdogDeadline + ApplyDeadline

Applied(m) ==
  /\ motor[m].target = ValueFrame(last_cmd[m].mode, last_cmd[m].value, last_cmd[m].brake)
  /\ motor[m].read_as = last_cmd[m].mode

AppliedSoon(m) == Applied(m) \/ age[m] + Wait(m) <= ApplyDeadline

Trusted(m) == ~ timed_out[m] /\ last_cmd[m].mode \in Modes

Punctual ==
  faults = 0 =>
    \A m \in Motor :
      /\ Driven(m) => HeldSoon(m)
      /\ pc \in {"idle", "serve"} /\ Trusted(m) => AppliedSoon(m)

DeadlineInv == WatchdogInv /\ HeardInv /\ Young /\ Punctual

LEMMA DeadlinesNat ==
  /\ WatchdogDeadline \in Nat /\ ApplyDeadline \in Nat
  /\ StopDeadline = WatchdogDeadline + ApplyDeadline
BY CycleTimeNat, HandlerAssumption, NodeAssumption
   DEF WatchdogDeadline, ApplyDeadline, StopDeadline

LEMMA PaidHeld ==
  ASSUME TypeOK, TypeOK', QueryPeriod > 1, NEW m \in Motor, Paid(m), HeldSoon(m)
  PROVE  HeldSoon(m)'
<1>1. PICK d \in Nat : age'[m] <= age[m] + d /\ Wait(m)' + d <= Wait(m)
  BY DEF Paid
<1>2. age[m] \in Nat /\ age'[m] \in Nat
  BY DEF TypeOK, HandlerTypeOK
<1>3. Wait(m) \in Nat /\ Wait(m) <= ApplyDeadline
  BY WaitBounds
<1>4. PICK w \in Nat : w = Wait(m)'
  <2>1. TypeOK'
    OBVIOUS
  <2>2. (Wait(m) \in Nat)'
    BY <2>1, WaitBounds, PTL
  <2> QED
    BY <2>2
<1>5. WatchdogDeadline' = WatchdogDeadline /\ ApplyDeadline' = ApplyDeadline
  BY DEF WatchdogDeadline, ApplyDeadline, CycleTime, WriteTime
<1>6. \/ age'[m] <= WatchdogDeadline
      \/ age'[m] + w <= WatchdogDeadline + ApplyDeadline
  BY <1>1, <1>2, <1>3, <1>4, DeadlinesNat DEF HeldSoon
<1> QED
  BY <1>4, <1>5, <1>6 DEF HeldSoon

LEMMA PaidApplied ==
  ASSUME TypeOK, TypeOK', QueryPeriod > 1, NEW m \in Motor, Paid(m),
         age[m] + Wait(m) <= ApplyDeadline
  PROVE  AppliedSoon(m)'
<1>1. PICK d \in Nat : age'[m] <= age[m] + d /\ Wait(m)' + d <= Wait(m)
  BY DEF Paid
<1>2. age[m] \in Nat /\ age'[m] \in Nat
  BY DEF TypeOK, HandlerTypeOK
<1>3. Wait(m) \in Nat
  BY WaitBounds
<1>4. PICK w \in Nat : w = Wait(m)'
  <2>1. TypeOK'
    OBVIOUS
  <2>2. (Wait(m) \in Nat)'
    BY <2>1, WaitBounds, PTL
  <2> QED
    BY <2>2
<1>5. ApplyDeadline' = ApplyDeadline
  BY DEF ApplyDeadline, CycleTime, WriteTime
<1>6. age'[m] + w <= ApplyDeadline
  BY <1>1, <1>2, <1>3, <1>4, DeadlinesNat
<1> QED
  BY <1>4, <1>5, <1>6 DEF AppliedSoon

(* A command just heard *)
LEMMA FreshApplied ==
  ASSUME TypeOK', QueryPeriod > 1, NEW m \in Motor, age'[m] = 0
  PROVE  AppliedSoon(m)'
<1>1. PICK w \in Nat : w = Wait(m)' /\ w <= ApplyDeadline'
  <2>1. TypeOK'
    OBVIOUS
  <2>2. (Wait(m) \in Nat /\ Wait(m) <= ApplyDeadline)'
    BY <2>1, WaitBounds, PTL
  <2> QED
    BY <2>2
<1>2. age'[m] + w <= ApplyDeadline'
  BY <1>1
<1> QED
  BY <1>1, <1>2 DEF AppliedSoon

-----------------------------------------------------------------------------
(* What a step does to what a motor holds, while nothing is lost           *)

(* A transmission to one motor, in terms of another                        *)
LEMMA Written ==
  ASSUME BusTypeOK, NEW k \in Motor, NEW f, NEW outcome, WritePacket(k, f, outcome),
         NEW m \in Motor,
         f.type \in {"mode", "query", "command", "stop"}
  PROVE  \/ motor'[m].target = motor[m].target /\ motor'[m].read_as = motor[m].read_as
         \/ m = k /\ f.type \in {"command", "stop"} /\ motor'[m].target = f
<1>1. motor[k] \in [mode : Modes, target : Target, read_as : Modes]
  BY DEF BusTypeOK
<1>2. motor' = motor \/ motor' = [motor EXCEPT ![k] = Receive(motor[k], f)]
  BY DEF WritePacket
<1>3. CASE f.type = "mode"
  <2>1. /\ Receive(motor[k], f).target = motor[k].target
        /\ Receive(motor[k], f).read_as = motor[k].read_as
    BY <1>1, <1>3, Understood
  <2> QED
    BY <1>2, <2>1 DEF BusTypeOK
<1>4. CASE f.type = "query"
  <2>1. Receive(motor[k], f) = motor[k]
    BY <1>1, <1>4, Understood
  <2> QED
    BY <1>2, <2>1 DEF BusTypeOK
<1>5. CASE f.type \in {"command", "stop"}
  <2>1. Receive(motor[k], f).target = f
    BY <1>1, <1>5, Understood
  <2> QED
    BY <1>2, <1>5, <2>1 DEF BusTypeOK
<1> QED
  BY <1>3, <1>4, <1>5

Untouched(m) ==
  motor'[m].target = motor[m].target /\ motor'[m].read_as = motor[m].read_as

(* A slot leaves a motor as it is, unless the motor is served.             *)
LEMMA SlotTouches ==
  ASSUME TypeOK, NEW outcome, SlotStep(outcome), NEW m \in Motor
  PROVE  Untouched(m) \/ Served(m, outcome)
<1>0. BusTypeOK /\ i \in Motor
  BY DEF TypeOK
<1>1. CASE ServeWithoutCommand(i, outcome)
  <2>1. WritePacket(i, SlotFrame(i), outcome)
    BY <1>1 DEF ServeWithoutCommand
  <2>2. CASE QueryCycle
    <3>1. SlotFrame(i) = QueryFrame
      BY <2>2 DEF SlotFrame
    <3> QED
      BY <1>0, <2>1, <3>1, Written, FrameKinds DEF Untouched
  <2>3. CASE ~ QueryCycle
    <3>1. SlotFrame(i) = StopFrame
      BY <1>1, <2>3 DEF SlotFrame, ServeWithoutCommand
    <3> QED
      BY <1>0, <1>1, <2>1, <2>3, <3>1, Written, FrameKinds DEF Untouched, Served
  <2> QED
    BY <2>2, <2>3
<1>2. CASE ServeSwitch(i, outcome)
  <2>1. WritePacket(i, ModeFrame(last_cmd[i].mode), outcome)
    BY <1>2 DEF ServeSwitch
  <2> QED
    BY <1>0, <2>1, Written, FrameKinds DEF Untouched
<1>3. CASE ServeValue(i, outcome)
  <2>1. CASE i = m
    BY <1>3, <2>1 DEF Served, ServeValue
  <2>2. CASE i # m
    <3>1. motor' = motor \/ \E f : motor' = [motor EXCEPT ![i] = f]
      BY <1>3 DEF ServeValue, WritePacket, busVars
    <3> QED
      BY <1>0, <2>2, <3>1 DEF Untouched, BusTypeOK
  <2> QED
    BY <2>1, <2>2
<1> QED
  BY <1>1, <1>2, <1>3 DEF SlotStep

(* No other step touches a motor, but the destructor's stop.               *)
LEMMA OthersTouch ==
  ASSUME TypeOK, [Next]_vars, NEW m \in Motor, ~ ServedIn(m)
  PROVE  Untouched(m) \/ (motor'[m].target = StopFrame /\ pc' \notin {"idle", "serve"})
<1>0. BusTypeOK /\ i \in Motor
  BY DEF TypeOK
<1>1. CASE Construct
  <2>1. \/ UNCHANGED busVars
        \/ \E outcome : WritePacket(i, ModeFrame(MODE_VELOCITY), outcome)
    BY <1>1 DEF Construct
  <2> QED
    BY <1>0, <2>1, Written, FrameKinds DEF Untouched, busVars
<1>2. CASE StopMotor
  <2>1. PICK outcome : WritePacket(i, StopFrame, outcome)
    BY <1>2 DEF StopMotor
  <2>2. pc' \notin {"idle", "serve"}
    BY <1>2 DEF StopMotor, NextMotor
  <2> QED
    BY <1>0, <2>1, <2>2, Written, FrameKinds DEF Untouched
<1>3. CASE Slot
  <2>1. PICK outcome \in Outcomes : SlotStep(outcome)
    BY <1>3 DEF Slot, SlotFor, SlotStep
  <2>2. ~ Served(m, outcome)
    BY <1>3, <2>1 DEF ServedIn, Slot, SlotFor
  <2> QED
    BY <2>1, <2>2, SlotTouches
<1>4. CASE InitPort \/ ControlTimer \/ TimeoutTimer \/ ClosePort \/ Tick \/ Shutdown
           \/ UNCHANGED vars
  BY <1>4 DEF InitPort, ControlTimer, TimeoutTimer, ClosePort, Tick, Shutdown, vars,
     busVars, Untouched
<1>5. CASE \E k \in Motor, cmd \in Commands : TopicCallback(k, cmd)
  BY <1>5 DEF TopicCallback, busVars, Untouched
<1> QED
  BY <1>1, <1>2, <1>3, <1>4, <1>5 DEF Next, ExecutorStep, Terminated

(* A motor that is served holds what it should.                            *)
LEMMA ServedRight ==
  ASSUME TypeOK, Heard, NEW m \in Motor, ServedIn(m), faults' = 0
  PROVE  /\ timed_out' = timed_out /\ last_cmd' = last_cmd
         /\ timed_out[m] => motor'[m].target = StopFrame
         /\ Trusted(m) => Applied(m)'
<1>1. PICK outcome : Served(m, outcome)
  BY DEF ServedIn
<1>2. BusTypeOK /\ motor[m] \in [mode : Modes, target : Target, read_as : Modes]
  BY DEF TypeOK, BusTypeOK
<1>3. faults = 0
  BY <1>1, <1>2, FaultsGrow DEF Served, ServeWithoutCommand, ServeValue, busVars
<1>4. port /\ Cached
  BY <1>3 DEF Heard, ServedIn
<1>5. timed_out' = timed_out /\ last_cmd' = last_cmd
  BY <1>1 DEF Served, ServeWithoutCommand, ServeValue
<1>6. CASE ServeWithoutCommand(m, outcome)
  <2>1. timed_out[m] /\ SlotFrame(m) = StopFrame
    BY <1>1, <1>6 DEF Served, ServeWithoutCommand, SlotFrame
  <2>2. motor'[m] = Receive(motor[m], StopFrame)
    BY <1>2, <1>4, <1>6, <2>1, Addressed DEF ServeWithoutCommand
  <2>3. motor'[m].target = StopFrame
    BY <1>2, <2>2, Understood, FrameKinds
  <2> QED
    BY <1>5, <2>1, <2>3 DEF Trusted
<1>7. CASE ServeValue(m, outcome) /\ last_cmd[m].mode \in Modes
  <2>1. ~ timed_out[m] /\ ~ NeedsSwitch(m) /\ ~ QueryCycle
    BY <1>7 DEF ServeValue
  <2> DEFINE f == ValueFrame(last_cmd[m].mode, last_cmd[m].value, last_cmd[m].brake)
  <2>2. SlotFrame(m) = f
    BY <2>1 DEF SlotFrame
  <2>3. motor'[m] = Receive(motor[m], f)
    BY <1>2, <1>4, <1>7, <2>2, Addressed DEF ServeValue
  <2>4. f.type = "command"
    BY FrameKinds
  <2> HIDE DEF f
  <2>5. motor'[m].target = f /\ motor'[m].read_as = motor[m].mode
    BY <1>2, <2>3, <2>4, Understood
  <2>6. motor[m].mode = last_cmd[m].mode
    BY <1>4, <1>7, <2>1 DEF NeedsSwitch, Cached
  <2>7. Applied(m)'
    BY <1>5, <2>5, <2>6 DEF Applied, f
  <2> QED
    BY <1>5, <2>1, <2>7
<1>8. CASE ServeValue(m, outcome) /\ last_cmd[m].mode \notin Modes
  BY <1>5, <1>8 DEF ServeValue, Trusted
<1> QED
  BY <1>1, <1>6, <1>7, <1>8 DEF Served

(* The watchdog's flag of a motor is only reset by a command, and the      *)
(* timers only start with all flags set. *)
LEMMA TrustNext ==
  ASSUME TypeOK, Young, [Next]_vars, NEW m \in Motor, ~ timed_out'[m], age'[m] # 0
  PROVE  /\ ~ timed_out[m] /\ last_cmd'[m] = last_cmd[m]
         /\ pc' \in {"idle", "serve"} => pc \in {"idle", "serve"}
<1>1. CASE InitPort \/ Construct
  BY <1>1 DEF InitPort, Construct, Young, handlerVars
<1>2. CASE Slot
  BY <1>2 DEF Slot, SlotFor, ServeWithoutCommand, ServeSwitch, ServeValue
<1>3. CASE TimeoutTimer
  <2>1. ~ Expired(m) /\ last_cmd' = last_cmd /\ pc = "idle"
    BY <1>3 DEF TimeoutTimer, check_timeouts
  <2> QED
    BY <2>1 DEF Expired
<1>4. CASE \E k \in Motor, cmd \in Commands : TopicCallback(k, cmd)
  BY <1>4 DEF TopicCallback, set_command, TypeOK, HandlerTypeOK
<1>5. CASE ControlTimer \/ StopMotor \/ ClosePort \/ Tick \/ Shutdown
  BY <1>5 DEF ControlTimer, StopMotor, ClosePort, Tick, Shutdown, NextMotor, handlerVars
<1>6. CASE UNCHANGED vars
  BY <1>6 DEF vars, handlerVars, nodeVars
<1> QED
  BY <1>1, <1>2, <1>3, <1>4, <1>5, <1>6 DEF Next, ExecutorStep, Terminated

LEMMA FaultsNext ==
  ASSUME TypeOK, [Next]_vars, faults' = 0
  PROVE  faults = 0
<1>0. BusTypeOK
  BY DEF TypeOK
<1>1. CASE Construct \/ StopMotor
  BY <1>0, <1>1, FaultsGrow DEF Construct, StopMotor, busVars
<1>2. CASE Slot
  BY <1>0, <1>2, FaultsGrow
     DEF Slot, SlotFor, ServeWithoutCommand, ServeSwitch, ServeValue, busVars
<1>3. CASE InitPort \/ ControlTimer \/ TimeoutTimer \/ ClosePort \/ Tick \/ Shutdown
           \/ UNCHANGED vars
  BY <1>3 DEF InitPort, ControlTimer, TimeoutTimer, ClosePort, Tick, Shutdown, vars, busVars
<1>4. CASE \E m \in Motor, cmd \in Commands : TopicCallback(m, cmd)
  BY <1>4 DEF TopicCallback, busVars
<1> QED
  BY <1>1, <1>2, <1>3, <1>4 DEF Next, ExecutorStep, Terminated

LEMMA PunctualNext ==
  ASSUME DeadlineInv, TypeOK', WatchdogBound', QueryPeriod > 1, [Next]_vars
  PROVE  Punctual'
<1> SUFFICES ASSUME faults' = 0, NEW m \in Motor
             PROVE  /\ Driven(m)' => HeldSoon(m)'
                    /\ (pc \in {"idle", "serve"})' /\ Trusted(m)' => AppliedSoon(m)'
  BY DEF Punctual
<1>0. /\ TypeOK /\ Young /\ Heard /\ Counter /\ Punctual
      /\ age'[m] \in Nat /\ WatchdogDeadline \in Nat
  BY DeadlinesNat DEF DeadlineInv, WatchdogInv, HeardInv, TypeOK, HandlerTypeOK
<1>1. /\ Driven(m) => HeldSoon(m)
      /\ pc \in {"idle", "serve"} /\ Trusted(m) => AppliedSoon(m)
  BY <1>0, FaultsNext DEF Punctual
<1>2. WatchdogDeadline' = WatchdogDeadline
  BY DEF WatchdogDeadline, CycleTime, WriteTime
<1>3. CASE age'[m] = 0
  <2>1. HeldSoon(m)'
    BY <1>0, <1>2, <1>3 DEF HeldSoon
  <2> QED
    BY <1>3, <2>1, FreshApplied
<1>4. CASE ServedIn(m)
  <2>1. /\ timed_out' = timed_out /\ last_cmd' = last_cmd
        /\ timed_out[m] => motor'[m].target = StopFrame
        /\ Trusted(m) => Applied(m)'
    BY <1>0, <1>4, ServedRight
  <2>2. Driven(m)' => HeldSoon(m)'
    BY <2>1, <1>2 DEF Driven, HeldSoon, WatchdogBound
  <2>3. Trusted(m)' => AppliedSoon(m)'
    BY <2>1 DEF Trusted, AppliedSoon
  <2> QED
    BY <2>2, <2>3
<1>5. CASE Paid(m) /\ ~ ServedIn(m) /\ age'[m] # 0
  <2>1. Untouched(m) \/ (motor'[m].target = StopFrame /\ pc' \notin {"idle", "serve"})
    BY <1>0, <1>5, OthersTouch
  <2>2. Driven(m)' => HeldSoon(m)'
    BY <1>0, <1>1, <1>5, <2>1, PaidHeld DEF Driven, Untouched
  <2>3. ASSUME (pc \in {"idle", "serve"})', Trusted(m)'
        PROVE  AppliedSoon(m)'
    <3>1. ~ timed_out[m] /\ last_cmd'[m] = last_cmd[m] /\ pc \in {"idle", "serve"}
      BY <1>0, <1>5, <2>3, TrustNext DEF Trusted
    <3>2. AppliedSoon(m)
      BY <1>1, <2>3, <3>1 DEF Trusted
    <3>3. CASE Applied(m)
      <4>1. Untouched(m)
        BY <2>1, <2>3
      <4> QED
        BY <3>1, <3>3, <4>1 DEF Applied, AppliedSoon, Untouched
    <3>4. CASE age[m] + Wait(m) <= ApplyDeadline
      BY <1>0, <1>5, <3>4, PaidApplied
    <3> QED
      BY <3>2, <3>3, <3>4 DEF AppliedSoon
  <2> QED
    BY <2>2, <2>3
<1> QED
  BY <1>0, <1>3, <1>4, <1>5, PaidNext

LEMMA DeadlineInvInit == Init => DeadlineInv
<1> SUFFICES ASSUME Init PROVE DeadlineInv
  OBVIOUS
<1>1. TypeOK /\ Counter /\ Heard
  BY TypeInit, HeardInit
<1>2. ~ overtaken /\ \A m \in Motor : timed_out[m] /\ age[m] = 0
  BY DEF Init, HandlerInit
<1>3. WatchdogInv /\ HeardInv /\ Young
  BY <1>1, <1>2 DEF WatchdogInv, HeardInv, Young
<1>4. Punctual
  BY <1>2, DeadlinesNat DEF Punctual, HeldSoon, Trusted
<1> QED
  BY <1>3, <1>4 DEF DeadlineInv

LEMMA DeadlineInvNext ==
  ASSUME DeadlineInv, QueryPeriod > 1, [Next]_vars
  PROVE  DeadlineInv'
<1>1. TypeOK /\ Counter /\ Heard /\ Young /\ WatchdogInv
  BY DEF DeadlineInv, HeardInv
<1>2. TypeOK' /\ Counter' /\ Heard' /\ Young'
  BY <1>1, TypeStep, CounterNext, HeardNext, YoungNext
<1>3. WatchdogInv'
  BY <1>1, WatchdogNext
<1>4. WatchdogBound'
  BY <1>3, WatchdogBounds, PTL
<1>5. Punctual'
  BY <1>2, <1>4, PunctualNext
<1> QED
  BY <1>2, <1>3, <1>5 DEF DeadlineInv, HeardInv

LEMMA DeadlineInvAlways ==
  ASSUME QueryPeriod > 1
  PROVE  Spec => []DeadlineInv
<1>1. DeadlineInv /\ [Next]_vars => DeadlineInv'
  BY DeadlineInvNext
<1> QED
  BY <1>1, DeadlineInvInit, PTL DEF Spec

(* Unless the temperature is queried in every cycle or a frame got lost, a *)
(* motor whose client is silent holds the driver's stop within             *)
(* StopDeadline: execute_control_cycle comes to every motor in time.       *)
THEOREM SilentStoppedInTime ==
  ASSUME QueryPeriod > 1
  PROVE  Spec => []StoppedInTime
<1>1. DeadlineInv => StoppedInTime
  <2> SUFFICES ASSUME DeadlineInv, faults = 0, NEW m \in Motor, age[m] > StopDeadline
               PROVE  motor[m].target.type = "stop"
    BY DEF StoppedInTime
  <2>1. TypeOK /\ age[m] \in Nat /\ (Driven(m) => HeldSoon(m))
    BY DEF DeadlineInv, HeardInv, Punctual, TypeOK, HandlerTypeOK
  <2>2. Wait(m) \in Nat
    BY <2>1, WaitBounds
  <2>3. ~ HeldSoon(m)
    BY <2>1, <2>2, DeadlinesNat DEF HeldSoon
  <2> QED
    BY <2>1, <2>3, FrameKinds DEF Driven
<1> QED
  BY <1>1, DeadlineInvAlways, PTL

(* Under the same conditions a motor follows the newest command of its     *)
(* client, in the mode of that command, within ApplyDeadline.              *)
THEOREM CommandsAppliedInTime ==
  ASSUME QueryPeriod > 1
  PROVE  Spec => []AppliedInTime
<1>1. DeadlineInv => AppliedInTime
  <2> SUFFICES ASSUME DeadlineInv, faults = 0, pc \in {"idle", "serve"}, NEW m \in Motor,
                      Trusted(m), age[m] > ApplyDeadline
               PROVE  Applied(m)
    BY DEF AppliedInTime, Applied, Trusted
  <2>1. TypeOK /\ age[m] \in Nat /\ AppliedSoon(m)
    BY DEF DeadlineInv, HeardInv, Punctual, TypeOK, HandlerTypeOK
  <2>2. Wait(m) \in Nat
    BY <2>1, WaitBounds
  <2> QED
    BY <2>1, <2>2, DeadlinesNat DEF AppliedSoon
<1> QED
  BY <1>1, DeadlineInvAlways, PTL

-----------------------------------------------------------------------------
(* Losses                                                                  *)
(*                                                                         *)
(* A motor that was served in vain has its whole wait before it again, and *)
(* one more failed transmission on the count.                              *)

LEMMA TimesGrows ==
  ASSUME NEW a \in Nat, NEW j \in Nat, NEW k \in Nat
  PROVE  /\ j * a \in Nat
         /\ j <= k => j * a <= k * a
         /\ (j + 1) * a = j * a + a
<1>1. j * a \in Nat /\ k * a \in Nat
  OBVIOUS
<1>2. (j + 1) * a = j * a + a
  OBVIOUS
<1>3. ASSUME j <= k PROVE j * a <= k * a
  <2>1. k - j \in Nat
    BY <1>3
  <2>2. (k - j) * a \in Nat
    BY <2>1
  <2>3. (k - j) * a = k * a - j * a
    OBVIOUS
  <2> QED
    BY <1>1, <2>2, <2>3
<1> QED
  BY <1>1, <1>2, <1>3

(* After its slot a motor waits ApplyDeadline at most, the slot included.  *)
LEMMA ServedWaits ==
  ASSUME TypeOK, TypeOK', QueryPeriod > 1, pc = "serve", NEW outcome, NEW m \in Motor,
         Served(m, outcome), SlotStep(outcome), NEW d \in Nat, d <= WriteTime
  PROVE  Wait(m)' + d <= ApplyDeadline
<1>1. i = m /\ ~ ServeSwitch(i, outcome)
  BY DEF Served, ServeSwitch, ServeWithoutCommand, ServeValue
<1>2. m \in Nat /\ i' \in Nat
  BY DEF TypeOK, Motor
<1>3. TypeOK'
  OBVIOUS
<1>4. (/\ ctrl_left \in Nat /\ ctrl_left <= ControlPeriod /\ ControlPeriod \in Nat
       /\ WriteTime \in Nat /\ CycleTime \in Nat
       /\ Due(m) \in Nat /\ Due(m) + WriteTime <= CycleTime
       /\ Spent \in Nat
       /\ QueryDelay \in Nat /\ QueryDelay <= ControlPeriod + CycleTime
       /\ i > m => Due(m) + WriteTime <= Spent)'
  BY <1>3, WaitTerms, PTL
<1>5. WriteTime' = WriteTime /\ CycleTime' = CycleTime
  BY DEF WriteTime, CycleTime
<1> DEFINE due == Due(m)'  now == Spent'  q == QueryDelay'
<1>6. \/ pc' = "idle"
      \/ pc' = "serve" /\ i' > m
  BY <1>1, <1>2 DEF SlotStep, NextMotor
<1>7. CASE pc' = "idle"
  <2>1. Wait(m)' = ctrl_left' + q + due
    BY <1>7 DEF Wait
  <2> QED
    BY <1>4, <1>5, <2>1 DEF ApplyDeadline
<1>8. CASE pc' = "serve" /\ i' > m
  <2>1. Wait(m)' = ctrl_left' + (CycleTime - now) + q + due
    BY <1>2, <1>5, <1>8 DEF Wait
  <2> QED
    BY <1>4, <1>5, <1>8, <2>1 DEF ApplyDeadline
<1> QED
  BY <1>6, <1>7, <1>8

(* A frame that does not arrive is counted, or finds the port closed.      *)
LEMMA LostIsCounted ==
  ASSUME BusTypeOK, port, NEW m \in Motor, NEW f, NEW outcome, WritePacket(m, f, outcome)
  PROVE  \/ motor'[m] = Receive(motor[m], f)
         \/ motor' = motor /\ faults' = faults + 1
<1>1. outcome = "sent" \/ outcome \in Faults
  BY DEF WritePacket, Outcomes
<1> QED
  BY <1>1 DEF WritePacket, BusTypeOK

(* Transmissions only add to the count.                                    *)
LEMMA WritesCount ==
  ASSUME BusTypeOK, NEW m, NEW f, NEW outcome, WritePacket(m, f, outcome)
  PROVE  faults' >= faults /\ (port' => port)
BY BusAssumption DEF WritePacket, BusTypeOK

LEMMA CountGrows ==
  ASSUME TypeOK, [Next]_vars
  PROVE  faults' >= faults /\ (port' => port \/ pc = "start")
<1>0. BusTypeOK /\ faults >= faults
  BY BusAssumption DEF TypeOK, BusTypeOK
<1>1. CASE Construct \/ StopMotor
  BY <1>0, <1>1, WritesCount DEF Construct, StopMotor, busVars
<1>2. CASE Slot
  BY <1>0, <1>2, WritesCount
     DEF Slot, SlotFor, ServeWithoutCommand, ServeSwitch, ServeValue, busVars
<1>3. CASE InitPort \/ ControlTimer \/ TimeoutTimer \/ ClosePort \/ Tick \/ Shutdown
           \/ UNCHANGED vars
  BY <1>0, <1>3 DEF InitPort, ControlTimer, TimeoutTimer, ClosePort, Tick, Shutdown, vars,
     busVars
<1>4. CASE \E m \in Motor, cmd \in Commands : TopicCallback(m, cmd)
  BY <1>0, <1>4 DEF TopicCallback, busVars
<1> QED
  BY <1>1, <1>2, <1>3, <1>4 DEF Next, ExecutorStep, Terminated

(* What is allowed for the losses so far                                   *)
Allowance == faults * ApplyDeadline

HeldLate(m) == \/ age[m] <= WatchdogDeadline
               \/ age[m] + Wait(m) <= StopDeadline + Allowance

Repeated == port => \A m \in Motor : Driven(m) => HeldLate(m)

LossInv == WatchdogInv /\ Counter /\ Young /\ Repeated

LEMMA AllowanceGrows ==
  ASSUME TypeOK, TypeOK', faults' >= faults
  PROVE  /\ Allowance \in Nat /\ Allowance' \in Nat /\ Allowance <= Allowance'
         /\ faults' = faults + 1 => Allowance' = Allowance + ApplyDeadline
<1>1. faults \in Nat /\ faults' \in Nat
  BY BusAssumption DEF TypeOK, BusTypeOK
<1>2. ApplyDeadline \in Nat /\ ApplyDeadline' = ApplyDeadline
  BY DeadlinesNat DEF ApplyDeadline, CycleTime, WriteTime
<1> QED
  BY <1>1, <1>2, TimesGrows DEF Allowance

(* A motor that is sent the stop and does not get it                       *)
LEMMA ServedInVain ==
  ASSUME TypeOK, TypeOK', QueryPeriod > 1, port, NEW m \in Motor, ServedIn(m),
         timed_out[m], Driven(m)',
         NEW outcome \in Outcomes, SlotStep(outcome), NEW d \in Nat, d <= WriteTime
  PROVE  Driven(m) /\ faults' = faults + 1 /\ Wait(m)' + d <= ApplyDeadline
<1>0. BusTypeOK /\ i = m /\ pc = "serve" /\ ~ QueryCycle
  BY DEF TypeOK, ServedIn, Served
<1>1. ServeWithoutCommand(m, outcome) /\ SlotFrame(m) = StopFrame
  BY <1>0 DEF SlotStep, ServeSwitch, ServeValue, SlotFrame
<1>2. WritePacket(m, StopFrame, outcome)
  BY <1>1 DEF ServeWithoutCommand
<1>3. motor[m] \in [mode : Modes, target : Target, read_as : Modes]
  BY <1>0 DEF BusTypeOK
<1>4. motor'[m].target = StopFrame \/ (motor' = motor /\ faults' = faults + 1)
  BY <1>0, <1>2, <1>3, LostIsCounted, Understood, FrameKinds
<1>5. Wait(m)' + d <= ApplyDeadline
  BY <1>0, <1>1, ServedWaits DEF Served
<1> QED
  BY <1>4, <1>5 DEF Driven

LEMMA ServedLate ==
  ASSUME TypeOK, TypeOK', QueryPeriod > 1, port, NEW m \in Motor, ServedIn(m),
         timed_out[m], HeldLate(m), Driven(m)',
         NEW outcome \in Outcomes, SlotStep(outcome),
         NEW d \in Nat, d <= WriteTime, AgeBy(d)
  PROVE  HeldLate(m)'
<1>0. /\ age[m] \in Nat /\ age'[m] \in Nat /\ faults \in Nat
      /\ WatchdogDeadline \in Nat /\ ApplyDeadline \in Nat
      /\ StopDeadline = WatchdogDeadline + ApplyDeadline
  BY DeadlinesNat, BusAssumption DEF TypeOK, HandlerTypeOK, BusTypeOK
<1>1. StopDeadline' = StopDeadline
  BY DEF StopDeadline, ApplyDeadline, WatchdogDeadline, CycleTime, WriteTime
<1>2. age'[m] <= age[m] + d
  BY Ageing
<1>3. faults' = faults + 1 /\ Wait(m)' + d <= ApplyDeadline
  BY ServedInVain
<1>4. PICK w \in Nat : w = Wait(m)'
  <2>1. TypeOK'
    OBVIOUS
  <2>2. (Wait(m) \in Nat)'
    BY <2>1, WaitBounds, PTL
  <2> QED
    BY <2>2
<1>5. Allowance \in Nat /\ Allowance' = Allowance + ApplyDeadline
  BY <1>0, <1>3, AllowanceGrows
<1>6. age[m] <= StopDeadline + Allowance
  <2>1. Wait(m) \in Nat
    BY WaitBounds
  <2> QED
    BY <1>0, <1>5, <2>1 DEF HeldLate
<1>7. age'[m] + w <= StopDeadline + (Allowance + ApplyDeadline)
  BY <1>0, <1>2, <1>3, <1>4, <1>5, <1>6
<1> QED
  BY <1>1, <1>4, <1>5, <1>7 DEF HeldLate

(* A motor that waits                                                      *)
LEMMA PaidLate ==
  ASSUME TypeOK, TypeOK', QueryPeriod > 1, faults' >= faults, NEW m \in Motor,
         Paid(m), HeldLate(m)
  PROVE  HeldLate(m)'
<1>0. /\ age[m] \in Nat /\ age'[m] \in Nat
      /\ WatchdogDeadline \in Nat /\ ApplyDeadline \in Nat
      /\ StopDeadline = WatchdogDeadline + ApplyDeadline
  BY DeadlinesNat DEF TypeOK, HandlerTypeOK
<1>1. StopDeadline' = StopDeadline
  BY DEF StopDeadline, ApplyDeadline, WatchdogDeadline, CycleTime, WriteTime
<1>2. PICK d \in Nat : age'[m] <= age[m] + d /\ Wait(m)' + d <= Wait(m)
  BY DEF Paid
<1>3. Wait(m) \in Nat /\ Wait(m) <= ApplyDeadline
  BY WaitBounds
<1>4. PICK w \in Nat : w = Wait(m)'
  <2>1. TypeOK'
    OBVIOUS
  <2>2. (Wait(m) \in Nat)'
    BY <2>1, WaitBounds, PTL
  <2> QED
    BY <2>2
<1>5. Allowance \in Nat /\ Allowance' \in Nat /\ Allowance <= Allowance'
  BY AllowanceGrows
<1>6. age[m] + Wait(m) <= StopDeadline + Allowance
  BY <1>0, <1>3, <1>5 DEF HeldLate
<1>7. age'[m] + w <= StopDeadline + Allowance'
  BY <1>0, <1>2, <1>3, <1>4, <1>5, <1>6
<1> QED
  BY <1>1, <1>4, <1>7 DEF HeldLate

(* Only a slot serves a motor.                                             *)
LEMMA ServedBySlot ==
  ASSUME [Next]_vars, NEW m \in Motor, ServedIn(m)
  PROVE  Slot \/ UNCHANGED vars
BY DEF ServedIn, Next, ExecutorStep, InitPort, Construct, ControlTimer, TimeoutTimer,
   StopMotor, ClosePort, Tick, Shutdown, TopicCallback, Terminated

LEMMA RepeatedNext ==
  ASSUME LossInv, TypeOK', WatchdogBound', QueryPeriod > 1, [Next]_vars
  PROVE  Repeated'
<1> SUFFICES ASSUME port', NEW m \in Motor, Driven(m)'
             PROVE  HeldLate(m)'
  BY DEF Repeated
<1>0. /\ TypeOK /\ Young /\ Counter /\ Repeated
      /\ age[m] \in Nat /\ age'[m] \in Nat
      /\ WatchdogDeadline \in Nat /\ ApplyDeadline \in Nat
      /\ StopDeadline = WatchdogDeadline + ApplyDeadline
  BY DeadlinesNat DEF LossInv, WatchdogInv, TypeOK, HandlerTypeOK
<1>1. /\ WatchdogDeadline' = WatchdogDeadline /\ StopDeadline' = StopDeadline
  BY DEF StopDeadline, ApplyDeadline, WatchdogDeadline, CycleTime, WriteTime
<1>2. faults' >= faults /\ (port \/ pc = "start")
  BY <1>0, CountGrows
<1>3. CASE age'[m] = 0
  BY <1>0, <1>1, <1>3 DEF HeldLate
<1>4. CASE pc = "start" /\ age'[m] # 0
  <2>1. age[m] = 0
    BY <1>0, <1>4 DEF Young
  <2>2. age' = age
    BY <1>4 DEF Next, ExecutorStep, InitPort, Construct, ControlTimer, Slot, SlotFor,
       TimeoutTimer, StopMotor, ClosePort, Tick, Shutdown, TopicCallback, Terminated, vars, handlerVars
  <2> QED
    BY <1>4, <2>1, <2>2
<1>5. CASE port /\ ServedIn(m) /\ Slot
  <2>1. PICK outcome \in Outcomes, sleep \in 0 .. SlotTime :
          SlotStep(outcome) /\ Elapse(Delay(outcome) + sleep)
    BY <1>5 DEF Slot, SlotFor, SlotStep
  <2>2. PICK d \in 0 .. WriteTime : d = Delay(outcome) + sleep /\ Elapse(d)
    BY <2>1, SlotDelay
  <2>3. d \in Nat /\ d <= WriteTime /\ AgeBy(d)
    BY <2>2, WriteTimeNat DEF Elapse
  <2>4. CASE ~ timed_out[m]
    <3>1. timed_out' = timed_out
      BY <2>1 DEF SlotStep, ServeWithoutCommand, ServeSwitch, ServeValue
    <3> QED
      BY <1>1, <2>4, <3>1 DEF WatchdogBound, HeldLate
  <2>5. CASE timed_out[m]
    <3>1. Driven(m)
      BY <1>0, <1>5, <2>1, <2>3, <2>5, ServedInVain
    <3> QED
      BY <1>0, <1>5, <2>1, <2>3, <2>5, <3>1, ServedLate DEF Repeated
  <2> QED
    BY <2>4, <2>5
<1>6. CASE port /\ Paid(m) /\ (UNCHANGED vars \/ ~ ServedIn(m))
  <2>1. Driven(m)
    <3>1. motor' = motor \/ Untouched(m)
      BY <1>0, <1>6, OthersTouch DEF Driven, vars, busVars
    <3> QED
      BY <3>1 DEF Driven, Untouched
  <2> QED
    BY <1>0, <1>2, <1>6, <2>1, PaidLate DEF Repeated
<1> QED
  BY <1>0, <1>2, <1>3, <1>4, <1>5, <1>6, PaidNext, PaidStutter, ServedBySlot

(* However many transmissions fail, a motor whose client is silent holds   *)
(* the driver's stop by a deadline that every failure defers by one wait   *)
(* at most: execute_control_cycle repeats the stop in every cycle.  Only a *)
(* port that write_packet could not reopen is past help.                   *)
THEOREM SilentStoppedDespiteLosses ==
  ASSUME QueryPeriod > 1
  PROVE  Spec => []StoppedDespiteLosses
<1>1. Init => LossInv
  <2> SUFFICES ASSUME Init PROVE LossInv
    OBVIOUS
  <2>1. TypeOK /\ Counter
    BY TypeInit, HeardInit
  <2>2. ~ overtaken /\ ~ port /\ \A m \in Motor : timed_out[m] /\ age[m] = 0
    BY DEF Init, HandlerInit, BusInit
  <2> QED
    BY <2>1, <2>2 DEF LossInv, WatchdogInv, Young, Repeated
<1>2. ASSUME LossInv, [Next]_vars
      PROVE  LossInv'
  <2>1. TypeOK /\ Counter /\ Young /\ WatchdogInv
    BY <1>2 DEF LossInv, WatchdogInv
  <2>2. TypeOK' /\ Counter' /\ Young' /\ WatchdogInv'
    BY <1>2, <2>1, TypeStep, CounterNext, YoungNext, WatchdogNext
  <2>3. WatchdogBound'
    BY <2>2, WatchdogBounds, PTL
  <2>4. Repeated'
    BY <1>2, <2>2, <2>3, RepeatedNext
  <2> QED
    BY <2>2, <2>4 DEF LossInv
<1>3. LossInv => StoppedDespiteLosses
  <2> SUFFICES ASSUME LossInv, port, NEW m \in Motor,
                      age[m] > StopDeadline + faults * ApplyDeadline
               PROVE  motor[m].target.type = "stop"
    BY DEF StoppedDespiteLosses
  <2>1. TypeOK /\ age[m] \in Nat /\ (Driven(m) => HeldLate(m))
    BY DEF LossInv, WatchdogInv, Repeated, TypeOK, HandlerTypeOK
  <2>2. Wait(m) \in Nat /\ Allowance \in Nat
    <3>1. faults \in Nat /\ ApplyDeadline \in Nat
      BY <2>1, BusAssumption, DeadlinesNat DEF TypeOK, BusTypeOK
    <3> QED
      BY <2>1, <3>1, WaitBounds, TimesGrows DEF Allowance
  <2>3. ~ HeldLate(m)
    BY <2>1, <2>2, DeadlinesNat DEF HeldLate, Allowance
  <2> QED
    BY <2>1, <2>3, FrameKinds DEF Driven
<1> QED
  BY <1>1, <1>2, <1>3, PTL DEF Spec

-----------------------------------------------------------------------------
(* The node implements the dead man's switch                               *)

(* The invariant meets the deadlines of the switch.                        *)
LEMMA SwitchDeadlines ==
  ASSUME QueryPeriod > 1, DeadlineInv, faults = 0
  PROVE  Switch!Deadlines
<1>1. TypeOK /\ WatchdogBound
  BY WatchdogBounds DEF DeadlineInv, HeardInv
<1>2. ASSUME NEW m \in Motor, Driven(m)
      PROVE  age[m] <= StopDeadline
  <2>1. HeldSoon(m)
    BY <1>2 DEF DeadlineInv, Punctual
  <2>2. age[m] \in Nat /\ Wait(m) \in Nat
    BY <1>1, WaitBounds DEF TypeOK, HandlerTypeOK
  <2> QED
    BY <2>1, <2>2, DeadlinesNat DEF HeldSoon
<1>3. ASSUME NEW m \in Motor, Switch!Driven(m)
      PROVE  Driven(m)
  BY <1>3 DEF Switch!Driven, Driven
<1> QED
  BY <1>1, <1>2, <1>3 DEF Switch!Deadlines, WatchdogBound

(* Time passes for the switch as it passes for the node.                   *)
LEMMA SwitchPasses ==
  ASSUME QueryPeriod > 1, TypeOK, DeadlineInv', faults' = 0, NEW d \in Nat, AgeBy(d)
  PROVE  Switch!Pass
<1>1. Switch!Deadlines'
  <2>1. DeadlineInv' /\ (faults = 0)'
    OBVIOUS
  <2> QED
    BY <2>1, SwitchDeadlines, PTL
<1>2. PICK e \in 0 .. AgeCap : e = IF d > AgeCap THEN AgeCap ELSE d
  BY HandlerAssumption
<1>3. age' = [m \in Motor |-> IF age[m] + e > AgeCap THEN AgeCap ELSE age[m] + e]
  BY <1>2, HandlerAssumption DEF AgeBy, TypeOK, HandlerTypeOK
<1> QED
  BY <1>1, <1>3 DEF Switch!Pass

(* What the switch sees of the motors when one of them holds a new frame   *)
LEMMA Retargeted ==
  ASSUME NEW k \in Motor, NEW f, motor'[k].target = f,
         \A m \in Motor : m # k => motor'[m].target = motor[m].target
  PROVE  [m \in Motor |-> motor'[m].target]
           = [[m \in Motor |-> motor[m].target] EXCEPT ![k] = f]
OBVIOUS

(* What each slot of the control cycle is to the switch                    *)
LEMMA SwitchSlot ==
  ASSUME QueryPeriod > 1, DeadlineInv, DeadlineInv', faults' = 0, Slot
  PROVE  Switch!AbsNext
<1>0. TypeOK /\ Heard /\ i \in Motor /\ pc = "serve"
  BY DEF DeadlineInv, HeardInv, TypeOK, Slot, SlotFor
<1>1. PICK outcome \in Outcomes, sleep \in 0 .. SlotTime :
        SlotStep(outcome) /\ Elapse(Delay(outcome) + sleep)
  BY DEF Slot, SlotFor, SlotStep
<1>2. Switch!Pass
  <2>1. Delay(outcome) + sleep \in Nat
    BY <1>1, SlotDelay, WriteTimeNat
  <2> QED
    BY <1>0, <1>1, <2>1, SwitchPasses DEF Elapse
<1>3. /\ UNCHANGED <<last_cmd, timed_out>>
      /\ pc' \in {"serve", "idle"}
  BY <1>0, <1>1 DEF SlotStep, ServeWithoutCommand, ServeSwitch, ServeValue, NextMotor
<1>4. \A m \in Motor : m # i => motor'[m].target = motor[m].target
  BY <1>0, <1>1, SlotTouches DEF Untouched, Served
<1>5. pc \notin {"stop", "close", "stopped"} /\ pc' \notin {"stop", "close", "stopped"}
  BY <1>0, <1>3
<1>6. CASE motor'[i].target = motor[i].target
  <2>1. Switch!Wait
    BY <1>0, <1>2, <1>3, <1>4, <1>6 DEF Switch!Wait
  <2> QED
    BY <2>1 DEF Switch!AbsNext
<1>7. CASE Served(i, outcome)
  <2> PICK k \in Motor : k = i
    BY <1>0
  <2>1. /\ timed_out[i] => motor'[i].target = StopFrame
        /\ Trusted(i) => motor'[i].target = OrderOf(last_cmd[i])
    BY <1>0, <1>1, <1>3, <1>7, ServedRight DEF ServedIn, Applied, OrderOf
  <2>2. CASE timed_out[i]
    <3>1. [m \in Motor |-> motor'[m].target]
            = [[m \in Motor |-> motor[m].target] EXCEPT ![k] = StopFrame]
      BY <1>4, <2>1, <2>2, Retargeted
    <3>2. /\ UNCHANGED <<last_cmd, timed_out>>
          /\ ~ [m \in Motor |-> ~ timed_out[m]][k]
      BY <1>3, <2>2
    <3>3. Switch!Halt(k)
      BY <1>2, <1>5, <3>1, <3>2 DEF Switch!Halt
    <3> QED
      BY <3>3 DEF Switch!AbsNext
  <2>3. CASE Trusted(i)
    <3>1. [m \in Motor |-> motor'[m].target]
            = [[m \in Motor |-> motor[m].target] EXCEPT ![k] = OrderOf(last_cmd[k])]
      BY <1>4, <2>1, <2>3, Retargeted
    <3>2. /\ UNCHANGED <<last_cmd, timed_out>>
          /\ [m \in Motor |-> ~ timed_out[m]][k]
          /\ [m \in Motor |-> OrderOf(last_cmd[m])][k] = OrderOf(last_cmd[k])
      BY <1>3, <2>3 DEF Trusted
    <3>3. Switch!Drive(k)
      BY <1>2, <1>5, <3>1, <3>2 DEF Switch!Drive
    <3> QED
      BY <3>3 DEF Switch!AbsNext
  <2>4. CASE ~ timed_out[i] /\ last_cmd[i].mode \notin Modes
    BY <1>6, <1>7, <2>4 DEF Served, ServeWithoutCommand, ServeValue, busVars
  <2> QED
    BY <2>2, <2>3, <2>4 DEF Trusted
<1> QED
  BY <1>0, <1>1, <1>6, <1>7, SlotTouches DEF Untouched

LEMMA SwitchSteps ==
  ASSUME QueryPeriod > 1, DeadlineInv, DeadlineInv', faults = 0, faults' = 0, [Next]_vars
  PROVE  [Switch!AbsNext]_(Switch!absVars)
<1>0. TypeOK /\ BusTypeOK /\ Heard /\ i \in Motor
  BY DEF DeadlineInv, HeardInv, TypeOK
<1>1. CASE InitPort \/ ControlTimer \/ ClosePort \/ UNCHANGED vars
  BY <1>1 DEF InitPort, ControlTimer, ClosePort, vars, busVars, handlerVars, nodeVars,
     Switch!absVars
<1>2. CASE Construct
  <2>1. \/ UNCHANGED busVars
        \/ \E outcome : WritePacket(i, ModeFrame(MODE_VELOCITY), outcome)
    BY <1>2 DEF Construct
  <2>2. \A m \in Motor : motor'[m].target = motor[m].target
    BY <1>0, <2>1, Written, FrameKinds DEF busVars
  <2> QED
    BY <1>2, <2>2 DEF Construct, NextMotor, handlerVars, Switch!absVars
<1>3. CASE Slot
  BY <1>3, SwitchSlot
<1>4. CASE TimeoutTimer
  <2> PICK S \in SUBSET Motor : S = {m \in Motor : ~ timed_out[m] /\ age[m] > Timeout}
    OBVIOUS
  <2>1. \A m \in Motor : (~ timed_out'[m]) = (~ timed_out[m] /\ m \notin S)
    BY <1>0, <1>4 DEF TimeoutTimer, check_timeouts, Expired, TypeOK, HandlerTypeOK
  <2>2. UNCHANGED <<motor, last_cmd, age, pc>>
    BY <1>4 DEF TimeoutTimer, check_timeouts, busVars
  <2>3. Switch!Disarm(S)
    BY <2>1, <2>2 DEF Switch!Disarm
  <2> QED
    BY <2>3 DEF Switch!AbsNext
<1>5. CASE StopMotor
  <2>1. PICK outcome : WritePacket(i, StopFrame, outcome)
    BY <1>5 DEF StopMotor
  <2>2. /\ motor'[i].target = StopFrame
        /\ \A m \in Motor : m # i => motor'[m].target = motor[m].target
    <3>1. port /\ motor[i] \in [mode : Modes, target : Target, read_as : Modes]
      BY <1>0, <1>5 DEF Heard, StopMotor, BusTypeOK
    <3> QED
      BY <1>0, <2>1, <3>1, Addressed, Understood, FrameKinds
  <2>3. Switch!Pass
    <3>1. AgeBy(0)
      <4>1. age' = age /\ age \in [Motor -> 0 .. AgeCap]
        BY <1>0, <1>5 DEF StopMotor, handlerVars, TypeOK, HandlerTypeOK
      <4>2. \A m \in Motor : age[m] = IF age[m] + 0 > AgeCap THEN AgeCap ELSE age[m] + 0
        BY <4>1, HandlerAssumption
      <4> QED
        BY <4>1, <4>2 DEF AgeBy
    <3> QED
      BY <1>0, <3>1, SwitchPasses
  <2> PICK k \in Motor : k = i
    BY <1>0
  <2>4. [m \in Motor |-> motor'[m].target]
          = [[m \in Motor |-> motor[m].target] EXCEPT ![k] = StopFrame]
    BY <2>2, Retargeted
  <2>5. pc = "stop" /\ pc' \in {"stop", "close"} /\ UNCHANGED <<last_cmd, timed_out>>
    BY <1>5 DEF StopMotor, NextMotor, handlerVars
  <2>6. Switch!Halt(k)
    BY <2>3, <2>4, <2>5 DEF Switch!Halt
  <2> QED
    BY <2>6 DEF Switch!AbsNext
<1>6. CASE \E m \in Motor, cmd \in Commands : TopicCallback(m, cmd)
  <2>1. PICK m \in Motor, cmd \in Commands : TopicCallback(m, cmd)
    BY <1>6
  <2>2. Switch!Hear(m, OrderOf(cmd))
    BY <1>0, <2>1 DEF TopicCallback, set_command, busVars, nodeVars, Switch!Hear,
       TypeOK, HandlerTypeOK
  <2> QED
    BY <2>2 DEF Switch!AbsNext
<1>7. CASE Tick
  <2>1. Switch!Pass
    BY <1>0, <1>7, SwitchPasses DEF Tick, Elapse
  <2>2. Switch!Wait
    BY <1>7, <2>1 DEF Tick, busVars, Switch!Wait
  <2> QED
    BY <2>2 DEF Switch!AbsNext
<1>8. CASE Shutdown
  BY <1>8 DEF Shutdown, busVars, handlerVars, Switch!End, Switch!AbsNext
<1> QED
  BY <1>1, <1>2, <1>3, <1>4, <1>5, <1>6, <1>7, <1>8 DEF Next, ExecutorStep, Terminated

LEMMA NothingFails ==
  ASSUME Faults = {}
  PROVE  Spec => [](faults = 0)
<1>1. Init => faults = 0
  BY DEF Init, BusInit
<1>2. ASSUME faults = 0, [Next]_vars PROVE faults' = 0
  <2>1. ASSUME NEW m, NEW f, NEW outcome, WritePacket(m, f, outcome)
        PROVE  faults' = 0
    BY <1>2, <2>1 DEF WritePacket
  <2> QED
    BY <1>2, <2>1 DEF Next, ExecutorStep, InitPort, Construct, ControlTimer, Slot, SlotFor,
       ServeWithoutCommand, ServeSwitch, ServeValue, TimeoutTimer, StopMotor, ClosePort,
       Tick, Shutdown, TopicCallback, Terminated, vars, busVars
<1>3. faults = 0 /\ [Next]_vars => (faults = 0)'
  BY <1>2
<1> QED
  BY <1>1, <1>3, PTL DEF Spec

(* A node whose transmissions all arrive is a dead man's switch for each   *)
(* of its motors: it drives a motor only by the latest command of a client *)
(* who has not been silent for long, and otherwise stops it.               *)
THEOREM NodeIsDeadMansSwitch ==
  ASSUME Faults = {}, QueryPeriod > 1
  PROVE  Spec => ImplementsSwitch
<1>1. Init => Switch!AbsInit
  <2> SUFFICES ASSUME Init PROVE Switch!AbsInit
    OBVIOUS
  <2>1. TypeOK
    BY TypeInit
  <2>2. \A m \in Motor : motor[m].target = NoFrame
    BY DEF Init, BusInit
  <2>3. /\ age = [m \in Motor |-> 0] /\ pc = "start"
        /\ \A m \in Motor : timed_out[m] = TRUE
    BY DEF Init, HandlerInit
  <2>4. \A m \in Motor : last_cmd[m] \in Commands \cup {DefaultCommand}
    BY <2>1 DEF TypeOK, HandlerTypeOK
  <2>5. [m \in Motor |-> OrderOf(last_cmd[m])]
          \in [Motor -> {OrderOf(cmd) : cmd \in Commands \cup {DefaultCommand}}]
    BY <2>4
  <2>6. /\ [m \in Motor |-> motor[m].target] = [m \in Motor |-> NoFrame]
        /\ age = [m \in Motor |-> 0]
        /\ (pc \in {"stop", "close", "stopped"}) = FALSE
    BY <2>2, <2>3
  <2>7. [m \in Motor |-> ~ timed_out[m]] = [m \in Motor |-> FALSE]
    BY <2>3
  <2> QED
    BY <2>5, <2>6, <2>7 DEF Switch!AbsInit
<1>2. /\ DeadlineInv /\ faults = 0 /\ DeadlineInv' /\ (faults = 0)' /\ [Next]_vars
      => [Switch!AbsNext]_(Switch!absVars)
  BY SwitchSteps
<1> QED
  BY <1>1, <1>2, DeadlineInvAlways, NothingFails, PTL
     DEF Spec, ImplementsSwitch, Switch!AbsSpec
=============================================================================
