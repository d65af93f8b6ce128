---------------------------- MODULE FeedbackPath ----------------------------
(***************************************************************************)
(* The way of a motor's replies: a control cycle sends the motor a 0x64    *)
(* command or, every QueryPeriod cycles, a 0x74 query; the motor answers   *)
(* with its shaft position or with its temperature, in the same two bytes; *)
(* the client's I/O thread decodes the answer by the type it sent last     *)
(* (process_feedback_packet); the handler keeps the status and unwraps the *)
(* position into a continuous angle (process_feedback).                    *)
(*                                                                         *)
(* One motor: the handler's states of different motors are independent.    *)
(* Angles are counts, N to the turn; the source has 32767 counts in two    *)
(* base-256 bytes.  Frames damaged on the wire fail their CRC and are      *)
(* lost, so the bytes of a reply are always the motor's.                   *)
(***************************************************************************)
EXTENDS Integers, Sequences

CONSTANTS
  N,            \* counts per turn; N counts are 360 degrees
  B,            \* base of a byte
  Step,         \* most counts the shaft turns from one control cycle to the next
  QueryPeriod,  \* every how many cycles the temperature is queried (20)
  MaxLost,      \* most position replies lost between two that arrive
  MaxPending,   \* replies under way at once: 1 when none is later than a cycle
  Temp,         \* the winding temperature, one byte
  MaxTurns      \* how far the shaft turns from where it started (bound)

ASSUME FeedbackAssumption ==
  /\ N \in Nat \ {0} /\ B \in Nat \ {0, 1} /\ N < B * B
  /\ Step \in 0 .. N
  /\ QueryPeriod \in Nat \ {0}
  /\ MaxLost \in Nat
  /\ MaxPending \in Nat \ {0}
  /\ Temp \in 0 .. B - 1
  /\ MaxTurns \in Nat

VARIABLES
  shaft,           \* [turn, raw]: the true angle of the shaft (external)
  cycle,           \* control_cycle_count_ % QueryPeriod
  last_sent,       \* last_sent_command_type_ of the motor
  replies,         \* answers under way, oldest first
  first_feedback,  \* MotorState::first_feedback
  prev_raw,        \* MotorState::prev_raw_position_deg, in counts
  wrap_count,      \* MotorState::wrap_count
  continuous,      \* MotorState::continuous_position_rad, in counts
  status,          \* MotorState::has_status and last_status
  sampled,         \* history: the shaft angle the tracker saw last
  origin,          \* history: the turn it started from
  gap,             \* history: cycles since the angle it saw last
  lost             \* history: position replies lost since then

handlerVars == <<first_feedback, prev_raw, wrap_count, continuous, status>>
historyVars == <<sampled, origin>>
vars == <<shaft, cycle, last_sent, replies, handlerVars, historyVars, gap, lost>>

-----------------------------------------------------------------------------
(* The motor *)

Angle(s) == N * s.turn + s.raw

Turned(s, d) ==
  IF s.raw + d >= N THEN [turn |-> s.turn + 1, raw |-> s.raw + d - N]
  ELSE IF s.raw + d < 0 THEN [turn |-> s.turn - 1, raw |-> s.raw + d + N]
  ELSE [turn |-> s.turn, raw |-> s.raw + d]

(* A full turn may read as 0 or as N counts: both ends of the scale mean   *)
(* the same angle. *)
Readings(s) ==
  {s} \cup (IF s.raw = 0 THEN {[turn |-> s.turn - 1, raw |-> N]} ELSE {})

(* The two data bytes: the position, or the temperature and a coarse       *)
(* position of one byte. *)
HighByte(r) == IF r.type = "query" THEN Temp ELSE r.at.raw \div B
LowByte(r) ==
  IF r.type = "query" THEN (r.at.raw * (B - 1)) \div N ELSE r.at.raw % B

-----------------------------------------------------------------------------
(* execute_control_cycle's slot of the motor, seen from the bus: the type  *)
(* is recorded, the shaft has turned since the cycle before, and the motor *)
(* answers with what it reads, unless the request or the answer is lost.   *)
RequestType == IF (cycle + 1) % QueryPeriod = 0 THEN "query" ELSE "command"

SendRequest ==
  /\ Len(replies) < MaxPending
  /\ cycle' = (cycle + 1) % QueryPeriod
  /\ last_sent' = RequestType
  /\ \E d \in -Step .. Step : shaft' = Turned(shaft, d)
  /\ shaft'.turn \in -MaxTurns .. MaxTurns
  /\ gap' = gap + 1
  /\ \/ /\ \E s \in Readings(shaft') :
             replies' = Append(replies, [type |-> RequestType, at |-> s])
        /\ lost' = lost
     \/ /\ lost < MaxLost \/ RequestType = "query"
        /\ lost' = IF RequestType = "query" THEN lost ELSE lost + 1
        /\ UNCHANGED replies
  /\ UNCHANGED <<handlerVars, historyVars>>

(* process_feedback_packet: data bytes 6 and 7 *)
IsTemperaturePacket == last_sent = "query"

(* Mutant: the bytes are put together in the other order. *)
RawPosition_swapped(r) == B * LowByte(r) + HighByte(r)

RawPosition(r) == B * HighByte(r) + LowByte(r)

(* Mutant: only a jump of more than a whole turn counts as a wrap. *)
Track_wraps_at_full_turn(position) ==
  LET prev == IF first_feedback THEN position ELSE prev_raw
      diff == position - prev
      wrap == IF diff < -N THEN wrap_count + 1
              ELSE IF diff > N THEN wrap_count - 1
              ELSE wrap_count
  IN /\ first_feedback' = FALSE
     /\ prev_raw' = position
     /\ wrap_count' = wrap
     /\ continuous' = position + N * wrap

(* process_feedback of a position: track it. *)
Track(position) ==
  LET prev == IF first_feedback THEN position ELSE prev_raw
      diff == position - prev
      wrap == IF 2 * diff < -N THEN wrap_count + 1
              ELSE IF 2 * diff > N THEN wrap_count - 1
              ELSE wrap_count
  IN /\ first_feedback' = FALSE
     /\ prev_raw' = position
     /\ wrap_count' = wrap
     /\ continuous' = position + N * wrap

ReceivePosition ==
  /\ replies # <<>> /\ ~IsTemperaturePacket
  /\ LET r == Head(replies)
         position == RawPosition(r)
     IN /\ Track(position)
        /\ status' = [known |-> TRUE, position |-> position,
                      temperature |-> IF status.known THEN status.temperature ELSE 0]
        /\ sampled' = r.at
        /\ origin' = IF first_feedback THEN r.at.turn ELSE origin
  /\ replies' = Tail(replies)
  /\ gap' = 0 /\ lost' = 0
  /\ UNCHANGED <<shaft, cycle, last_sent>>

(* Mutant: the coarse position replaces the tracked one. *)
ReceiveTemperature_overwrites_position ==
  /\ replies # <<>> /\ IsTemperaturePacket
  /\ status' = [known |-> TRUE,
                position |-> (LowByte(Head(replies)) * N) \div (B - 1),
                temperature |-> HighByte(Head(replies))]
  /\ replies' = Tail(replies)
  /\ UNCHANGED <<shaft, cycle, last_sent, first_feedback, prev_raw, wrap_count,
                 continuous, historyVars, gap, lost>>

ReceiveTemperature ==
  /\ replies # <<>> /\ IsTemperaturePacket
  /\ LET r == Head(replies) IN
       status' = [known |-> TRUE,
                  position |-> IF status.known THEN status.position
                               ELSE (LowByte(r) * N) \div (B - 1),
                  temperature |-> HighByte(r)]
  /\ replies' = Tail(replies)
  /\ UNCHANGED <<shaft, cycle, last_sent, first_feedback, prev_raw, wrap_count,
                 continuous, historyVars, gap, lost>>

(* The driver starts with the shaft anywhere in a turn. *)
Init ==
  /\ shaft \in [turn : {0}, raw : 0 .. N - 1]
  /\ cycle = 0 /\ last_sent = "command" /\ replies = <<>>
  /\ first_feedback = TRUE /\ prev_raw = 0 /\ wrap_count = 0 /\ continuous = 0
  /\ status = [known |-> FALSE, position |-> 0, temperature |-> 0]
  /\ sampled = shaft /\ origin = 0 /\ gap = 0 /\ lost = 0

Next == SendRequest \/ ReceivePosition \/ ReceiveTemperature

Spec == Init /\ [][Next]_vars

-----------------------------------------------------------------------------
(* Properties *)

Types == {"command", "query"}
Reading == [turn : Int, raw : 0 .. N]
Reply == [type : Types, at : Reading]

TypeOK ==
  /\ shaft \in [turn : Int, raw : 0 .. N - 1]
  /\ cycle \in 0 .. QueryPeriod - 1
  /\ last_sent \in Types
  /\ replies \in Seq(Reply) /\ Len(replies) <= MaxPending
  /\ first_feedback \in BOOLEAN
  /\ prev_raw \in 0 .. N
  /\ wrap_count \in Int /\ continuous \in Int
  /\ status \in [known : BOOLEAN, position : 0 .. N, temperature : 0 .. B - 1]
  /\ sampled \in Reading /\ origin \in Int
  /\ gap \in Nat /\ lost \in 0 .. MaxLost

(* Answers come within their cycle, and between two positions that arrive  *)
(* the shaft turns by less than half a turn: MaxLost cycles without an     *)
(* answer, one that asks for the temperature, and the one of the next      *)
(* position.                                                               *)
Timely ==
  /\ MaxPending = 1
  /\ MaxLost + 2 <= QueryPeriod
  /\ 2 * (Step * (MaxLost + 2)) < N

(* The position get_joint_state publishes. *)
JointPosition == IF status.known /\ ~first_feedback THEN continuous ELSE 0

(* The angle driving odometry is the angle the shaft was last seen at,     *)
(* counted from the turn of the first reply: no turn is ever gained or     *)
(* lost.                                                                   *)
Exact == ~first_feedback => JointPosition = Angle(sampled) - N * origin

(* The published status shows the temperature or none yet, and the         *)
(* position of the sample that the joint angle comes from.                 *)
StatusTruthful ==
  /\ status.temperature \in {0, Temp}
  /\ ~first_feedback => status.position = sampled.raw
=============================================================================
