------------------------- MODULE FeedbackPathProofs -------------------------
(***************************************************************************)
(* Theorems about the way of the replies, for every resolution, speed and  *)
(* query period: of the joint angle, when a position arrives at least      *)
(* every half turn, and of the status without that condition.              *)
(***************************************************************************)
EXTENDS FeedbackPath, TLAPS

-----------------------------------------------------------------------------
(* Arithmetic *)

LEMMA DivMod ==
  ASSUME NEW x \in Nat, NEW d \in Nat \ {0}
  PROVE  /\ x \div d \in Nat
         /\ x % d \in 0 .. d - 1
         /\ d * (x \div d) + (x % d) = x
OBVIOUS

(* A quotient is bounded by what its dividend is a multiple of. *)
LEMMA DivBound ==
  ASSUME NEW x \in Nat, NEW d \in Nat \ {0}, NEW q \in Nat, x <= q * d
  PROVE  x \div d \in 0 .. q
<1>1. x \div d \in Nat /\ d * (x \div d) <= x
  BY DivMod
<1>2. PICK k \in Nat : k = x \div d
  BY <1>1
<1>3. ASSUME k >= q + 1 PROVE FALSE
  <2>1. d * k >= d * (q + 1)
    BY <1>3
  <2>2. d * (q + 1) = q * d + d
    OBVIOUS
  <2> QED
    BY <1>1, <1>2, <2>1, <2>2
<1> QED
  BY <1>2, <1>3

(* The only multiples of n strictly between -n and 2n are 0 and n. *)
LEMMA MultipleOf ==
  ASSUME NEW n \in Nat \ {0}, NEW k \in Int
  PROVE  /\ -n < n * k /\ n * k < n => k = 0
         /\ 0 < n * k /\ n * k < 2 * n => k = 1
         /\ -(2 * n) < n * k /\ n * k < 0 => k = -1
<1>1. k >= 1 => n * k >= n
  OBVIOUS
<1>2. k >= 2 => n * k >= 2 * n
  OBVIOUS
<1>3. k <= -1 => n * k <= -n
  OBVIOUS
<1>4. k <= -2 => n * k <= -(2 * n)
  OBVIOUS
<1>5. k = 0 => n * k = 0
  OBVIOUS
<1> QED
  BY <1>1, <1>2, <1>3, <1>4, <1>5

-----------------------------------------------------------------------------
(* The shaft and the bytes of its readings *)

Shaft == [turn : Int, raw : 0 .. N - 1]

(* Turning the shaft by d counts adds d to its angle. *)
LEMMA AngleTurned ==
  ASSUME NEW s \in Shaft, NEW d \in -Step .. Step
  PROVE  /\ Turned(s, d) \in Shaft
         /\ Angle(Turned(s, d)) = Angle(s) + d
         /\ Angle(s) \in Int
<1>1. PICK t \in Int, r \in 0 .. N - 1 : s = [turn |-> t, raw |-> r]
  BY DEF Shaft
<1>2. N * (t + 1) = N * t + N /\ N * (t - 1) = N * t - N /\ N * t \in Int
  BY FeedbackAssumption
<1>3. CASE r + d >= N
  <2>1. Turned(s, d) = [turn |-> t + 1, raw |-> r + d - N]
    BY <1>1, <1>3 DEF Turned
  <2>2. Angle(Turned(s, d)) = N * (t + 1) + (r + d - N)
    BY <2>1 DEF Angle
  <2>3. r + d - N \in 0 .. N - 1
    BY <1>1, <1>3, FeedbackAssumption
  <2>4. Angle(s) = N * t + r
    BY <1>1 DEF Angle
  <2> QED
    BY <1>2, <2>1, <2>2, <2>3, <2>4, FeedbackAssumption DEF Shaft
<1>4. CASE r + d < 0
  <2>1. Turned(s, d) = [turn |-> t - 1, raw |-> r + d + N]
    BY <1>1, <1>4, FeedbackAssumption DEF Turned
  <2>2. Angle(Turned(s, d)) = N * (t - 1) + (r + d + N)
    BY <2>1 DEF Angle
  <2>3. r + d + N \in 0 .. N - 1
    BY <1>1, <1>4, FeedbackAssumption
  <2>4. Angle(s) = N * t + r
    BY <1>1 DEF Angle
  <2> QED
    BY <1>2, <2>1, <2>2, <2>3, <2>4, FeedbackAssumption DEF Shaft
<1>5. CASE 0 <= r + d /\ r + d < N
  <2>1. Turned(s, d) = [turn |-> t, raw |-> r + d]
    BY <1>1, <1>5, FeedbackAssumption DEF Turned
  <2> QED
    BY <1>1, <1>2, <1>5, <2>1, FeedbackAssumption DEF Shaft, Angle
<1> QED
  BY <1>1, <1>3, <1>4, <1>5, FeedbackAssumption

(* Whichever end of the scale a full turn reads as, the angle is the same. *)
LEMMA AngleRead ==
  ASSUME NEW s \in Shaft, NEW a \in Readings(s)
  PROVE  a \in Reading /\ Angle(a) = Angle(s)
<1>1. PICK t \in Int, r \in 0 .. N - 1 : s = [turn |-> t, raw |-> r]
  BY DEF Shaft
<1>2. N * (t - 1) = N * t - N /\ N * t \in Int
  BY FeedbackAssumption
<1>3. a = s \/ (r = 0 /\ a = [turn |-> t - 1, raw |-> N])
  BY <1>1 DEF Readings
<1> QED
  BY <1>1, <1>2, <1>3, FeedbackAssumption DEF Reading, Angle

(* The two data bytes of a position are put together into the position. *)
LEMMA BytesOfPosition ==
  ASSUME NEW r \in Reply, r.type = "command"
  PROVE  RawPosition(r) = r.at.raw
<1>1. r.at.raw \in Nat /\ B \in Nat \ {0}
  BY FeedbackAssumption DEF Reply, Reading
<1>2. B * (r.at.raw \div B) + (r.at.raw % B) = r.at.raw
  BY <1>1, DivMod
<1> QED
  BY <1>2 DEF RawPosition, HighByte, LowByte

(* The coarse position of a temperature packet stays on the scale. *)
LEMMA CoarsePosition ==
  ASSUME NEW r \in Reply, r.type = "query"
  PROVE  (LowByte(r) * N) \div (B - 1) \in 0 .. N
<1>1. PICK raw \in 0 .. N : raw = r.at.raw
  BY DEF Reply, Reading
<1>2. PICK b \in Nat \ {0} : b = B - 1
  BY FeedbackAssumption
<1>3. raw * b \in Nat /\ raw * b <= N * b
  BY <1>1, <1>2, FeedbackAssumption
<1>4. (raw * b) \div N \in Nat /\ N * ((raw * b) \div N) <= raw * b
  BY <1>3, DivMod, FeedbackAssumption
<1>5. PICK low \in Nat : low = (raw * b) \div N
  BY <1>4
<1>6. LowByte(r) = low
  BY <1>1, <1>2, <1>5 DEF LowByte
<1>7. low * N \in Nat /\ low * N <= N * b
  <2>1. low * N = N * low
    BY <1>5, FeedbackAssumption
  <2>2. low * N \in Nat
    BY <1>5, FeedbackAssumption
  <2>3. N * b \in Nat
    BY <1>2, FeedbackAssumption
  <2> QED
    BY <1>3, <1>4, <1>5, <2>1, <2>2, <2>3
<1>8. (low * N) \div b \in 0 .. N
  BY <1>2, <1>7, DivBound, FeedbackAssumption
<1> QED
  BY <1>2, <1>6, <1>8

-----------------------------------------------------------------------------
(* At most one reply is under way. *)

LEMMA OnlyReply ==
  ASSUME NEW S, NEW q \in Seq(S), Len(q) <= 1, q # <<>>
  PROVE  Head(q) \in S /\ Tail(q) = <<>>
OBVIOUS

LEMMA FirstReply ==
  ASSUME NEW S, NEW q \in Seq(S), Len(q) < 1, NEW r \in S
  PROVE  /\ Append(q, r) \in Seq(S) /\ Len(Append(q, r)) = 1
         /\ Append(q, r) # <<>> /\ Head(Append(q, r)) = r
         /\ q = <<>>
<1>1. Len(q) = 0 /\ q = <<>>
  OBVIOUS
<1>2. Append(q, r) \in Seq(S) /\ Len(Append(q, r)) = 1
  BY <1>1
<1>3. Append(q, r) = <<r>>
  BY <1>1
<1> QED
  BY <1>1, <1>2, <1>3

-----------------------------------------------------------------------------
(* Type correctness *)

LEMMA CycleNext ==
  ASSUME cycle \in 0 .. QueryPeriod - 1
  PROVE  (cycle + 1) % QueryPeriod
           = IF cycle + 1 = QueryPeriod THEN 0 ELSE cycle + 1
<1>1. CASE cycle + 1 = QueryPeriod
  BY <1>1, FeedbackAssumption
<1>2. CASE cycle + 1 < QueryPeriod
  BY <1>2, FeedbackAssumption
<1> QED
  BY <1>1, <1>2, FeedbackAssumption

(* What one request changes, spelled out. *)
LEMMA RequestEffect ==
  ASSUME TypeOK, MaxPending = 1, SendRequest
  PROVE  /\ replies = <<>>
         /\ cycle' = IF cycle + 1 = QueryPeriod THEN 0 ELSE cycle + 1
         /\ last_sent' = IF cycle' = 0 THEN "query" ELSE "command"
         /\ \E d \in -Step .. Step :
              shaft' \in Shaft /\ Angle(shaft') = Angle(shaft) + d
         /\ gap' = gap + 1
         /\ \/ /\ replies' \in Seq(Reply) /\ Len(replies') = 1 /\ replies' # <<>>
               /\ Head(replies').type = last_sent'
               /\ Angle(Head(replies').at) = Angle(shaft')
               /\ lost' = lost
            \/ /\ replies' = <<>>
               /\ lost' = IF last_sent' = "query" THEN lost ELSE lost + 1
               /\ last_sent' = "query" \/ lost < MaxLost
<1> USE DEF SendRequest
<1>1. replies \in Seq(Reply) /\ Len(replies) < 1
  BY DEF TypeOK
<1>2. replies = <<>>
  BY <1>1
<1>3. cycle' = IF cycle + 1 = QueryPeriod THEN 0 ELSE cycle + 1
  BY CycleNext DEF TypeOK
<1>4. RequestType = IF cycle' = 0 THEN "query" ELSE "command"
  BY DEF RequestType
<1>5. PICK d \in -Step .. Step : shaft' = Turned(shaft, d)
  OBVIOUS
<1>6. shaft' \in Shaft /\ Angle(shaft') = Angle(shaft) + d
  BY <1>5, AngleTurned DEF TypeOK, Shaft, Angle
<1>7. ASSUME NEW s \in Readings(shaft'),
             replies' = Append(replies, [type |-> RequestType, at |-> s])
      PROVE  /\ replies' \in Seq(Reply) /\ Len(replies') = 1 /\ replies' # <<>>
             /\ Head(replies').type = RequestType
             /\ Angle(Head(replies').at) = Angle(shaft')
  <2>1. s \in Reading /\ Angle(s) = N * shaft'.turn + shaft'.raw
    BY <1>6, AngleRead DEF Angle
  <2>2. RequestType \in Types
    BY <1>4 DEF Types
  <2>3. [type |-> RequestType, at |-> s] \in Reply
    BY <2>1, <2>2 DEF Reply
  <2>4. Head(replies') = [type |-> RequestType, at |-> s]
    BY <1>1, <1>7, <2>3, FirstReply
  <2>5. replies' \in Seq(Reply) /\ Len(replies') = 1 /\ replies' # <<>>
    BY <1>1, <1>7, <2>3, FirstReply
  <2> QED
    BY <2>1, <2>4, <2>5 DEF Angle
<1>8. \/ /\ replies' \in Seq(Reply) /\ Len(replies') = 1 /\ replies' # <<>>
         /\ Head(replies').type = last_sent'
         /\ Angle(Head(replies').at) = Angle(shaft')
         /\ lost' = lost
      \/ /\ replies' = <<>>
         /\ lost' = IF last_sent' = "query" THEN lost ELSE lost + 1
         /\ last_sent' = "query" \/ lost < MaxLost
  BY <1>2, <1>7
<1> QED
  BY <1>2, <1>3, <1>4, <1>5, <1>6, <1>8

(* The reply received is the only one under way. *)
LEMMA ReplyTyped ==
  ASSUME TypeOK, MaxPending = 1, replies # <<>>
  PROVE  Head(replies) \in Reply /\ Tail(replies) = <<>>
<1>1. replies \in Seq(Reply) /\ Len(replies) <= 1
  BY DEF TypeOK
<1> QED
  BY <1>1, OnlyReply

LEMMA TypePreserved ==
  ASSUME TypeOK, MaxPending = 1, [Next]_vars,
         replies # <<>> => Head(replies).type = last_sent
  PROVE  TypeOK'
<1> USE FeedbackAssumption
<1>a. <<>> \in Seq(Reply) /\ Len(<<>>) = 0
  OBVIOUS
<1>1. CASE SendRequest
  <2>1. UNCHANGED <<handlerVars, historyVars>>
    BY <1>1 DEF SendRequest
  <2>2. cycle' \in 0 .. QueryPeriod - 1 /\ last_sent' \in Types
    BY <1>1, RequestEffect DEF TypeOK, Types
  <2>3. shaft' \in [turn : Int, raw : 0 .. N - 1]
    BY <1>1, RequestEffect DEF Shaft
  <2>4. gap' \in Nat /\ lost' \in 0 .. MaxLost
    BY <1>1, RequestEffect DEF TypeOK
  <2>5. replies' \in Seq(Reply) /\ Len(replies') <= 1
    <3>1. \/ replies' \in Seq(Reply) /\ Len(replies') = 1
          \/ replies' = <<>>
      BY <1>1, RequestEffect
    <3>2. CASE replies' \in Seq(Reply) /\ Len(replies') = 1
      BY <3>2
    <3>3. CASE replies' = <<>>
      BY <1>a, <3>3
    <3> QED
      BY <3>1, <3>2, <3>3
  <2> QED
    BY <2>1, <2>2, <2>3, <2>4, <2>5 DEF TypeOK, handlerVars, historyVars
<1>2. CASE ReceivePosition
  <2>1. Head(replies) \in Reply /\ Tail(replies) = <<>>
    BY <1>2, ReplyTyped DEF ReceivePosition
  <2>2. Head(replies).type = "command"
    BY <1>2, <2>1 DEF ReceivePosition, IsTemperaturePacket, Reply, Types
  <2>3. PICK p \in 0 .. N : p = RawPosition(Head(replies))
    BY <2>1, <2>2, BytesOfPosition DEF Reply, Reading
  <2>4. /\ first_feedback' = FALSE /\ prev_raw' = p
        /\ wrap_count' \in Int /\ continuous' \in Int
    <3>1. /\ first_feedback' = FALSE /\ prev_raw' = p
          /\ wrap_count' \in {wrap_count - 1, wrap_count, wrap_count + 1}
          /\ continuous' = p + N * wrap_count'
      BY <1>2, <2>3 DEF ReceivePosition, Track
    <3>2. PICK w \in Int : w = wrap_count'
      BY <3>1 DEF TypeOK
    <3>3. p + N * w \in Int
      BY <3>2
    <3> QED
      BY <3>1, <3>2, <3>3
  <2>5. status' \in [known : BOOLEAN, position : 0 .. N, temperature : 0 .. B - 1]
    <3>1. status' = [known |-> TRUE, position |-> p,
                     temperature |-> IF status.known THEN status.temperature ELSE 0]
      BY <1>2, <2>3 DEF ReceivePosition
    <3> QED
      BY <3>1 DEF TypeOK
  <2>6. /\ sampled' \in Reading /\ origin' \in Int
        /\ replies' = <<>> /\ gap' = 0 /\ lost' = 0
        /\ UNCHANGED <<shaft, cycle, last_sent>>
    BY <1>2, <2>1 DEF ReceivePosition, TypeOK, Reply, Reading
  <2>7. replies' \in Seq(Reply) /\ Len(replies') <= MaxPending
    BY <1>a, <2>6
  <2>8. gap' \in Nat /\ lost' \in 0 .. MaxLost
    BY <2>6
  <2> QED
    BY <2>4, <2>5, <2>6, <2>7, <2>8 DEF TypeOK
<1>3. CASE ReceiveTemperature
  <2>1. Head(replies) \in Reply /\ Tail(replies) = <<>>
    BY <1>3, ReplyTyped DEF ReceiveTemperature
  <2>2. Head(replies).type = "query"
    BY <1>3 DEF ReceiveTemperature, IsTemperaturePacket
  <2>3. PICK c \in 0 .. N : c = (LowByte(Head(replies)) * N) \div (B - 1)
    BY <2>1, <2>2, CoarsePosition
  <2>4. HighByte(Head(replies)) = Temp
    BY <2>2 DEF HighByte
  <2>5. status' = [known |-> TRUE,
                   position |-> IF status.known THEN status.position ELSE c,
                   temperature |-> Temp]
    BY <1>3, <2>3, <2>4 DEF ReceiveTemperature
  <2>6. status' \in [known : BOOLEAN, position : 0 .. N, temperature : 0 .. B - 1]
    BY <2>5 DEF TypeOK
  <2> QED
    BY <1>3, <2>1, <2>6 DEF ReceiveTemperature, TypeOK, historyVars
<1>4. CASE UNCHANGED vars
  BY <1>4 DEF vars, handlerVars, historyVars, TypeOK
<1> QED
  BY <1>1, <1>2, <1>3, <1>4 DEF Next

-----------------------------------------------------------------------------
(* The status.  That no answer is later than its cycle is all it needs.    *)

Answered == replies # <<>> => Head(replies).type = last_sent

Shown == ~first_feedback => status.known /\ status.position = sampled.raw

Temperate == status.temperature \in {0, Temp}

StatusInv == TypeOK /\ Answered /\ Shown /\ Temperate

LEMMA StatusInvInit == Init => StatusInv
<1> SUFFICES ASSUME Init PROVE StatusInv
  OBVIOUS
<1> USE FeedbackAssumption
<1>1. TypeOK
  BY DEF Init, TypeOK, Reading, Types
<1> QED
  BY <1>1 DEF Init, StatusInv, Answered, Shown, Temperate

LEMMA StatusInvNext == MaxPending = 1 /\ StatusInv /\ [Next]_vars => StatusInv'
<1> SUFFICES ASSUME MaxPending = 1, StatusInv, [Next]_vars PROVE StatusInv'
  OBVIOUS
<1>0. TypeOK /\ TypeOK'
  BY TypePreserved DEF StatusInv, Answered
<1>1. CASE SendRequest
  <2>1. UNCHANGED <<first_feedback, status, sampled>>
    BY <1>1 DEF SendRequest, handlerVars, historyVars
  <2>2. Answered'
    BY <1>0, <1>1, RequestEffect DEF Answered
  <2> QED
    BY <1>0, <2>1, <2>2 DEF StatusInv, Shown, Temperate
<1>2. CASE ReceivePosition
  <2>1. Head(replies) \in Reply /\ replies' = <<>>
    BY <1>0, <1>2, ReplyTyped DEF ReceivePosition
  <2>2. Head(replies).type = "command"
    BY <1>2, <2>1 DEF ReceivePosition, IsTemperaturePacket, StatusInv, Answered, Reply, Types
  <2>3. RawPosition(Head(replies)) = Head(replies).at.raw
    BY <2>1, <2>2, BytesOfPosition
  <2>4. status'.known /\ status'.position = sampled'.raw /\ Temperate'
    BY <1>2, <2>3 DEF ReceivePosition, StatusInv, Temperate
  <2> QED
    BY <1>0, <2>1, <2>4 DEF StatusInv, Answered, Shown
<1>3. CASE ReceiveTemperature
  <2>1. Head(replies).type = "query" /\ replies' = <<>>
    BY <1>0, <1>3, ReplyTyped
       DEF StatusInv, Answered, ReceiveTemperature, IsTemperaturePacket
  <2>2. UNCHANGED <<first_feedback, sampled>>
    BY <1>3 DEF ReceiveTemperature, historyVars
  <2>3. /\ status'.known /\ status'.temperature = Temp
        /\ status.known => status'.position = status.position
    BY <1>3, <2>1 DEF ReceiveTemperature, HighByte
  <2> QED
    BY <1>0, <2>1, <2>2, <2>3 DEF StatusInv, Answered, Shown, Temperate
<1>4. CASE UNCHANGED vars
  BY <1>0, <1>4 DEF vars, handlerVars, historyVars, StatusInv, Answered, Shown, Temperate
<1> QED
  BY <1>1, <1>2, <1>3, <1>4 DEF Next

LEMMA StatusInvAlways == MaxPending = 1 => (Spec => []StatusInv)
<1> SUFFICES ASSUME MaxPending = 1 PROVE Spec => []StatusInv
  OBVIOUS
<1>1. StatusInv /\ [Next]_vars => StatusInv'
  BY StatusInvNext
<1> QED
  BY <1>1, StatusInvInit, PTL DEF Spec

(* Every variable of the way of the replies keeps its type: the position   *)
(* stays on the scale of one turn, the temperature in one byte.            *)
THEOREM FeedbackTyped == MaxPending = 1 => (Spec => []TypeOK)
<1> SUFFICES ASSUME MaxPending = 1 PROVE Spec => []TypeOK
  OBVIOUS
<1>1. StatusInv => TypeOK
  BY DEF StatusInv
<1> QED
  BY <1>1, StatusInvAlways, PTL

(* process_feedback_packet never takes a position for a temperature or the *)
(* reverse, and the status keeps the position the joint angle comes from,  *)
(* as long as no answer is later than its cycle: whatever the speed of the *)
(* shaft, and however many answers are lost.                               *)
THEOREM StatusFollowsMotor == MaxPending = 1 => (Spec => []StatusTruthful)
<1> SUFFICES ASSUME MaxPending = 1 PROVE Spec => []StatusTruthful
  OBVIOUS
<1>1. StatusInv => StatusTruthful
  BY DEF StatusInv, Shown, Temperate, StatusTruthful
<1> QED
  BY <1>1, StatusInvAlways, PTL

-----------------------------------------------------------------------------
(* The strengthening.  A reply under way shows where the shaft still is.   *)
Fresh == replies # <<>> => Angle(Head(replies).at) = Angle(shaft)

(* Of the cycles since the last position at most one asked for the         *)
(* temperature, one may have its answer under way, the others lost theirs. *)
Asked  == IF cycle < gap THEN 1 ELSE 0
Coming == IF replies # <<>> /\ last_sent = "command" THEN 1 ELSE 0
Explained == gap <= lost + Asked + Coming

(* The shaft turns by at most Step in each of them. *)
Near ==
  /\ Angle(shaft) - Angle(sampled) <= Step * gap
  /\ Angle(sampled) - Angle(shaft) <= Step * gap

(* The handler's state says the same as the history. *)
Tracked ==
  /\ first_feedback => wrap_count = 0
  /\ ~first_feedback => /\ prev_raw = sampled.raw
                        /\ wrap_count = sampled.turn - origin
                        /\ continuous = sampled.raw + N * wrap_count

FeedbackInv == StatusInv /\ Fresh /\ Explained /\ Near /\ Tracked

LEMMA InvInit == Timely /\ Init => FeedbackInv
<1> SUFFICES ASSUME Timely, Init PROVE FeedbackInv
  OBVIOUS
<1> USE FeedbackAssumption
<1>1. shaft \in Shaft
  BY DEF Init, Shaft
<1>3. Angle(shaft) \in Int /\ sampled = shaft
  BY <1>1 DEF Init, Shaft, Angle
<1>4. Near
  <2>1. Step * gap = 0
    BY DEF Init
  <2> QED
    BY <1>3, <2>1 DEF Near
<1>5. Fresh /\ Explained /\ Tracked
  BY DEF Init, Fresh, Explained, Asked, Coming, Tracked
<1> QED
  BY <1>4, <1>5, StatusInvInit DEF FeedbackInv

LEMMA SendKeeps ==
  ASSUME Timely, FeedbackInv, SendRequest
  PROVE  (Fresh /\ Explained /\ Near /\ Tracked)'
<1> USE FeedbackAssumption
<1>1. PICK d \in -Step .. Step : shaft' \in Shaft /\ Angle(shaft') = Angle(shaft) + d
  BY RequestEffect DEF FeedbackInv, StatusInv, Timely
<1>2. UNCHANGED <<handlerVars, historyVars>>
  BY DEF SendRequest
<1>3. Fresh'
  BY RequestEffect DEF FeedbackInv, StatusInv, Timely, Fresh
<1>4. Explained'
  <2>1. cycle \in 0 .. QueryPeriod - 1 /\ gap \in Nat /\ lost \in 0 .. MaxLost
    BY DEF FeedbackInv, StatusInv, TypeOK
  <2>2. gap <= lost + (IF cycle < gap THEN 1 ELSE 0)
    BY <2>1, RequestEffect DEF FeedbackInv, StatusInv, Timely, Explained, Asked, Coming
  <2>3. MaxLost + 2 <= QueryPeriod
    BY DEF Timely
  <2>4. /\ cycle' = IF cycle + 1 = QueryPeriod THEN 0 ELSE cycle + 1
        /\ gap' = gap + 1
        /\ last_sent' = IF cycle' = 0 THEN "query" ELSE "command"
        /\ \/ replies' # <<>> /\ lost' = lost
           \/ lost' = IF last_sent' = "query" THEN lost ELSE lost + 1
    BY RequestEffect DEF FeedbackInv, StatusInv, Timely
  <2>5. CASE cycle + 1 = QueryPeriod
    <3>1. gap <= lost
      BY <2>1, <2>2, <2>3, <2>5
    <3>2. cycle' = 0 /\ gap' = gap + 1 /\ lost' = lost
      BY <2>4, <2>5
    <3> QED
      BY <2>1, <3>1, <3>2 DEF Explained, Asked, Coming
  <2>6. CASE cycle + 1 # QueryPeriod
    <3>1. cycle' = cycle + 1 /\ gap' = gap + 1 /\ last_sent' = "command"
      BY <2>1, <2>4, <2>6
    <3>2. CASE replies' # <<>> /\ lost' = lost
      BY <2>1, <2>2, <3>1, <3>2 DEF Explained, Asked, Coming
    <3>3. CASE lost' = lost + 1
      BY <2>1, <2>2, <3>1, <3>3 DEF Explained, Asked, Coming
    <3> QED
      BY <2>4, <3>1, <3>2, <3>3
  <2> QED
    BY <2>5, <2>6
<1>5. Near'
  <2>1. sampled' = sampled /\ gap' = gap + 1 /\ gap \in Nat
    BY <1>2 DEF historyVars, SendRequest, FeedbackInv, StatusInv, TypeOK
  <2>2. Step * (gap + 1) = Step * gap + Step /\ Step * gap \in Int
    BY <2>1
  <2>3. Angle(shaft) \in Int /\ Angle(sampled) \in Int
    BY DEF FeedbackInv, StatusInv, TypeOK, Reading, Angle
  <2>4. Angle(sampled)' = Angle(sampled) /\ Angle(shaft)' = Angle(shaft')
    BY <2>1 DEF Angle
  <2>5. Near
    BY DEF FeedbackInv, StatusInv
  <2>6. Angle(shaft)' = Angle(shaft) + d
    BY <1>1, <2>4
  <2> QED
    BY <2>1, <2>2, <2>3, <2>4, <2>5, <2>6 DEF Near
<1>6. Tracked'
  BY <1>2 DEF FeedbackInv, Tracked, handlerVars, historyVars
<1> QED
  BY <1>3, <1>4, <1>5, <1>6

(* The heart of the matter: a position less than half a turn away from the *)
(* one before has crossed the end of the scale exactly when the readings   *)
(* differ by more than half a turn, and in the direction they tell.        *)
LEMMA HalfTurnDecides ==
  ASSUME NEW k \in Int, NEW diff \in -N .. N,
         2 * (N * k + diff) < N, -N < 2 * (N * k + diff)
  PROVE  /\ 2 * diff < -N => k = 1
         /\ 2 * diff > N => k = -1
         /\ ~(2 * diff < -N) /\ ~(2 * diff > N) => k = 0
<1>1. PICK m \in Int : m = N * k
  BY FeedbackAssumption
<1>2. 2 * (m + diff) < N /\ -N < 2 * (m + diff)
  BY <1>1
<1>3. 2 * diff < -N => 0 < m /\ m < 2 * N
  BY <1>2, FeedbackAssumption
<1>4. 2 * diff > N => -(2 * N) < m /\ m < 0
  BY <1>2, FeedbackAssumption
<1>5. ~(2 * diff < -N) /\ ~(2 * diff > N) => -N < m /\ m < N
  BY <1>2, FeedbackAssumption
<1> QED
  BY <1>1, <1>3, <1>4, <1>5, MultipleOf, FeedbackAssumption

LEMMA PositionKeeps ==
  ASSUME Timely, FeedbackInv, ReceivePosition
  PROVE  (Fresh /\ Explained /\ Near /\ Tracked)'
<1> USE FeedbackAssumption
<1>1. PICK at \in Reading : at = Head(replies).at /\ Angle(at) = Angle(shaft)
                          /\ RawPosition(Head(replies)) = at.raw
  <2>1. Head(replies) \in Reply /\ last_sent \in Types
    BY ReplyTyped DEF FeedbackInv, StatusInv, Timely, TypeOK, ReceivePosition
  <2>2. Head(replies).type = "command" /\ Angle(Head(replies).at) = Angle(shaft)
    BY <2>1 DEF ReceivePosition, IsTemperaturePacket, FeedbackInv, StatusInv, Answered,
       Fresh, Types
  <2>3. RawPosition(Head(replies)) = Head(replies).at.raw
    BY <2>1, <2>2, BytesOfPosition
  <2> QED
    BY <2>1, <2>2, <2>3 DEF Reply
<1>2. replies' = <<>>
  BY ReplyTyped DEF FeedbackInv, StatusInv, Timely, ReceivePosition
<1>3. Fresh'
  BY <1>2 DEF Fresh
<1>4. Explained'
  <2>1. gap' = 0 /\ lost' = 0 /\ cycle' \in Int
    BY DEF ReceivePosition, FeedbackInv, StatusInv, TypeOK
  <2> QED
    BY <1>2, <2>1 DEF Explained, Asked, Coming
<1>5. sampled' = at /\ shaft' = shaft /\ gap' = 0
  BY <1>1 DEF ReceivePosition
<1>6. Near'
  <2>1. Angle(sampled)' = Angle(at) /\ Angle(shaft)' = Angle(shaft)
    BY <1>5 DEF Angle
  <2>2. Angle(at) \in Int /\ Step * 0 = 0
    BY DEF Reading, Angle
  <2> QED
    BY <1>1, <1>5, <2>1, <2>2 DEF Near
<1>7. Tracked'
  <2>1. /\ first_feedback' = FALSE
        /\ status'.known /\ status'.position = at.raw
        /\ prev_raw' = at.raw
        /\ continuous' = at.raw + N * wrap_count'
        /\ origin' = IF first_feedback THEN at.turn ELSE origin
    BY <1>1 DEF ReceivePosition, Track
  <2>2. CASE first_feedback
    <3>1. wrap_count' = 0
      BY <1>1, <2>2 DEF ReceivePosition, Track, FeedbackInv, StatusInv, Tracked, Reading
    <3>2. at.turn - at.turn = 0
      BY DEF Reading
    <3> QED
      BY <1>5, <2>1, <2>2, <3>1, <3>2 DEF Tracked
  <2>3. CASE ~first_feedback
    <3>1. PICK r0 \in 0 .. N, t0 \in Int :
            /\ prev_raw = r0 /\ sampled.raw = r0 /\ sampled.turn = t0
            /\ wrap_count = t0 - origin
      BY <2>3 DEF FeedbackInv, StatusInv, TypeOK, Tracked, Reading
    <3>2. PICK k \in Int, diff \in -N .. N : k = at.turn - t0 /\ diff = at.raw - r0
      BY <3>1 DEF Reading
    <3>3. 2 * (N * k + diff) < N /\ -N < 2 * (N * k + diff)
      <4>1. Angle(at) - Angle(sampled) = N * k + diff
        <5>1. Angle(at) = N * at.turn + at.raw /\ Angle(sampled) = N * t0 + r0
          BY <3>1 DEF Angle
        <5>2. N * k = N * at.turn - N * t0
          BY <3>1, <3>2 DEF Reading
        <5> QED
          BY <3>1, <3>2, <5>1, <5>2 DEF Reading
      <4>2. gap \in Nat /\ gap <= MaxLost + 2
        BY DEF FeedbackInv, StatusInv, TypeOK, Explained, Asked, Coming
      <4>3. Step * gap <= Step * (MaxLost + 2) /\ Step * gap \in Int
        BY <4>2
      <4>4. 2 * (Step * (MaxLost + 2)) < N /\ Step * (MaxLost + 2) \in Int
        BY DEF Timely
      <4>5. /\ Angle(at) \in Int /\ Angle(sampled) \in Int
            /\ Angle(at) - Angle(sampled) <= Step * gap
            /\ Angle(sampled) - Angle(at) <= Step * gap
        <5>1. Angle(at) \in Int /\ Angle(sampled) \in Int
          BY DEF FeedbackInv, StatusInv, TypeOK, Reading, Angle
        <5> QED
          BY <1>1, <5>1 DEF FeedbackInv, Near
      <4> QED
        BY <4>1, <4>3, <4>4, <4>5
    <3>4. wrap_count' = wrap_count + k
      <4>1. wrap_count' = IF 2 * diff < -N THEN wrap_count + 1
                          ELSE IF 2 * diff > N THEN wrap_count - 1
                          ELSE wrap_count
        BY <1>1, <2>3, <3>1, <3>2 DEF ReceivePosition, Track
      <4>2. wrap_count \in Int
        BY DEF FeedbackInv, StatusInv, TypeOK
      <4> QED
        BY <3>2, <3>3, <4>1, <4>2, HalfTurnDecides
    <3>5. wrap_count' = at.turn - origin'
      <4>1. origin' = origin
        BY <2>1, <2>3
      <4>2. PICK o \in Int : o = origin
        BY DEF FeedbackInv, StatusInv, TypeOK
      <4>3. PICK a \in Int : a = at.turn
        BY DEF Reading
      <4>4. wrap_count' = (t0 - o) + (a - t0)
        BY <3>1, <3>2, <3>4, <4>2, <4>3
      <4> QED
        BY <3>1, <4>1, <4>2, <4>3, <4>4
    <3> QED
      BY <1>5, <2>1, <3>5 DEF Tracked
  <2> QED
    BY <2>2, <2>3
<1> QED
  BY <1>3, <1>4, <1>6, <1>7

LEMMA TemperatureKeeps ==
  ASSUME Timely, FeedbackInv, ReceiveTemperature
  PROVE  (Fresh /\ Explained /\ Near /\ Tracked)'
<1>1. Head(replies).type = "query" /\ replies' = <<>>
  BY ReplyTyped
     DEF FeedbackInv, StatusInv, Answered, Timely, ReceiveTemperature, IsTemperaturePacket
<1>2. /\ UNCHANGED <<shaft, cycle, last_sent, first_feedback, prev_raw,
                     wrap_count, continuous, sampled, origin, gap, lost>>
      /\ last_sent = "query"
  BY DEF ReceiveTemperature, IsTemperaturePacket, historyVars
<1>3. Fresh' /\ Tracked'
  BY <1>1, <1>2 DEF FeedbackInv, Fresh, Tracked
<1>4. Near'
  <2>1. Angle(shaft)' = Angle(shaft) /\ Angle(sampled)' = Angle(sampled)
    BY <1>2 DEF Angle
  <2> QED
    BY <1>2, <2>1 DEF FeedbackInv, Near
<1>5. Explained'
  BY <1>1, <1>2 DEF FeedbackInv, StatusInv, TypeOK, Explained, Asked, Coming
<1> QED
  BY <1>3, <1>4, <1>5

LEMMA InvNext == Timely /\ FeedbackInv /\ [Next]_vars => FeedbackInv'
<1> SUFFICES ASSUME Timely, FeedbackInv, [Next]_vars PROVE FeedbackInv'
  OBVIOUS
<1>1. StatusInv /\ StatusInv'
  BY StatusInvNext DEF FeedbackInv, Timely
<1>2. CASE SendRequest
  BY <1>1, <1>2, SendKeeps DEF FeedbackInv
<1>3. CASE ReceivePosition
  BY <1>1, <1>3, PositionKeeps DEF FeedbackInv
<1>4. CASE ReceiveTemperature
  BY <1>1, <1>4, TemperatureKeeps DEF FeedbackInv
<1>5. CASE UNCHANGED vars
  <2>1. UNCHANGED <<shaft, cycle, last_sent, replies, first_feedback, prev_raw,
                    wrap_count, continuous, status, sampled, origin, gap, lost>>
    BY <1>5 DEF vars, handlerVars, historyVars
  <2>2. Fresh' /\ Explained' /\ Tracked'
    BY <2>1 DEF FeedbackInv, Fresh, Explained, Asked, Coming, Tracked,
       Angle
  <2>3. Near'
    BY <2>1 DEF FeedbackInv, Near, Angle
  <2> QED
    BY <1>1, <2>2, <2>3 DEF FeedbackInv
<1> QED
  BY <1>2, <1>3, <1>4, <1>5 DEF Next

LEMMA InvAlways == Timely => (Spec => []FeedbackInv)
<1> SUFFICES ASSUME Timely PROVE Spec => []FeedbackInv
  OBVIOUS
<1>1. Init => FeedbackInv
  BY InvInit
<1>2. FeedbackInv /\ [Next]_vars => FeedbackInv'
  BY InvNext
<1> QED
  BY <1>1, <1>2, PTL DEF Spec

-----------------------------------------------------------------------------
(* The angle *)

(* process_feedback never gains or loses a turn, whatever the resolution,  *)
(* the query period and the number of answers lost, provided that answers  *)
(* are timely and less than half a turn apart.                             *)
THEOREM NoTurnLost == Timely => (Spec => []Exact)
<1> SUFFICES ASSUME Timely PROVE Spec => []Exact
  OBVIOUS
<1>1. FeedbackInv => Exact
  <2> SUFFICES ASSUME FeedbackInv, ~first_feedback
               PROVE  JointPosition = Angle(sampled) - N * origin
    BY DEF Exact
  <2>1. JointPosition = sampled.raw + N * (sampled.turn - origin)
    BY DEF FeedbackInv, StatusInv, Shown, Tracked, JointPosition
  <2>2. sampled.raw \in Int /\ sampled.turn \in Int /\ origin \in Int /\ N \in Int
    BY FeedbackAssumption DEF FeedbackInv, StatusInv, TypeOK, Reading
  <2>3. N * (sampled.turn - origin) = N * sampled.turn - N * origin
    BY <2>2
  <2> QED
    BY <2>1, <2>2, <2>3 DEF Angle
<1> QED
  BY <1>1, InvAlways, PTL
=============================================================================
