------------------------- MODULE FrameParserProofs -------------------------
(***************************************************************************)
(* Proofs about FrameParser: the buffer is always the unread end of the    *)
(* bytes received, so what the parser does with its windows is what a      *)
(* search of the whole line does (FrameSearch), and it misses nothing.     *)
(* Nothing is used of the checksum but that it is a function of the bytes. *)
(***************************************************************************)
EXTENDS FrameParser, SequenceTheorems, TLAPS

-----------------------------------------------------------------------------
(* Windows of sequences of bytes *)

(* The bytes between two positions *)
LEMMA SliceType ==
  ASSUME NEW s \in Seq(Byte), NEW m \in Nat, NEW n \in 0 .. Len(s), m <= n
  PROVE  /\ SubSeq(s, m + 1, n) \in Seq(Byte)
         /\ Len(SubSeq(s, m + 1, n)) = n - m
<1>1. \A i \in m + 1 .. n : s[i] \in Byte
  OBVIOUS
<1> QED
  BY <1>1, SubSeqProperties

(* A slice of a slice is a slice, also where it is empty *)
LEMMA SliceOfSlice ==
  ASSUME NEW s \in Seq(Byte), NEW b \in Nat, NEW n \in 0 .. Len(s), b <= n,
         NEW p \in Nat, NEW q \in 0 .. n - b, p <= q
  PROVE  SubSeq(SubSeq(s, b + 1, n), p + 1, q) = SubSeq(s, b + p + 1, b + q)
<1>1. CASE p = q
  BY <1>1, SubSeqEmpty
<1>2. CASE p < q
  <2>1. /\ b + 1 \in 1 .. Len(s) /\ n \in 1 .. Len(s)
        /\ p + 1 \in 1 .. n - (b + 1) + 1 /\ q \in 1 .. n - (b + 1) + 1
    BY <1>2
  <2>2. SubSeq(SubSeq(s, b + 1, n), p + 1, q)
          = SubSeq(s, (b + 1) + (p + 1) - 1, (b + 1) + q - 1)
    BY <2>1, SubSeqOfSubSeq
  <2> QED
    BY <2>2
<1> QED
  BY <1>1, <1>2

(* More bytes behind a slice leave it as it is *)
LEMMA SliceStable ==
  ASSUME NEW s \in Seq(Byte), NEW t \in Seq(Byte),
         NEW m \in Nat, NEW n \in 0 .. Len(s), m <= n
  PROVE  SubSeq(s \o t, m + 1, n) = SubSeq(s, m + 1, n)
<1>1. CASE m = n
  BY <1>1, SubSeqEmpty
<1>2. CASE m < n
  <2>1. m + 1 \in 1 .. Len(s) /\ n \in 1 .. Len(s)
    BY <1>2
  <2> QED
    BY <2>1, SubSeqOfConcat1
<1> QED
  BY <1>1, <1>2

-----------------------------------------------------------------------------
(* The invariant *)

(* Where pos may be: the window before it, if any, fits into the buffer.   *)
PosInBuffer ==
  /\ pc = "idle" => pos = 0
  /\ pc = "scan" => pos + Length <= Len(buffer) + 1

ParserInv == TypeOK /\ PosInBuffer /\ BufferIsRest

LEMMA ParserInvInit == Init => ParserInv
<1>1. <<>> \in Seq(Byte) /\ <<>> \in Seq(Nat) /\ Len(<<>>) = 0
  OBVIOUS
<1>2. SubSeq(<<>>, 1, 0) = <<>>
  BY SubSeqEmpty
<1> QED
  BY <1>1, <1>2, ParserAssumption
     DEF Init, ParserInv, TypeOK, PosInBuffer, BufferIsRest, Length

(* What has been received is a slice of the line, and so is the buffer.    *)
LEMMA Received ==
  ASSUME ParserInv
  PROVE  /\ base \in Nat /\ received \in Nat /\ base <= received
         /\ received <= Len(stream) /\ stream \in Seq(Byte)
         /\ buffer = SubSeq(stream, base + 1, received)
         /\ Len(buffer) = received - base
<1>1. /\ base \in Nat /\ received \in 0 .. Len(stream) /\ base <= received
      /\ stream \in Seq(Byte) /\ buffer = SubSeq(stream, base + 1, received)
  BY DEF ParserInv, TypeOK, BufferIsRest
<1>2. Len(buffer) = received - base
  BY <1>1, SliceType
<1> QED
  BY <1>1, <1>2

(* Slices of the buffer are slices of the line. *)
LEMMA SliceOfBuffer ==
  ASSUME ParserInv, NEW p \in Nat, NEW q \in 0 .. Len(buffer), p <= q
  PROVE  /\ SubSeq(buffer, p + 1, q) = SubSeq(stream, base + p + 1, base + q)
         /\ base + p \in Nat /\ base + q \in 0 .. received
<1> DEFINE s == stream  b == base  n == received
<1>1. /\ s \in Seq(Byte) /\ b \in Nat /\ n \in 0 .. Len(s) /\ b <= n
      /\ q \in 0 .. n - b /\ buffer = SubSeq(s, b + 1, n)
  BY Received
<1> HIDE DEF s, b, n
<1>2. SubSeq(SubSeq(s, b + 1, n), p + 1, q) = SubSeq(s, b + p + 1, b + q)
  BY <1>1, SliceOfSlice
<1>3. b + p \in Nat /\ b + q \in 0 .. n
  BY <1>1
<1> QED
  BY <1>1, <1>2, <1>3 DEF s, b, n

(* The window under test is the window of the line at the frontier. *)
LEMMA WindowOfLine ==
  ASSUME ParserInv, pos + Length <= Len(buffer)
  PROVE  /\ WindowAt(buffer, pos) = WindowAt(stream, Frontier)
         /\ Frontier \in Nat /\ Frontier + Length <= received
<1>1. pos \in Nat /\ pos + 10 \in 0 .. Len(buffer) /\ pos <= pos + 10
  BY Received DEF ParserInv, TypeOK, Length
<1>2. /\ SubSeq(buffer, pos + 1, pos + 10) = SubSeq(stream, base + pos + 1, base + (pos + 10))
      /\ base + pos \in Nat /\ base + (pos + 10) \in 0 .. received
  BY <1>1, SliceOfBuffer
<1>3. base + (pos + 10) = base + pos + 10
  BY <1>1, Received
<1>4. SubSeq(buffer, pos + 1, pos + 10) = SubSeq(stream, base + pos + 1, base + pos + 10)
  BY <1>2, <1>3
<1>5. WindowAt(buffer, pos) = WindowAt(stream, Frontier)
  BY <1>4 DEF WindowAt, Frontier, Length
<1>6. Frontier \in Nat /\ Frontier + Length <= received
  BY <1>2, <1>3, Received DEF Frontier, Length
<1> QED
  BY <1>5, <1>6

(* Erasing bytes from the front *)
LEMMA Erased ==
  ASSUME ParserInv, NEW k \in Nat, k <= Len(buffer)
  PROVE  /\ SubSeq(buffer, k + 1, Len(buffer)) = SubSeq(stream, base + k + 1, received)
         /\ SubSeq(buffer, k + 1, Len(buffer)) \in Seq(Byte)
         /\ Len(SubSeq(buffer, k + 1, Len(buffer))) = received - (base + k)
<1>1. /\ Len(buffer) \in 0 .. Len(buffer) /\ base + Len(buffer) = received
      /\ received \in 0 .. Len(stream) /\ base + k <= received
  BY Received
<1>2. /\ SubSeq(buffer, k + 1, Len(buffer)) = SubSeq(stream, base + k + 1, received)
      /\ base + k \in Nat
  BY <1>1, SliceOfBuffer
<1>3. stream \in Seq(Byte)
  BY Received
<1>4. /\ SubSeq(stream, base + k + 1, received) \in Seq(Byte)
      /\ Len(SubSeq(stream, base + k + 1, received)) = received - (base + k)
  BY <1>1, <1>2, <1>3, SliceType
<1> QED
  BY <1>2, <1>4

(* What the line gains, it gains at its end. *)
LEMMA LineGrows ==
  ASSUME TypeOK, NEW piece \in Seq(Byte), stream' = stream \o piece
  PROVE  /\ stream' \in Seq(Byte) /\ Len(stream') >= Len(stream)
         /\ \A m \in Nat, n \in 0 .. Len(stream) :
              m <= n => SubSeq(stream', m + 1, n) = SubSeq(stream, m + 1, n)
<1>1. stream \in Seq(Byte)
  BY DEF TypeOK
<1> QED
  BY <1>1, ConcatProperties, SliceStable

LEMMA SendIsPiece ==
  ASSUME SendFrame \/ SendScrap
  PROVE  /\ \E piece \in Seq(Byte) : stream' = stream \o piece
         /\ pieces < MaxPieces /\ pieces' = pieces + 1
         /\ intact' = intact \cup {Len(stream)} \/ intact' = intact
         /\ UNCHANGED <<parserVars, idVars>>
<1>1. \A f \in Frames : f \in Seq(Byte)
  <2>1. [1 .. 10 -> Byte] \subseteq Seq(Byte)
    BY 10 \in Nat, SeqDef
  <2> QED
    BY <2>1, ParserAssumption DEF Length
<1> QED
  BY <1>1, ParserAssumption DEF SendFrame, SendScrap
-----------------------------------------------------------------------------
(* Every step keeps the invariant *)

LEMMA SendKeepsInv ==
  ASSUME ParserInv, SendFrame \/ SendScrap
  PROVE  ParserInv'
<1>1. PICK piece \in Seq(Byte) : stream' = stream \o piece
  BY SendIsPiece
<1>2. /\ stream' \in Seq(Byte) /\ Len(stream') >= Len(stream)
      /\ \A m \in Nat, n \in 0 .. Len(stream) :
           m <= n => SubSeq(stream', m + 1, n) = SubSeq(stream, m + 1, n)
  BY <1>1, LineGrows DEF ParserInv
<1>3. /\ buffer' = buffer /\ pos' = pos /\ pc' = pc /\ received' = received
      /\ base' = base /\ delivered' = delivered
      /\ registered_motor_ids' = registered_motor_ids /\ calls' = calls
      /\ settled' = settled
  BY SendIsPiece DEF parserVars, idVars
<1>4. TypeOK'
  <2>1. Len(stream) \in Nat /\ Len(stream') \in Nat /\ received' \in 0 .. Len(stream')
    BY <1>2, <1>3, Received
  <2>2. pieces' \in 0 .. MaxPieces
    <3>1. /\ pieces \in 0 .. MaxPieces /\ MaxPieces \in Nat
          /\ pieces < MaxPieces /\ pieces' = pieces + 1
      BY SendIsPiece, ParserAssumption DEF ParserInv, TypeOK
    <3> QED
      BY <3>1
  <2>3. intact' \subseteq Nat
    <3>1. intact \subseteq Nat /\ (intact' = intact \cup {Len(stream)} \/ intact' = intact)
      BY SendIsPiece DEF ParserInv, TypeOK
    <3> QED
      BY <2>1, <3>1
  <2> QED
    BY <1>2, <1>3, <2>1, <2>2, <2>3 DEF ParserInv, TypeOK
<1>5. BufferIsRest'
  <2>1. base \in Nat /\ received \in 0 .. Len(stream) /\ base <= received
    BY Received
  <2>2. SubSeq(stream', base + 1, received) = SubSeq(stream, base + 1, received)
    BY <1>2, <2>1
  <2> QED
    BY <1>3, <2>2 DEF ParserInv, BufferIsRest
<1> QED
  BY <1>3, <1>4, <1>5 DEF ParserInv, PosInBuffer

LEMMA ReadKeepsInv ==
  ASSUME ParserInv, Read
  PROVE  ParserInv'
<1>1. PICK l \in Nat :
        /\ received <= l /\ l <= Len(stream)
        /\ buffer' = buffer \o SubSeq(stream, received + 1, l)
        /\ received' = l
  <2>1. PICK n \in 1 .. Len(stream) - received :
          /\ buffer' = buffer \o SubSeq(stream, received + 1, received + n)
          /\ received' = received + n
    BY DEF Read
  <2>2. /\ received + n \in Nat /\ received <= received + n
        /\ received + n <= Len(stream)
    BY Received
  <2> QED
    BY <2>1, <2>2
<1>2. /\ base' = base /\ delivered' = delivered /\ pos' = 0 /\ pc' = LoopTest(buffer')
      /\ stream' = stream /\ pieces' = pieces /\ intact' = intact
      /\ registered_motor_ids' = registered_motor_ids /\ calls' = calls
      /\ settled' = settled
  BY DEF Read, lineVars, idVars
<1>3. /\ base \in Nat /\ received \in Nat /\ base <= received
      /\ Len(stream) \in Nat /\ stream \in Seq(Byte)
      /\ buffer = SubSeq(stream, base + 1, received)
  BY Received
<1>4. buffer' = SubSeq(stream, base + 1, l)
  <2> DEFINE s == stream  m == base + 1  k == received
  <2>1. s \in Seq(Byte) /\ m \in 1 .. Len(s) + 1 /\ k \in m - 1 .. Len(s) /\ l \in k .. Len(s)
    BY <1>1, <1>3
  <2>2. buffer' = SubSeq(s, m, k) \o SubSeq(s, k + 1, l)
    BY <1>1, <1>3
  <2> HIDE DEF s, m, k
  <2>3. SubSeq(s, m, k) \o SubSeq(s, k + 1, l) = SubSeq(s, m, l)
    BY <2>1, ConcatAdjacentSubSeq
  <2> QED
    BY <2>2, <2>3 DEF s, m, k
<1>5. buffer' \in Seq(Byte) /\ Len(buffer') = l - base
  <2>1. base <= l /\ l \in 0 .. Len(stream)
    BY <1>1, <1>3
  <2>2. /\ SubSeq(stream, base + 1, l) \in Seq(Byte)
        /\ Len(SubSeq(stream, base + 1, l)) = l - base
    BY <1>3, <2>1, SliceType
  <2> QED
    BY <1>4, <2>2
<1>6. PosInBuffer'
  BY <1>1, <1>2, <1>3, <1>5 DEF PosInBuffer, LoopTest, Length
<1>7. BufferIsRest'
  <2>1. buffer' = SubSeq(stream', base' + 1, received')
    BY <1>1, <1>2, <1>4
  <2>2. Len(buffer') \in Int /\ (pc' = "idle" => ~ Len(buffer') >= 10)
    BY <1>1, <1>2, <1>3, <1>5 DEF LoopTest, Length
  <2>3. pc' = "idle" => Len(buffer') < Length
    BY <2>2 DEF Length
  <2> QED
    BY <2>1, <2>3 DEF BufferIsRest
<1>8. TypeOK'
  <2>1. received' \in 0 .. Len(stream') /\ base' \in 0 .. received'
    BY <1>1, <1>2, <1>3
  <2> QED
    BY <1>2, <1>5, <2>1 DEF ParserInv, TypeOK, LoopTest
<1> QED
  BY <1>6, <1>7, <1>8 DEF ParserInv

(* Deliver and GiveUp erase the first k bytes. *)
LEMMA EraseKeepsInv ==
  ASSUME ParserInv, NEW k \in Nat, k <= Len(buffer),
         buffer' = SubSeq(buffer, k + 1, Len(buffer)), base' = base + k,
         pos' = 0, pc' \in {"idle", "scan"},
         pc' = "idle" => Len(buffer') < Length, pc' = "scan" => Len(buffer') >= Length,
         delivered' \in Seq(Nat), received' = received,
         UNCHANGED <<lineVars, idVars>>
  PROVE  ParserInv'
<1>1. /\ buffer' = SubSeq(stream, base + k + 1, received)
      /\ buffer' \in Seq(Byte) /\ Len(buffer') = received - (base + k)
  BY Erased
<1>2. base + k \in 0 .. received
  BY Received
<1>3. /\ stream' = stream /\ pieces' = pieces /\ intact' = intact
      /\ registered_motor_ids' = registered_motor_ids /\ calls' = calls
      /\ settled' = settled
  BY DEF lineVars, idVars
<1>4. TypeOK'
  BY <1>1, <1>2, <1>3 DEF ParserInv, TypeOK
<1>5. BufferIsRest'
  BY <1>1, <1>3 DEF BufferIsRest
<1>6. PosInBuffer'
  <2>1. Len(buffer') \in Int
    BY <1>1
  <2>2. pc' = "scan" => 0 + 10 <= Len(buffer') + 1
    BY <2>1 DEF Length
  <2> QED
    BY <2>2 DEF PosInBuffer, Length
<1> QED
  BY <1>4, <1>5, <1>6 DEF ParserInv

LEMMA DeliverKeepsInv ==
  ASSUME ParserInv, Deliver
  PROVE  ParserInv'
<1>1. /\ pos + 10 \in Nat /\ pos + 10 <= Len(buffer)
      /\ buffer' = SubSeq(buffer, (pos + 10) + 1, Len(buffer))
      /\ base' = base + (pos + 10)
  BY Received DEF Deliver, ParserInv, TypeOK, Length
<1>2. delivered' \in Seq(Nat)
  <2>1. base + pos \in Nat /\ delivered \in Seq(Nat)
    BY Received DEF ParserInv, TypeOK
  <2> QED
    BY <2>1, AppendProperties DEF Deliver
<1>3. buffer' \in Seq(Byte)
  BY <1>1, Erased
<1>4. /\ pc' \in {"idle", "scan"} /\ (pc' = "idle" => Len(buffer') < Length)
      /\ (pc' = "scan" => Len(buffer') >= Length)
  BY <1>3 DEF Deliver, LoopTest, Length
<1> QED
  BY <1>1, <1>2, <1>4, EraseKeepsInv DEF Deliver

LEMMA GiveUpKeepsInv ==
  ASSUME ParserInv, GiveUp
  PROVE  ParserInv'
<1>1. /\ pos \in Nat /\ pos <= Len(buffer) /\ base + pos \in Nat
      /\ Len(buffer) - pos < 10 /\ Len(buffer) - pos = received - (base + pos)
  BY Received DEF GiveUp, ParserInv, TypeOK, PosInBuffer, Length
<1>2. Len(buffer') = received - (base + pos)
  BY <1>1, Erased DEF GiveUp
<1>3. delivered' = delivered /\ delivered \in Seq(Nat)
  BY DEF GiveUp, ParserInv, TypeOK
<1> QED
  BY <1>1, <1>2, <1>3, EraseKeepsInv DEF GiveUp, Length

LEMMA SkipKeepsInv ==
  ASSUME ParserInv, Skip
  PROVE  ParserInv'
<1>1. pos' \in Nat /\ pos' + Length <= Len(buffer) + 1 /\ pc = "scan"
  BY Received DEF Skip, ParserInv, TypeOK, Length
<1>2. /\ buffer' = buffer /\ pc' = pc /\ received' = received /\ base' = base
      /\ delivered' = delivered /\ stream' = stream /\ pieces' = pieces
      /\ intact' = intact /\ registered_motor_ids' = registered_motor_ids
      /\ calls' = calls /\ settled' = settled
  BY DEF Skip, lineVars, idVars
<1> QED
  BY <1>1, <1>2 DEF ParserInv, TypeOK, BufferIsRest, PosInBuffer

LEMMA CallIdsKeepsInv ==
  ASSUME ParserInv, CallIds
  PROVE  ParserInv'
<1>1. /\ buffer' = buffer /\ pos' = pos /\ pc' = pc /\ received' = received
      /\ base' = base /\ delivered' = delivered /\ stream' = stream
      /\ pieces' = pieces /\ intact' = intact
  BY DEF CallIds, lineVars, parserVars
<1>2. calls + 1 \in 1 .. Len(Setup) /\ Setup[calls + 1] \in Call
  BY ParserAssumption DEF CallIds, AllCalled, ParserInv, TypeOK
<1>3. registered_motor_ids' \subseteq Byte
  BY <1>2 DEF CallIds, After, Call, ParserInv, TypeOK
<1>4. settled' \in Nat
  BY Received DEF CallIds, Frontier, ParserInv, TypeOK
<1> QED
  BY <1>1, <1>2, <1>3, <1>4
     DEF CallIds, ParserInv, TypeOK, BufferIsRest, PosInBuffer

LEMMA ParserInvNext == ParserInv /\ [Next]_vars => ParserInv'
<1> SUFFICES ASSUME ParserInv, [Next]_vars
             PROVE  ParserInv'
  OBVIOUS
<1>1. CASE UNCHANGED vars
  BY <1>1 DEF vars, lineVars, parserVars, idVars,
              ParserInv, TypeOK, BufferIsRest, PosInBuffer
<1> QED
  BY <1>1, SendKeepsInv, ReadKeepsInv, DeliverKeepsInv, GiveUpKeepsInv,
     SkipKeepsInv, CallIdsKeepsInv DEF Next, IoThread

(* The types, for every line, every cut of it into reads, and every        *)
(* sequence of calls that change the motor ids. *)
THEOREM ParserTypes == Spec => []TypeOK
<1>1. ParserInv => TypeOK
  BY DEF ParserInv
<1> QED
  BY <1>1, ParserInvInit, ParserInvNext, PTL DEF Spec

(* The buffer is the unread end of what was received, whole, and shorter   *)
(* than a frame between two reads. *)
THEOREM BufferKeepsRest == Spec => []BufferIsRest
<1>1. ParserInv => BufferIsRest
  BY DEF ParserInv
<1> QED
  BY <1>1, ParserInvInit, ParserInvNext, PTL DEF Spec
-----------------------------------------------------------------------------
(* What is passed on *)

Sound(w) == Crc(SubSeq(w, 1, Length - 1)) = w[Length]

LEMMA ApartUnfolded ==
  DeliveredApart <=>
    \A i \in 1 .. Len(delivered) :
      /\ delivered[i] + Length <= base
      /\ i < Len(delivered) => delivered[i] + Length <= delivered[i + 1]
      /\ Sound(WindowAt(stream, delivered[i]))
BY DEF DeliveredApart, Sound

LEMMA ApartUnfoldedNext ==
  DeliveredApart' <=>
    \A i \in 1 .. Len(delivered') :
      /\ delivered'[i] + Length <= base'
      /\ i < Len(delivered') => delivered'[i] + Length <= delivered'[i + 1]
      /\ Sound(WindowAt(stream', delivered'[i]))
BY DEF DeliveredApart, Sound, WindowAt

(* Windows behind the bytes received stay what they are. *)
LEMMA WindowStable ==
  ASSUME ParserInv, SendFrame \/ SendScrap,
         NEW p \in Nat, p + Length <= received
  PROVE  WindowAt(stream', p) = WindowAt(stream, p)
<1>1. PICK piece \in Seq(Byte) : stream' = stream \o piece
  BY SendIsPiece
<1>2. p + 10 \in 0 .. Len(stream) /\ p <= p + 10
  BY Received DEF Length
<1>3. SubSeq(stream', p + 1, p + 10) = SubSeq(stream, p + 1, p + 10)
  BY <1>1, <1>2, LineGrows DEF ParserInv
<1> QED
  BY <1>3 DEF WindowAt, Length

LEMMA DeliverAppends ==
  ASSUME ParserInv, Deliver
  PROVE  /\ delivered \in Seq(Nat) /\ Len(delivered') = Len(delivered) + 1
         /\ \A i \in 1 .. Len(delivered) : delivered'[i] = delivered[i]
         /\ delivered'[Len(delivered) + 1] = Frontier
         /\ base' = Frontier + Length /\ Frontier' = Frontier + Length
         /\ base <= Frontier /\ Frontier \in Nat /\ Frontier + Length <= received
         /\ Accepted(WindowAt(stream, Frontier))
<1>1. pos + Length <= Len(buffer) /\ Accepted(WindowAt(buffer, pos))
  BY DEF Deliver
<1>2. /\ WindowAt(buffer, pos) = WindowAt(stream, Frontier)
      /\ Frontier \in Nat /\ Frontier + Length <= received
  BY <1>1, WindowOfLine
<1>3. /\ delivered \in Seq(Nat) /\ delivered' = Append(delivered, Frontier)
      /\ base \in Nat /\ pos \in Nat
  BY Received DEF ParserInv, TypeOK, Deliver, Frontier
<1>4. /\ Len(delivered') = Len(delivered) + 1
      /\ \A i \in 1 .. Len(delivered) : delivered'[i] = delivered[i]
      /\ delivered'[Len(delivered) + 1] = Frontier
  BY <1>2, <1>3, AppendProperties
<1>5. base' = Frontier + Length /\ Frontier' = Frontier + Length /\ base <= Frontier
  BY <1>3 DEF Deliver, Frontier, Length
<1> QED
  BY <1>1, <1>2, <1>3, <1>4, <1>5

LEMMA ApartNext ==
  ASSUME ParserInv, DeliveredApart, [Next]_vars
  PROVE  DeliveredApart'
<1>1. /\ base \in Nat /\ delivered \in Seq(Nat) /\ base <= received
  BY Received DEF ParserInv, TypeOK
<1>2. CASE SendFrame \/ SendScrap
  <2>1. delivered' = delivered /\ base' = base
    BY <1>2, SendIsPiece DEF parserVars
  <2>2. ASSUME NEW i \in 1 .. Len(delivered)
        PROVE  WindowAt(stream', delivered[i]) = WindowAt(stream, delivered[i])
    <3>1. delivered[i] \in Nat /\ delivered[i] + Length <= base
      BY <1>1 DEF DeliveredApart
    <3>2. received \in Nat /\ delivered[i] + Length <= received
      BY <1>1, <3>1, Received DEF Length
    <3> QED
      BY <1>2, <3>1, <3>2, WindowStable
  <2> QED
    BY <2>1, <2>2, ApartUnfolded, ApartUnfoldedNext
<1>3. CASE Read \/ Skip \/ CallIds \/ UNCHANGED vars
  <2>1. delivered' = delivered /\ base' = base /\ stream' = stream
    BY <1>3 DEF Read, Skip, CallIds, vars, lineVars, parserVars
  <2> QED
    BY <2>1 DEF DeliveredApart, WindowAt
<1>4. CASE GiveUp
  <2>1. /\ delivered' = delivered /\ stream' = stream /\ base' = base + pos
        /\ pos \in Nat
    BY <1>4 DEF GiveUp, lineVars, ParserInv, TypeOK
  <2>2. \A i \in 1 .. Len(delivered) : delivered[i] + Length <= base + pos
    <3>1. \A i \in 1 .. Len(delivered) : delivered[i] \in Nat
      BY <1>1
    <3> QED
      BY <1>1, <2>1, <3>1 DEF DeliveredApart, Length
  <2> QED
    BY <2>1, <2>2, ApartUnfolded, ApartUnfoldedNext
<1>5. CASE Deliver
  <2>1. stream' = stream
    BY <1>5 DEF Deliver, lineVars
  <2>2. Sound(WindowAt(stream, Frontier))
    BY <1>5, DeliverAppends DEF Accepted, Sound
  <2> DEFINE n == Len(delivered)
  <2>3. n \in Nat
    BY <1>1
  <2>4. \A i \in 1 .. n : delivered[i] \in Nat /\ delivered[i] + 10 <= base
    BY <1>1 DEF DeliveredApart, Length
  <2>5. ASSUME NEW i \in 1 .. n
        PROVE  /\ delivered'[i] + Length <= base'
               /\ i < n + 1 => delivered'[i] + Length <= delivered'[i + 1]
               /\ Sound(WindowAt(stream', delivered'[i]))
    <3>1. delivered'[i] = delivered[i] /\ base <= Frontier /\ Frontier \in Nat
      BY <1>5, DeliverAppends
    <3>2. delivered'[i] + Length <= base'
      BY <1>1, <1>5, <2>4, <3>1, DeliverAppends DEF Length
    <3>3. CASE i < n
      <4>1. delivered'[i + 1] = delivered[i + 1]
        BY <1>5, <2>3, <3>3, DeliverAppends
      <4> QED
        BY <2>1, <3>1, <3>2, <3>3, <4>1, ApartUnfolded
    <3>4. CASE i = n
      <4>1. delivered'[i + 1] = Frontier
        BY <1>5, <3>4, DeliverAppends
      <4>2. delivered'[i] + Length <= delivered'[i + 1]
        BY <1>1, <2>4, <3>1, <4>1 DEF Length
      <4> QED
        BY <2>1, <3>1, <3>2, <4>2, ApartUnfolded
    <3> QED
      BY <2>3, <3>3, <3>4
  <2>6. /\ delivered'[n + 1] + Length <= base'
        /\ Sound(WindowAt(stream', delivered'[n + 1]))
    BY <1>5, <2>1, <2>2, DeliverAppends DEF Length
  <2>7. Len(delivered') = n + 1
    BY <1>5, DeliverAppends
  <2> QED
    BY <2>3, <2>5, <2>6, <2>7, ApartUnfoldedNext
<1> QED
  BY <1>2, <1>3, <1>4, <1>5 DEF Next, IoThread

(* No two frames passed on share a byte of the line, and each carries the  *)
(* checksum of its own bytes. *)
THEOREM FramesApart == Spec => []DeliveredApart
<1>1. Init => DeliveredApart
  BY DEF Init, DeliveredApart
<1>2. ParserInv /\ DeliveredApart /\ [Next]_vars => DeliveredApart'
  BY ApartNext
<1> QED
  BY <1>1, <1>2, ParserInvInit, ParserInvNext, PTL DEF Spec
-----------------------------------------------------------------------------
(* What is not missed *)

(* A position the search is done with *)
Settled(p) == Passed(p) \/ (p + Length <= received /\ ~ Accepted(WindowAt(stream, p)))

LEMMA FrontierType == ParserInv => base \in Nat /\ pos \in Nat /\ Frontier \in Nat
BY Received DEF ParserInv, TypeOK, Frontier

(* Steps that neither move the frontier nor change the ids *)
LEMMA QuietStep ==
  ASSUME ParserInv, NoFrameMissed, received' \in Nat, received' >= received,
         Frontier' = Frontier, UNCHANGED <<delivered, idVars>>,
         \A p \in Nat : p + Length <= received => WindowAt(stream', p) = WindowAt(stream, p)
  PROVE  NoFrameMissed'
<1>1. /\ registered_motor_ids' = registered_motor_ids /\ calls' = calls
      /\ settled' = settled /\ delivered' = delivered /\ settled \in Nat
  BY DEF idVars, ParserInv, TypeOK
<1> SUFFICES ASSUME AllCalled, NEW p \in settled .. Frontier - 1
             PROVE  Settled(p)'
  BY <1>1 DEF NoFrameMissed, AllCalled, Settled
<1>2. p \in Nat /\ Settled(p)
  BY <1>1, FrontierType DEF NoFrameMissed, Settled
<1>3. CASE Passed(p)
  BY <1>1, <1>3 DEF Passed, Settled
<1>4. CASE p + Length <= received /\ ~ Accepted(WindowAt(stream, p))
  <2>1. p + Length <= received'
    BY <1>2, <1>4, Received DEF Length
  <2>2. WindowAt(stream, p)' = WindowAt(stream, p)
    BY <1>2, <1>4 DEF WindowAt
  <2>3. Accepted(WindowAt(stream, p))' <=> Accepted(WindowAt(stream, p))
    BY <1>1, <2>2 DEF Accepted, ValidMotorIds
  <2> QED
    BY <1>4, <2>1, <2>3 DEF Settled
<1> QED
  BY <1>2, <1>3, <1>4 DEF Settled

LEMMA SkipMissesNone ==
  ASSUME ParserInv, NoFrameMissed, Skip
  PROVE  NoFrameMissed'
<1>1. /\ registered_motor_ids' = registered_motor_ids /\ calls' = calls
      /\ settled' = settled /\ delivered' = delivered /\ settled \in Nat
      /\ stream' = stream /\ received' = received /\ Frontier' = Frontier + 1
  BY FrontierType DEF Skip, lineVars, idVars, Frontier, ParserInv, TypeOK
<1>2. /\ Frontier + Length <= received /\ Frontier \in Nat
      /\ ~ Accepted(WindowAt(stream, Frontier))
  BY WindowOfLine DEF Skip
<1> SUFFICES ASSUME AllCalled, NEW p \in settled .. Frontier
             PROVE  Settled(p)'
  BY <1>1, <1>2 DEF NoFrameMissed, AllCalled, Settled
<1>3. Settled(p)
  <2>1. CASE p = Frontier
    BY <1>2, <2>1 DEF Settled
  <2>2. CASE p \in settled .. Frontier - 1
    BY <2>2 DEF NoFrameMissed, Settled
  <2> QED
    BY <1>1, <1>2, <2>1, <2>2
<1> QED
  BY <1>1, <1>3 DEF Settled, Passed, Accepted, ValidMotorIds, WindowAt

LEMMA DeliverMissesNone ==
  ASSUME ParserInv, NoFrameMissed, Deliver
  PROVE  NoFrameMissed'
<1>1. /\ registered_motor_ids' = registered_motor_ids /\ calls' = calls
      /\ settled' = settled /\ settled \in Nat
      /\ stream' = stream /\ received' = received
  BY DEF Deliver, lineVars, idVars, ParserInv, TypeOK
<1>2. /\ Frontier' = Frontier + 10 /\ Frontier \in Nat /\ Len(delivered) \in Nat
      /\ Len(delivered') = Len(delivered) + 1
      /\ \A i \in 1 .. Len(delivered) : delivered'[i] = delivered[i]
      /\ delivered'[Len(delivered) + 1] = Frontier
  BY DeliverAppends DEF Length
<1> SUFFICES ASSUME AllCalled, NEW p \in settled .. Frontier + 9
             PROVE  Settled(p)'
  BY <1>1, <1>2 DEF NoFrameMissed, AllCalled, Settled
<1>3. CASE p >= Frontier
  <2>1. /\ Len(delivered) + 1 \in 1 .. Len(delivered')
        /\ p \in Frontier .. Frontier + Length - 1
    BY <1>1, <1>2, <1>3 DEF Length
  <2> QED
    BY <1>2, <2>1 DEF Settled, Passed
<1>4. CASE p \in settled .. Frontier - 1
  <2>1. Settled(p)
    BY <1>4 DEF NoFrameMissed, Settled
  <2>2. CASE Passed(p)
    <3>1. PICK i \in 1 .. Len(delivered) : p \in delivered[i] .. delivered[i] + Length - 1
      BY <2>2 DEF Passed
    <3>2. i \in 1 .. Len(delivered') /\ delivered'[i] = delivered[i]
      BY <1>2
    <3> QED
      BY <3>1, <3>2 DEF Settled, Passed
  <2>3. CASE p + Length <= received /\ ~ Accepted(WindowAt(stream, p))
    BY <1>1, <2>3 DEF Settled, Accepted, ValidMotorIds, WindowAt
  <2> QED
    BY <2>1, <2>2, <2>3 DEF Settled
<1> QED
  BY <1>1, <1>2, <1>3, <1>4

LEMMA MissedNext ==
  ASSUME ParserInv, NoFrameMissed, [Next]_vars
  PROVE  NoFrameMissed'
<1>1. CASE SendFrame \/ SendScrap
  <2>1. /\ received' = received /\ Frontier' = Frontier
        /\ UNCHANGED <<delivered, idVars>>
    BY <1>1, SendIsPiece DEF parserVars, Frontier
  <2> QED
    BY <1>1, <2>1, Received, WindowStable, QuietStep
<1>2. CASE Read
  <2>1. PICK n \in 1 .. Len(stream) - received : received' = received + n
    BY <1>2 DEF Read
  <2>2. received' \in Nat /\ received' >= received
    BY <2>1, Received
  <2>3. Frontier' = Frontier /\ stream' = stream /\ UNCHANGED <<delivered, idVars>>
    BY <1>2 DEF Read, Frontier, lineVars, ParserInv, PosInBuffer
  <2> QED
    BY <2>2, <2>3, QuietStep DEF WindowAt
<1>3. CASE GiveUp
  <2>1. /\ Frontier' = Frontier /\ stream' = stream /\ received' = received
        /\ UNCHANGED <<delivered, idVars>>
    BY <1>3, FrontierType DEF GiveUp, Frontier, lineVars
  <2> QED
    BY <2>1, Received, QuietStep DEF WindowAt
<1>4. CASE UNCHANGED vars
  BY <1>4 DEF vars, lineVars, parserVars, idVars, NoFrameMissed, AllCalled, Frontier,
              Passed, Accepted, ValidMotorIds, WindowAt
<1>5. CASE CallIds
  <2>1. /\ Frontier' = Frontier /\ Frontier \in Nat
        /\ settled' = (IF calls' = Len(Setup) THEN Frontier ELSE settled)
    BY <1>5, FrontierType DEF CallIds, parserVars, Frontier
  <2> QED
    BY <2>1 DEF NoFrameMissed, AllCalled
<1> QED
  BY <1>1, <1>2, <1>3, <1>4, <1>5, SkipMissesNone, DeliverMissesNone DEF Next, IoThread

(* Once the ids are settled no frame of the line is missed, however the    *)
(* reads cut it and whatever lies between the frames. *)
THEOREM NothingMissed == Spec => []NoFrameMissed
<1>1. Init => NoFrameMissed
  BY DEF Init, NoFrameMissed, Frontier
<1>2. ParserInv /\ NoFrameMissed /\ [Next]_vars => NoFrameMissed'
  BY MissedNext
<1> QED
  BY <1>1, <1>2, ParserInvInit, ParserInvNext, PTL DEF Spec

-----------------------------------------------------------------------------
(* What is passed on *)

(* No stretch of the line but a whole frame looks like a frame of a motor  *)
(* listened to.  One byte of checksum does not make it true of every line. *)
Separable ==
  AllCalled =>
    \A p \in settled .. Len(stream) - Length :
      Accepted(WindowAt(stream, p)) => p \in intact

(* The ids are settled, so what was accepted then would be accepted now.   *)
StillAccepted ==
  AllCalled =>
    \A k \in 1 .. Len(delivered) :
      delivered[k] >= settled => Accepted(WindowAt(stream, delivered[k]))

LEMMA DeliveredBounds ==
  ASSUME ParserInv, DeliveredApart, NEW k \in 1 .. Len(delivered)
  PROVE  /\ delivered[k] \in Nat /\ delivered[k] + 10 <= base
         /\ base \in Nat /\ pos \in Nat /\ settled \in Nat
         /\ received \in Nat /\ base <= received /\ received <= Len(stream)
BY Received DEF ParserInv, TypeOK, DeliveredApart, Length

LEMMA AcceptedNext ==
  ASSUME ParserInv, DeliveredApart, StillAccepted, [Next]_vars
  PROVE  StillAccepted'
<1> SUFFICES ASSUME AllCalled', NEW k \in 1 .. Len(delivered'), delivered'[k] >= settled'
             PROVE  Accepted(WindowAt(stream, delivered[k]))'
  BY DEF StillAccepted
<1>1. CASE SendFrame \/ SendScrap
  <2>1. /\ delivered' = delivered /\ settled' = settled /\ calls' = calls
        /\ registered_motor_ids' = registered_motor_ids
    BY <1>1, SendIsPiece DEF parserVars, idVars
  <2>2. Accepted(WindowAt(stream, delivered[k]))
    BY <2>1 DEF StillAccepted, AllCalled
  <2>3. WindowAt(stream', delivered[k]) = WindowAt(stream, delivered[k])
    <3>1. delivered[k] \in Nat /\ delivered[k] + 10 <= received
      BY <2>1, DeliveredBounds
    <3> QED
      BY <1>1, <3>1, WindowStable DEF Length
  <2> QED
    BY <2>1, <2>2, <2>3 DEF Accepted, ValidMotorIds, WindowAt
<1>2. CASE Read \/ Skip \/ GiveUp \/ UNCHANGED vars
  <2>1. /\ delivered' = delivered /\ settled' = settled /\ calls' = calls
        /\ registered_motor_ids' = registered_motor_ids /\ stream' = stream
    BY <1>2 DEF Read, Skip, GiveUp, vars, lineVars, parserVars, idVars
  <2> QED
    BY <2>1 DEF StillAccepted, AllCalled, Accepted, ValidMotorIds, WindowAt
<1>3. CASE CallIds
  <2>1. delivered' = delivered /\ settled' = Frontier
    BY <1>3 DEF CallIds, AllCalled, parserVars
  <2>2. delivered[k] < Frontier
    BY <2>1, DeliveredBounds DEF Frontier
  <2>3. delivered[k] \in Nat /\ Frontier \in Nat
    BY <2>1, DeliveredBounds DEF Frontier
  <2> QED
    BY <2>1, <2>2, <2>3
<1>4. CASE Deliver
  <2>1. /\ settled' = settled /\ calls' = calls /\ stream' = stream
        /\ registered_motor_ids' = registered_motor_ids
    BY <1>4 DEF Deliver, lineVars, idVars
  <2>2. Accepted(WindowAt(stream, delivered'[k]))
    <3>1. CASE k \in 1 .. Len(delivered)
      BY <1>4, <2>1, <3>1, DeliverAppends DEF StillAccepted, AllCalled
    <3>2. CASE k = Len(delivered) + 1
      BY <1>4, <3>2, DeliverAppends
    <3>3. Len(delivered) \in Nat
      BY <1>4, DeliverAppends
    <3> QED
      BY <1>4, <3>1, <3>2, <3>3, DeliverAppends
  <2> QED
    BY <2>1, <2>2 DEF Accepted, ValidMotorIds, WindowAt
<1> QED
  BY <1>1, <1>2, <1>3, <1>4 DEF Next, IoThread

(* Where only frames look like frames, what the parser passes on once the  *)
(* ids are settled are replies of the motors registered, as they were      *)
(* sent, whatever reads, scraps and calls came before.                     *)
THEOREM OnlyReplies == Spec => [](Separable => OnlyRepliesDelivered)
<1>1. Init => StillAccepted /\ DeliveredApart
  BY DEF Init, StillAccepted, DeliveredApart
<1>2. ParserInv /\ DeliveredApart /\ [Next]_vars => DeliveredApart'
  BY ApartNext
<1>3. ParserInv /\ DeliveredApart /\ StillAccepted /\ [Next]_vars => StillAccepted'
  BY AcceptedNext
<1>4. ParserInv /\ DeliveredApart /\ StillAccepted => (Separable => OnlyRepliesDelivered)
  <2> SUFFICES ASSUME ParserInv, DeliveredApart, StillAccepted, Separable, AllCalled,
                      NEW k \in 1 .. Len(delivered), delivered[k] >= settled
               PROVE  /\ delivered[k] \in intact
                      /\ stream[delivered[k] + 1] \in ValidMotorIds
    BY DEF OnlyRepliesDelivered
  <2> DEFINE p == delivered[k]
  <2>1. Accepted(WindowAt(stream, p))
    BY DEF StillAccepted
  <2>2. /\ p \in Nat /\ p + 10 <= Len(stream) /\ Len(stream) \in Nat
        /\ stream \in Seq(Byte)
    BY DeliveredBounds, Received
  <2>3. WindowAt(stream, p)[1] = stream[p + 1]
    BY <2>2 DEF WindowAt, Length
  <2>4. p \in settled .. Len(stream) - Length
    BY <2>2, DeliveredBounds DEF Length
  <2> QED
    BY <2>1, <2>3, <2>4 DEF Separable, Accepted
<1> QED
  BY <1>1, <1>2, <1>3, <1>4, ParserInvInit, ParserInvNext, PTL DEF Spec

-----------------------------------------------------------------------------
(* The parser implements the search *)

LEMMA SearchInits == Init => Search!SearchInit
BY DEF Init, Search!SearchInit, Frontier

LEMMA SearchSteps ==
  ASSUME ParserInv, [Next]_vars
  PROVE  [Search!SearchNext]_(Search!searchVars)
<1> DEFINE Same == UNCHANGED <<stream, Frontier, delivered, registered_motor_ids>>
<1>1. ASSUME Same PROVE UNCHANGED Search!searchVars
  BY <1>1 DEF Search!searchVars
<1>2. CASE SendFrame \/ SendScrap
  <2>1. PICK piece \in Seq(Byte) : stream' = stream \o piece
    BY <1>2, SendIsPiece
  <2>2. Len(stream) <= Len(stream') /\ SubSeq(stream', 1, Len(stream)) = stream
    <3>1. stream \in Seq(Byte) /\ 0 \in Nat /\ Len(stream) \in 0 .. Len(stream)
          /\ 0 <= Len(stream)
      BY Received
    <3>2. /\ SubSeq(stream', 0 + 1, Len(stream)) = SubSeq(stream, 0 + 1, Len(stream))
          /\ Len(stream') >= Len(stream)
      BY <2>1, <3>1, LineGrows DEF ParserInv
    <3>3. SubSeq(stream, 1, Len(stream)) = stream
      BY <3>1, SubSeqFull
    <3>4. stream' \in Seq(Byte)
      BY <2>1, LineGrows DEF ParserInv
    <3> QED
      BY <3>1, <3>2, <3>3, <3>4
  <2>3. UNCHANGED <<Frontier, delivered, registered_motor_ids>>
    BY <1>2, SendIsPiece DEF parserVars, idVars, Frontier
  <2> QED
    BY <2>2, <2>3 DEF Search!SearchNext, Search!Arrive
<1>3. CASE Read
  BY <1>1, <1>3 DEF Read, Frontier, lineVars, idVars, ParserInv, PosInBuffer
<1>4. CASE GiveUp
  BY <1>1, <1>4, FrontierType DEF GiveUp, Frontier, lineVars, idVars
<1>5. CASE UNCHANGED vars
  BY <1>1, <1>5 DEF vars, lineVars, parserVars, idVars, Frontier
<1>6. CASE CallIds
  <2>1. registered_motor_ids' \subseteq Byte
    BY <1>6, CallIdsKeepsInv DEF ParserInv, TypeOK
  <2>2. UNCHANGED <<stream, Frontier, delivered>>
    BY <1>6 DEF CallIds, lineVars, parserVars, Frontier
  <2> QED
    BY <2>1, <2>2 DEF Search!SearchNext, Search!Listen
<1>7. Accepted(WindowAt(stream, Frontier)) <=> Search!IsFrame(Search!Window)
  BY DEF Accepted, ValidMotorIds, WindowAt, Search!IsFrame, Search!Window
<1>8. ASSUME pos + Length <= Len(buffer)
      PROVE  /\ WindowAt(buffer, pos) = WindowAt(stream, Frontier)
             /\ Frontier + Length <= Len(stream)
  <2>1. /\ WindowAt(buffer, pos) = WindowAt(stream, Frontier)
        /\ Frontier \in Nat /\ Frontier + Length <= received
    BY <1>8, WindowOfLine
  <2> QED
    BY <2>1, Received DEF Length
<1>9. CASE Deliver
  <2>1. /\ Frontier' = Frontier + Length /\ delivered' = Append(delivered, Frontier)
        /\ UNCHANGED <<stream, registered_motor_ids>>
    BY <1>9, DeliverAppends DEF Deliver, Frontier, lineVars, idVars
  <2>2. Accepted(WindowAt(stream, Frontier)) /\ Frontier + Length <= Len(stream)
    BY <1>8, <1>9 DEF Deliver
  <2> QED
    BY <1>7, <2>1, <2>2 DEF Search!SearchNext, Search!Find
<1>10. CASE Skip
  <2>1. /\ Frontier' = Frontier + 1
        /\ UNCHANGED <<stream, delivered, registered_motor_ids>>
    BY <1>10, FrontierType DEF Skip, Frontier, lineVars, idVars
  <2>2. ~ Accepted(WindowAt(stream, Frontier)) /\ Frontier + Length <= Len(stream)
    BY <1>8, <1>10 DEF Skip
  <2> QED
    BY <1>7, <2>1, <2>2 DEF Search!SearchNext, Search!PassOver
<1> QED
  BY <1>2, <1>3, <1>4, <1>5, <1>6, <1>9, <1>10 DEF Next, IoThread

(* However the reads cut the line, the parser does what the search of the  *)
(* uncut line does. *)
THEOREM ParserImplementsSearch == Spec => ImplementsSearch
<1>1. Init => Search!SearchInit
  BY SearchInits
<1>2. ParserInv /\ [Next]_vars => [Search!SearchNext]_(Search!searchVars)
  BY SearchSteps
<1> QED
  BY <1>1, <1>2, ParserInvInit, ParserInvNext, PTL
     DEF Spec, ImplementsSearch, Search!SearchSpec
=============================================================================
