---------------------------- MODULE FrameParser ----------------------------
(***************************************************************************)
(* How the client finds the replies of the motors in the bytes of the      *)
(* serial line: start_async_read's handler and parse_buffer, run by the    *)
(* I/O thread, and the set of registered motor ids, written by the thread  *)
(* that configures the driver while bytes already arrive.                  *)
(*                                                                         *)
(* The line is external.  It carries intact frames and scraps: noise,      *)
(* damaged frames, and what is left of a frame when bytes of it are lost   *)
(* (a reopened port).  A read may return any number of the bytes waiting.  *)
(*                                                                         *)
(* Positions count the bytes of `stream', which keeps every byte ever      *)
(* sent; the code keeps `buffer' and `pos'.                                *)
(***************************************************************************)
EXTENDS Crc8

CONSTANTS
  Frames,     \* the intact frames the line may carry
  Scraps,     \* the other byte strings it may carry
  MaxPieces,  \* how many frames and scraps it carries (bound)
  ReadSize,   \* bytes one read returns at most: read_buf_.size()
  Setup       \* the configuring thread's calls on the motor ids, in order

(* Bytes in a frame *)
Length == 10

Call == [op : {"register", "unregister", "clear"}, id : Byte]

ASSUME ParserAssumption ==
  /\ Frames \subseteq [1 .. Length -> Byte]
  /\ Scraps \subseteq Seq(Byte)
  /\ MaxPieces \in Nat
  /\ ReadSize \in Nat \ {0}
  /\ Setup \in Seq(Call)

VARIABLES
  registered_motor_ids,  \* the vector, as a set
  buffer,     \* buffer_
  pos,        \* parse_buffer's pos
  pc,         \* "idle": in async_read_some; "scan": in parse_buffer
  received,   \* bytes read from the line
  stream,     \* history: the bytes sent
  pieces,     \* history: how many pieces they are
  intact,     \* history: where the intact frames begin
  base,       \* history: bytes erased from the front of buffer
  delivered,  \* history: where the frames passed on begin, in order
  calls,      \* the configuring thread's calls so far
  settled     \* history: the first position tested after its last call

lineVars   == <<stream, pieces, intact>>
parserVars == <<buffer, pos, pc, received, base, delivered>>
idVars     == <<registered_motor_ids, calls, settled>>
vars       == <<lineVars, parserVars, idVars>>

-----------------------------------------------------------------------------
(* is_valid_motor_id: with no id registered, any one a motor may have *)
ValidMotorIds ==
  IF registered_motor_ids = {} THEN 1 .. 253 ELSE registered_motor_ids

WindowAt(bytes, p) == SubSeq(bytes, p + 1, p + Length)

(* Mutant: the checksum is not compared. *)
Accepted_without_crc(w) == w[1] \in ValidMotorIds

(* The test of a window of ten bytes in parse_buffer *)
Accepted(w) ==
  /\ w[1] \in ValidMotorIds
  /\ Crc(SubSeq(w, 1, Length - 1)) = w[Length]

(* `while (buffer_.size() >= 10)' *)
LoopTest(bytes) == IF Len(bytes) >= Length THEN "scan" ELSE "idle"

(* The position in the stream of the window under test *)
Frontier == base + pos

AllCalled == calls = Len(Setup)

-----------------------------------------------------------------------------
Init ==
  /\ registered_motor_ids = {} /\ calls = 0 /\ settled = 0
  /\ buffer = <<>> /\ pos = 0 /\ pc = "idle"
  /\ received = 0 /\ base = 0 /\ delivered = <<>>
  /\ stream = <<>> /\ pieces = 0 /\ intact = {}

(* The line (external) *)
SendFrame ==
  /\ pieces < MaxPieces
  /\ pieces' = pieces + 1
  /\ \E f \in Frames : stream' = stream \o f
  /\ intact' = intact \cup {Len(stream)}
  /\ UNCHANGED <<parserVars, idVars>>

SendScrap ==
  /\ pieces < MaxPieces
  /\ pieces' = pieces + 1
  /\ \E s \in Scraps : stream' = stream \o s
  /\ UNCHANGED <<intact, parserVars, idVars>>

(* The handler of async_read_some: some of the bytes waiting come in.      *)
Read ==
  /\ pc = "idle"
  /\ \E n \in 1 .. Len(stream) - received :
       /\ n <= ReadSize
       /\ buffer' = buffer \o SubSeq(stream, received + 1, received + n)
       /\ received' = received + n
  /\ pos' = 0
  /\ pc' = LoopTest(buffer')
  /\ UNCHANGED <<base, delivered, lineVars, idVars>>

(* Mutant: the bytes before the frame are not erased first. *)
Deliver_keeps_prefix ==
  /\ pc = "scan"
  /\ pos + Length <= Len(buffer)
  /\ Accepted(WindowAt(buffer, pos))
  /\ delivered' = Append(delivered, base + pos)
  /\ buffer' = SubSeq(buffer, Length + 1, Len(buffer))
  /\ base' = base + pos + Length
  /\ pos' = 0
  /\ pc' = LoopTest(buffer')
  /\ UNCHANGED <<received, lineVars, idVars>>

(* Mutant: the frame is not erased. *)
Deliver_keeps_frame ==
  /\ pc = "scan"
  /\ pos + Length <= Len(buffer)
  /\ Accepted(WindowAt(buffer, pos))
  /\ delivered' = Append(delivered, base + pos)
  /\ buffer' = SubSeq(buffer, pos + 1, Len(buffer))
  /\ base' = base + pos
  /\ pos' = 0
  /\ pc' = LoopTest(buffer')
  /\ UNCHANGED <<received, lineVars, idVars>>

(* Mutant: `if' for `while'. *)
Deliver_once ==
  /\ pc = "scan"
  /\ pos + Length <= Len(buffer)
  /\ Accepted(WindowAt(buffer, pos))
  /\ delivered' = Append(delivered, base + pos)
  /\ buffer' = SubSeq(buffer, pos + Length + 1, Len(buffer))
  /\ base' = base + pos + Length
  /\ pos' = 0
  /\ pc' = "idle"
  /\ UNCHANGED <<received, lineVars, idVars>>

(* parse_buffer: the window at pos is a frame.  It goes to                 *)
(* process_feedback_packet (FeedbackPath has what that does), and the      *)
(* bytes up to its end are erased.                                         *)
Deliver ==
  /\ pc = "scan"
  /\ pos + Length <= Len(buffer)
  /\ Accepted(WindowAt(buffer, pos))
  /\ delivered' = Append(delivered, base + pos)
  /\ buffer' = SubSeq(buffer, pos + Length + 1, Len(buffer))
  /\ base' = base + pos + Length
  /\ pos' = 0
  /\ pc' = LoopTest(buffer')
  /\ UNCHANGED <<received, lineVars, idVars>>

(* parse_buffer: it is not, go on to the next. *)
Skip ==
  /\ pc = "scan"
  /\ pos + Length <= Len(buffer)
  /\ ~ Accepted(WindowAt(buffer, pos))
  /\ pos' = pos + 1
  /\ UNCHANGED <<buffer, pc, received, base, delivered, lineVars, idVars>>

(* Mutant: the test of `found' is missing. *)
GiveUp_without_break ==
  /\ pc = "scan"
  /\ pos + Length > Len(buffer)
  /\ buffer' = SubSeq(buffer, pos + Length + 1, Len(buffer))
  /\ base' = base + pos + Length
  /\ pos' = 0
  /\ pc' = "idle"
  /\ UNCHANGED <<received, delivered, lineVars, idVars>>

(* Mutant: all bytes are erased where no frame was found. *)
GiveUp_clears ==
  /\ pc = "scan"
  /\ pos + Length > Len(buffer)
  /\ buffer' = <<>>
  /\ base' = base + Len(buffer)
  /\ pos' = 0
  /\ pc' = "idle"
  /\ UNCHANGED <<received, delivered, lineVars, idVars>>

(* parse_buffer: no window of the buffer is a frame.  Its last bytes, too  *)
(* few for a window, stay.                                                 *)
GiveUp ==
  /\ pc = "scan"
  /\ pos + Length > Len(buffer)
  /\ buffer' = SubSeq(buffer, pos + 1, Len(buffer))
  /\ base' = base + pos
  /\ pos' = 0
  /\ pc' = "idle"
  /\ UNCHANGED <<received, delivered, lineVars, idVars>>

(* register_motor_id, unregister_motor_id, clear_registered_motor_ids: the *)
(* configuring thread takes ids_mutex_ for one call, the parser for one    *)
(* window, so a call may come between the tests of two windows.            *)
After(ids, call) ==
  CASE call.op = "register"   -> ids \cup {call.id}
    [] call.op = "unregister" -> ids \ {call.id}
    [] call.op = "clear"      -> {}

CallIds ==
  /\ ~ AllCalled
  /\ registered_motor_ids' = After(registered_motor_ids, Setup[calls + 1])
  /\ calls' = calls + 1
  /\ settled' = IF calls' = Len(Setup) THEN Frontier ELSE settled
  /\ UNCHANGED <<lineVars, parserVars>>

IoThread == Read \/ Deliver \/ Skip \/ GiveUp

Next == SendFrame \/ SendScrap \/ IoThread \/ CallIds

(* The I/O thread is scheduled, and so is the configuring thread. *)
Spec == Init /\ [][Next]_vars /\ WF_vars(IoThread) /\ WF_vars(CallIds)

-----------------------------------------------------------------------------
TypeOK ==
  /\ registered_motor_ids \subseteq Byte
  /\ buffer \in Seq(Byte) /\ pos \in Nat /\ pc \in {"idle", "scan"}
  /\ received \in 0 .. Len(stream) /\ base \in 0 .. received
  /\ delivered \in Seq(Nat)
  /\ stream \in Seq(Byte) /\ pieces \in 0 .. MaxPieces /\ intact \subseteq Nat
  /\ calls \in 0 .. Len(Setup) /\ settled \in Nat

(* The buffer is the unread end of what was received, byte for byte: the   *)
(* erasures of parse_buffer neither drop nor repeat a byte the next window *)
(* needs, and between two reads less than a frame is kept, so buffer_,     *)
(* which has no limit of its own, cannot grow.                             *)
BufferIsRest ==
  /\ buffer = SubSeq(stream, base + 1, received)
  /\ pc = "idle" => Len(buffer) < Length

(* No byte of the line is part of two frames passed on, and each frame     *)
(* passed on carries the checksum of its own bytes of the line.            *)
DeliveredApart ==
  \A i \in 1 .. Len(delivered) :
    /\ delivered[i] + Length <= base
    /\ i < Len(delivered) => delivered[i] + Length <= delivered[i + 1]
    /\ LET w == WindowAt(stream, delivered[i])
       IN Crc(SubSeq(w, 1, Length - 1)) = w[Length]

(* However the reads cut the stream, and whatever damage lies between, the *)
(* search misses nothing: once the ids are settled, every position behind  *)
(* the parser is part of a frame passed on, or the window there was        *)
(* complete and not a frame. *)
Passed(p) ==
  \E i \in 1 .. Len(delivered) : p \in delivered[i] .. delivered[i] + Length - 1

NoFrameMissed ==
  AllCalled =>
    \A p \in settled .. Frontier - 1 :
      Passed(p) \/ (p + Length <= received /\ ~ Accepted(WindowAt(stream, p)))

(* Once the driver has said which motors it has, what is passed on was     *)
(* sent as a frame, and by one of them.  Before, nothing but one byte of   *)
(* checksum tells a frame from a scrap, and a scrap may be taken for one.  *)
OnlyRepliesDelivered ==
  \A i \in 1 .. Len(delivered) :
    AllCalled /\ delivered[i] >= settled =>
      /\ delivered[i] \in intact
      /\ stream[delivered[i] + 1] \in ValidMotorIds

(* However a read cuts a frame, parse_buffer finds what a search of the    *)
(* uncut line finds: reads and what they leave in the buffer do not show.  *)
Search == INSTANCE FrameSearch WITH
  line <- stream, place <- Frontier, found <- delivered, ids <- registered_motor_ids

ImplementsSearch == Search!SearchSpec

(* Every reply of a known motor is passed on in the end, whatever came     *)
(* before it on the line, without another byte having to follow it.        *)
Owed ==
  {p \in intact : AllCalled /\ p >= settled /\ stream[p + 1] \in ValidMotorIds}

RepliesArrive ==
  <>[](Owed \subseteq {delivered[i] : i \in 1 .. Len(delivered)})
=============================================================================
