--------------------------- MODULE MCFrameParser ---------------------------
(* An instance of FrameParser for TLC: two motors, of which the driver     *)
(* wants to hear only the second in the end, and the real checksum.        *)
EXTENDS FrameParser

Framed(data) == data \o <<Crc(data)>>

(* A reply: id, mode, current, velocity, position, error *)
Reply(id) == Framed(<<id, 2, 0, 16, 0, 50, 39, 16, 0>>)

(* Reply(1) with one bit of byte k inverted *)
Flipped(k, bit) == [Reply(1) EXCEPT ![k] = Xor(@, bit)]

MCFrames == {Reply(1), Reply(2)}
MCScraps ==
  {SubSeq(Reply(1), 1, 2),      \* the end of a reply was lost
   SubSeq(Reply(2), 7, 10),     \* its beginning was lost
   Flipped(5, 8)}               \* a bit was damaged
MCSetup ==
  <<[op |-> "clear", id |-> 0], [op |-> "register", id |-> 1],
    [op |-> "register", id |-> 2], [op |-> "unregister", id |-> 1]>>

(* The test vectors of src/test/test_ddsm115_driver_client.cpp:29-42 *)
ASSUME OfficialVectors ==
  /\ Crc(<<170, 85, 83, 1, 0, 0, 0, 0, 0>>) = 203
  /\ Crc(<<1, 160, 2, 0, 0, 0, 0, 0, 0>>) = 228
  /\ Crc(<<1, 100, 0, 0, 0, 0, 0, 0, 0>>) = 80
  /\ Crc(<<1, 100, 0, 100, 0, 0, 0, 0, 0>>) = 79

(* One or two damaged bits anywhere in a frame change its checksum. *)
ASSUME DamageDetected ==
  LET Bits == (1 .. Length) \X {2^i : i \in 0 .. 7}
      Damaged(w, b) == [w EXCEPT ![b[1]] = Xor(@, b[2])]
      Sound(w) == Crc(SubSeq(w, 1, Length - 1)) = w[Length]
  IN \A b, c \in Bits :
       /\ ~ Sound(Damaged(Reply(1), b))
       /\ b # c => ~ Sound(Damaged(Damaged(Reply(1), b), c))
=============================================================================
