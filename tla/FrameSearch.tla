---------------------------- MODULE FrameSearch ----------------------------
(***************************************************************************)
(* What parse_buffer promises: the frames it passes on are those that one  *)
(* search finds which walks along the line byte by byte, from the first    *)
(* byte on, and goes on behind each frame it has found.  How the reads cut *)
(* the line is no part of it.                                              *)
(***************************************************************************)
EXTENDS Integers, Sequences

CONSTANTS
  Length,  \* bytes in a frame
  Byte,    \* what a byte may be
  Crc(_)   \* the checksum of a sequence of bytes

VARIABLES
  line,   \* the bytes of the serial line, as many as there are
  place,  \* how many of them the search has left behind
  found,  \* where the frames it has found begin, in order
  ids     \* the motors listened to; none: any

searchVars == <<line, place, found, ids>>

Window == SubSeq(line, place + 1, place + Length)

IsFrame(w) ==
  /\ w[1] \in (IF ids = {} THEN 1 .. 253 ELSE ids)
  /\ Crc(SubSeq(w, 1, Length - 1)) = w[Length]

SearchInit == line = <<>> /\ place = 0 /\ found = <<>> /\ ids = {}

Arrive ==
  /\ Len(line) <= Len(line')
  /\ SubSeq(line', 1, Len(line)) = line
  /\ UNCHANGED <<place, found, ids>>

Listen == ids' \subseteq Byte /\ UNCHANGED <<line, place, found>>

Find ==
  /\ place + Length <= Len(line) /\ IsFrame(Window)
  /\ found' = Append(found, place)
  /\ place' = place + Length
  /\ UNCHANGED <<line, ids>>

PassOver ==
  /\ place + Length <= Len(line) /\ ~ IsFrame(Window)
  /\ place' = place + 1
  /\ UNCHANGED <<line, found, ids>>

SearchNext == Arrive \/ Listen \/ Find \/ PassOver

SearchSpec == SearchInit /\ [][SearchNext]_searchVars
=============================================================================
