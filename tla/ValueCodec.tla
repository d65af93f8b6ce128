----------------------------- MODULE ValueCodec -----------------------------
(***************************************************************************)
(* How the client turns a command value into the two data bytes of a 0x64  *)
(* frame, and two data bytes of a reply into a number                      *)
(* (src/src/ddsm115_driver_client.cpp).                                    *)
(*                                                                         *)
(* A command value is a double in the source.  Here it is an integer count *)
(* of tenths (0.1 A, 0.1 RPM, 0.1 degree), for which every rounding and    *)
(* saturation of the code is exact.  NaN has no integer counterpart and is *)
(* out of the model.                                                       *)
(***************************************************************************)
EXTENDS Integers

MODE_CURRENT  == 1
MODE_VELOCITY == 2
MODE_POSITION == 3

(* The control loops a motor has.  A command message may carry any uint8. *)
Modes == {MODE_CURRENT, MODE_VELOCITY, MODE_POSITION}

(* std::clamp *)
Clamp(x, lo, hi) == IF x < lo THEN lo ELSE IF x > hi THEN hi ELSE x

(* std::round of n/d for d > 0: to the nearest, halves away from zero. *)
RoundQuot(n, d) ==
  IF n >= 0 THEN (2 * n + d) \div (2 * d) ELSE -((2 * (-n) + d) \div (2 * d))

(* 32767, written so that the provers need not count to it *)
RawMax == 128 * 256 - 1
RawRange == -RawMax .. RawMax

(* -8 A .. 8 A onto -32767 .. 32767 *)
CurrentRaw(v)  == Clamp(RoundQuot(v * RawMax, 80), -RawMax, RawMax)
(* -330 RPM .. 330 RPM, one count per RPM *)
VelocityRaw(v) == Clamp(RoundQuot(v, 10), -330, 330)
(* 0 .. 360 degrees onto 0 .. 32767 *)
PositionRaw(v) == Clamp(RoundQuot(v * RawMax, 3600), 0, RawMax)

(* The switch of execute_control_cycle, restricted to the value it sends. *)
RawValue(mode, v) ==
  IF mode = MODE_CURRENT THEN CurrentRaw(v)
  ELSE IF mode = MODE_VELOCITY THEN VelocityRaw(v)
  ELSE PositionRaw(v)

(* (x >> 8) & 0xFF and x & 0xFF of a 16-bit value *)
HighByte(x) == (x \div 256) % 256
LowByte(x)  == x % 256

(* (hi << 8) | lo, as uint16_t and as int16_t *)
Unsigned16(hi, lo) == 256 * hi + lo
Signed16(hi, lo) ==
  LET u == Unsigned16(hi, lo) IN IF u > RawMax THEN u - 256 * 256 ELSE u
=============================================================================
