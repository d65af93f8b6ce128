-------------------------------- MODULE Crc8 --------------------------------
(***************************************************************************)
(* calc_crc8_maxim (src/src/ddsm115_driver_client.cpp): the checksum in    *)
(* the last byte of every frame on the bus.                                *)
(*                                                                         *)
(* Its two byte operations are tabulated, as CRC implementations do; @@    *)
(* with the empty function makes TLC compute a table once.                 *)
(***************************************************************************)
EXTENDS Integers, Sequences, TLC

Byte == 0 .. 255

(* ^ of two bytes, bit by bit *)
XorBit(a, b, i) == 2^i * ((a \div 2^i + b \div 2^i) % 2)
Xor(a, b) ==
  XorBit(a, b, 0) + XorBit(a, b, 1) + XorBit(a, b, 2) + XorBit(a, b, 3)
  + XorBit(a, b, 4) + XorBit(a, b, 5) + XorBit(a, b, 6) + XorBit(a, b, 7)

XorTable == [a \in Byte |-> [b \in Byte |-> Xor(a, b)] @@ <<>>] @@ <<>>

(* 0x31 reflected *)
ReflectedPolynomial == 140

(* One turn of the inner loop *)
Shift(crc) ==
  IF crc % 2 = 1 THEN Xor(crc \div 2, ReflectedPolynomial) ELSE crc \div 2

(* All eight turns, for every value of crc ^ data[i] *)
ShiftByte ==
  [crc \in Byte |->
     Shift(Shift(Shift(Shift(Shift(Shift(Shift(Shift(crc))))))))] @@ <<>>

(* The checksum of the bytes of data *)
Crc(data) ==
  LET crc[n \in 0 .. Len(data)] ==
        IF n = 0 THEN 0 ELSE ShiftByte[XorTable[crc[n - 1]][data[n]]]
  IN crc[Len(data)]
=============================================================================
