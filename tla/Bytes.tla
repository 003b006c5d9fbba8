-------------------------------- MODULE Bytes --------------------------------
(***************************************************************************)
(* The unsigned and signed 8 and 16 bit arithmetic the emulated processors *)
(* are built on.  A byte is a number; its bits are the set of the          *)
(* positions that are one, so that &, | and ^ are set operations.          *)
(***************************************************************************)
EXTENDS Integers

\* The values of an unsigned type that has so many of them.
Unsigned(count) == 0 .. count - 1

Byte == Unsigned(256)
Word == Unsigned(65536)

\* Truncation to uint8_t and uint16_t.
Byte8(n) == n % 256
Word16(n) == n % 65536

High(word) == word \div 256
Low(word) == word % 256
Address(low, high) == low + 256 * high

\* static_cast<int8_t>
Signed(byte) == IF byte < 128 THEN byte ELSE byte - 256

\* What bits 0 to 7 are worth.
BitValues == <<1, 2, 4, 8, 16, 32, 64, 128>>

Bits(byte) == {bit \in 0 .. 7 : (byte \div BitValues[bit + 1]) % 2 = 1}

FromBits(bits) ==
  LET Value(bit) == IF bit \in bits THEN BitValues[bit + 1] ELSE 0
  IN Value(0) + Value(1) + Value(2) + Value(3) + Value(4) + Value(5) + Value(6) + Value(7)

And(a, b) == FromBits(Bits(a) \cap Bits(b))
Or(a, b) == FromBits(Bits(a) \cup Bits(b))
Xor(a, b) == FromBits((Bits(a) \cup Bits(b)) \ (Bits(a) \cap Bits(b)))
=============================================================================
