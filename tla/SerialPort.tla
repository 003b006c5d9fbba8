----------------------------- MODULE SerialPort -----------------------------
(***************************************************************************)
(* What a program may rely on when it sets the registers of an MMC1        *)
(* cartridge: there is one data line, the bits arrive lowest first, and    *)
(* the fifth one, by its address, decides which register takes them all.   *)
(***************************************************************************)
EXTENDS Integers, Sequences

CONSTANT Register    \* the names of the registers

VARIABLES
  bits,        \* the bits that arrived for the next value, in their order
  register,    \* the value of each register
  missing      \* the registers this cartridge does not have

vars == <<bits, register, missing>>

Bit == 0 .. 1

Assembled(b) == b[1] + 2 * b[2] + 4 * b[3] + 8 * b[4] + 16 * b[5]

Init ==
  /\ bits = <<>>
  /\ register = [r \in Register |-> 0]
  /\ missing \in SUBSET Register

Clear ==
  /\ bits' = <<>>
  /\ UNCHANGED <<register, missing>>

Shift(bit) ==
  /\ Len(bits) < 4
  /\ bits' = Append(bits, bit)
  /\ UNCHANGED <<register, missing>>

Commit(r, bit) ==
  /\ Len(bits) = 4
  /\ bits' = <<>>
  /\ register' = IF r \in missing THEN register
                 ELSE [register EXCEPT ![r] = Assembled(Append(bits, bit))]
  /\ UNCHANGED missing

Next ==
  \/ Clear
  \/ \E bit \in Bit : Shift(bit) \/ \E r \in Register : Commit(r, bit)

Spec == Init /\ [][Next]_vars
=============================================================================
