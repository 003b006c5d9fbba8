------------------------------ MODULE MCNesApu ------------------------------
(***************************************************************************)
(* The programs NesApu is checked with: one for each channel, one that is  *)
(* replaced while it plays, and one that waits until the sequencer and the *)
(* frames, which drift apart, are a step apart.                            *)
(***************************************************************************)
EXTENDS NesApu

MCWrites(a, values) == {a} \X values

\* Two frames and a half, and twelve.
MCShort == (5 * FrameTicks) \div 2
MCLong == 12 * FrameTicks

\* Constant volume, with the length counter running and halted; the length is
\* two half frames.
MCFirstPulse ==
  [most |-> 3, loads |-> 0, ticks |-> MCShort,
   writes |-> MCWrites(REG("Square_Pulse_1", 1), {31, 63})
                \cup MCWrites(REG("Square_Pulse_1", 3), {64})
                \cup MCWrites(REG("Square_Pulse_1", 4), {24, 25})
                \cup MCWrites(APU_STATUS, {0, 1})]

\* A sweep down, one up that leaves the range, and envelopes.
MCSecondPulse ==
  [most |-> 3, loads |-> 0, ticks |-> MCShort,
   writes |-> MCWrites(REG("Square_Pulse_2", 1), {1, 34})
                \cup MCWrites(REG("Square_Pulse_2", 2), {129, 137})
                \cup MCWrites(REG("Square_Pulse_2", 3), {64})
                \cup MCWrites(REG("Square_Pulse_2", 4), {24})
                \cup MCWrites(APU_STATUS, {2})]

MCTriangle ==
  [most |-> 3, loads |-> 0, ticks |-> MCShort,
   writes |-> MCWrites(REG("Triangle", 1), {3, 131})
                \cup MCWrites(REG("Triangle", 3), {64})
                \cup MCWrites(REG("Triangle", 4), {24})
                \cup MCWrites(APU_STATUS, {0, 4})
                \cup MCWrites(APU_FRAME_COUNTER, {128})]

MCReplaced ==
  [most |-> 2, loads |-> 1, ticks |-> MCShort,
   writes |-> MCWrites(REG("Square_Pulse_1", 1), {31})
                \cup MCWrites(REG("Square_Pulse_1", 4), {25})
                \cup MCWrites(REG("Square_Pulse_2", 3), {64})]

MCPatient == [most |-> 0, loads |-> 0, ticks |-> MCLong, writes |-> {}]

MCPrograms ==
  [first |-> MCFirstPulse, second |-> MCSecondPulse, triangle |-> MCTriangle,
   replaced |-> MCReplaced, patient |-> MCPatient]
MCGarbage == {3}
MCUnset == {{}, Registers}
=============================================================================
