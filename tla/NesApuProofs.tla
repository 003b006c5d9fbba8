---------------------------- MODULE NesApuProofs ----------------------------
(***************************************************************************)
(* For any programs and any frames of at least twenty steps of the APU,    *)
(* those of the code among them, whatever the steps leave of a frame: a    *)
(* written register waits for a step of the sequencer at most, a frame     *)
(* brings two length and four envelope clocks but next to a step, a pulse  *)
(* channel sounds only if it is asked to, and as long as its length says.  *)
(***************************************************************************)
EXTENDS NesApu, TLAPS

-----------------------------------------------------------------------------
(***************************************************************************)
(* Division                                                                *)
(***************************************************************************)

LEMMA Divides ==
  ASSUME NEW n \in Int, NEW b \in Int, b > 0
  PROVE  n \div b \in Int /\ n % b \in Int
         /\ n = b * (n \div b) + (n % b) /\ 0 <= n % b /\ n % b < b
OBVIOUS

LEMMA Divided ==
  ASSUME NEW b \in Int, b > 0, NEW q \in Int, NEW r \in Int, 0 <= r, r < b,
         NEW n \in Int, n = b * q + r
  PROVE  n \div b = q /\ n % b = r
<1> DEFINE q1 == n \div b
           r1 == n % b
<1>1. q1 \in Int /\ r1 \in Int /\ n = b * q1 + r1 /\ 0 <= r1 /\ r1 < b
  BY Divides
<1> HIDE DEF q1, r1
<1>2. q1 = q
  <2>1. ASSUME NEW d \in Int, d >= 1 PROVE b * d \in Int /\ b * d >= b
    BY <2>1
  <2>2. b * (q1 - q) = r - r1 /\ b * (q - q1) = r1 - r
    BY <1>1
  <2>3. ~(q1 - q >= 1)
    BY <1>1, <2>1, <2>2
  <2>4. ~(q - q1 >= 1)
    BY <1>1, <2>1, <2>2
  <2>5. QED
    BY <1>1, <2>3, <2>4
<1>3. r1 = r
  BY <1>1, <1>2
<1>4. QED
  BY <1>2, <1>3 DEF q1, r1

LEMMA Monotone ==
  ASSUME NEW n \in Int, n >= 0, NEW a \in Int, NEW b \in Int, a <= b
  PROVE  n * a \in Int /\ n * b \in Int /\ n * a <= n * b
<1>1. n * (b - a) >= 0
  OBVIOUS
<1>2. n * (b - a) = n * b - n * a
  OBVIOUS
<1>3. QED
  BY <1>1, <1>2

\* A quotient passes m when (m + 1) * b is reached.
Passes(n, b, m) == n >= (m + 1) * b

LEMMA QuotientPasses ==
  ASSUME NEW b \in Int, b > 0, NEW n \in Int, NEW m \in Int
  PROVE  n \div b > m <=> Passes(n, b, m)
<1> DEFINE q == n \div b
           r == n % b
<1>1. q \in Int /\ r \in Int /\ n = b * q + r /\ 0 <= r /\ r < b
  BY Divides
<1> HIDE DEF q, r
<1>2. ASSUME NEW d \in Int, d >= 0 PROVE b * d \in Int /\ b * d >= 0
  BY <1>2
<1>3. CASE q > m
  <2>1. b * (q - (m + 1)) >= 0
    BY <1>1, <1>2, <1>3
  <2>2. n >= (m + 1) * b
    BY <1>1, <2>1
  <2>3. QED
    BY <1>3, <2>2 DEF Passes, q
<1>4. CASE ~(q > m)
  <2>1. b * (m - q) >= 0
    BY <1>1, <1>2, <1>4
  <2>2. ~(n >= (m + 1) * b)
    BY <1>1, <2>1
  <2>3. QED
    BY <1>4, <2>2 DEF Passes, q
<1>5. QED
  BY <1>3, <1>4

-----------------------------------------------------------------------------
(***************************************************************************)
(* The modes                                                               *)
(***************************************************************************)

\* The bits of zero: none.
LEMMA NoBits == Bits(0) = {}
<1>1. \A bit \in 0 .. 7 : BitValues[bit + 1] \in Int /\ BitValues[bit + 1] > 0
  BY DEF BitValues
<1>2. ASSUME NEW bit \in 0 .. 7 PROVE (0 \div BitValues[bit + 1]) % 2 = 0
  <2> DEFINE value == BitValues[bit + 1]
             zero == 0
  <2>1. value \in Int /\ value > 0
    BY <1>1
  <2> HIDE DEF value
  <2>2. zero \in Int /\ 0 <= zero /\ zero < value /\ zero = value * 0 + zero
    BY <2>1
  <2>3. zero \div value = 0
    BY <2>1, <2>2, Divided
  <2>4. QED
    BY <2>3 DEF value
<1>3. QED
  BY <1>2 DEF Bits

LEMMA Frames ==
  /\ FrameTicks \in Int /\ FrameTicks > 0
  /\ StepTicks \in Int /\ StepTicks >= 1 /\ StepTicks <= FrameTicks
  /\ FrameTicks \div 4 \in Int /\ FrameTicks \div 5 \in Int
  /\ 4 * StepTicks <= FrameTicks \div 5 /\ FrameTicks \div 5 <= FrameTicks \div 4
  /\ FrameTicks \div 4 + StepTicks <= 2 * (FrameTicks \div 5)
BY FrameTicksAssumption

LEMMA Modes ==
  ASSUME steps_per_frame_ \in {4, 5}
  PROVE  /\ cycles_per_step_ \in Int /\ cycles_per_step_ >= 1
         /\ 4 * StepTicks <= cycles_per_step_
         /\ Remainder \in 0 .. 4 /\ FrameTicks = steps_per_frame_ * cycles_per_step_ + Remainder
         /\ FrameTicks \div 5 <= cycles_per_step_ /\ cycles_per_step_ <= FrameTicks \div 4
BY Frames DEF cycles_per_step_, Remainder

\* A step of the sequencer is due, or a frame is over, with this step of the APU.
Due == Passes(clock_ticks_ + StepTicks, cycles_per_step_, frame_steps_)
FrameOver == Passes(clock_ticks_ + StepTicks, FrameTicks, frame_count_)

Frame == IF tally.over THEN NewFrame(~Settled) ELSE tally

\* Neither sequencer nor frame counter is ahead of the clock.
TimeInv ==
  /\ steps_per_frame_ \in {4, 5}
  /\ registers_ = [r \in Registers |-> registers_[r]]
  /\ registers_[APU_FRAME_COUNTER] = 0
  /\ clock_ticks_ \in Nat /\ frame_steps_ \in Nat /\ frame_count_ \in Nat /\ waiting \in Nat
  /\ frame_steps_ * cycles_per_step_ + waiting <= clock_ticks_
  /\ frame_count_ * FrameTicks <= clock_ticks_
  /\ waiting < cycles_per_step_

\* What a step of the APU does to the counters.
LEMMA StepCounts ==
  ASSUME TimeInv, Step
  PROVE  /\ clock_ticks_' = clock_ticks_ + StepTicks /\ registers_' = registers_
         /\ frame_steps_' = IF Due THEN frame_steps_ + 1 ELSE frame_steps_
         /\ frame_count_' = IF FrameOver THEN frame_count_ + 1 ELSE frame_count_
         /\ waiting' = IF Due THEN 0 ELSE waiting + StepTicks
         /\ steps_per_frame_' = IF Due /\ APU_FRAME_COUNTER \in had_write_flags_ THEN 5
                                ELSE steps_per_frame_
         /\ tally' = [Counted(Frame, Due, (frame_steps_ + 1) % steps_per_frame_)
                        EXCEPT !.over = FrameOver]
         /\ had_write_flags_' = IF Due THEN {} ELSE had_write_flags_
<1> DEFINE now == clock_ticks_ + StepTicks
           due == now \div cycles_per_step_ > frame_steps_
           over == now \div FrameTicks > frame_count_
<1>1. /\ now \in Int /\ frame_steps_ \in Int /\ frame_count_ \in Int
      /\ cycles_per_step_ \in Int /\ cycles_per_step_ > 0
      /\ FrameTicks \in Int /\ FrameTicks > 0
  BY Modes, Frames DEF TimeInv
<1>2. due = Due /\ over = FrameOver
  <2> HIDE DEF now
  <2>1. (due <=> Passes(now, cycles_per_step_, frame_steps_))
        /\ (over <=> Passes(now, FrameTicks, frame_count_))
    BY <1>1, QuotientPasses
  <2>2. (due <=> Due) /\ (over <=> FrameOver)
    BY <2>1 DEF Due, FrameOver, now
  <2> HIDE DEF due, over
  <2>3. due \in BOOLEAN /\ over \in BOOLEAN /\ Due \in BOOLEAN /\ FrameOver \in BOOLEAN
    BY DEF due, over, Due, FrameOver, Passes
  <2>4. QED
    BY <2>2, <2>3
<1>3. get_frame_counter_mode_steps(registers_[APU_FRAME_COUNTER]) = 5
  BY NoBits DEF TimeInv, get_frame_counter_mode_steps, Bit
<1>4. /\ clock_ticks_' = now /\ registers_' = registers_
      /\ IF due THEN Quarter((frame_steps_ + 1) % steps_per_frame_)
         ELSE UNCHANGED <<frame_steps_, streams_, params_, steps_per_frame_, had_write_flags_>>
      /\ frame_count_' = IF over THEN frame_count_ + 1 ELSE frame_count_
      /\ waiting' = IF due THEN 0 ELSE waiting + StepTicks
      /\ tally' = [Counted(Frame, due, (frame_steps_ + 1) % steps_per_frame_)
                     EXCEPT !.over = over]
  BY DEF Step, Frame
<1>5. tally' = [Counted(Frame, Due, (frame_steps_ + 1) % steps_per_frame_)
                 EXCEPT !.over = FrameOver]
  BY <1>2, <1>4
<1>6. /\ frame_count_' = IF FrameOver THEN frame_count_ + 1 ELSE frame_count_
      /\ waiting' = IF Due THEN 0 ELSE waiting + StepTicks
      /\ IF Due THEN Quarter((frame_steps_ + 1) % steps_per_frame_)
         ELSE UNCHANGED <<frame_steps_, streams_, params_, steps_per_frame_, had_write_flags_>>
  BY <1>2, <1>4
<1> HIDE DEF due, over
<1>7. CASE Due
  BY <1>3, <1>4, <1>5, <1>6, <1>7 DEF Quarter
<1>8. CASE ~Due
  BY <1>4, <1>5, <1>6, <1>8
<1>9. QED
  BY <1>7, <1>8

LEMMA TimeStarts == Init => TimeInv
<1> SUFFICES ASSUME Init
             PROVE  TimeInv
  OBVIOUS
<1>1. /\ steps_per_frame_ = 4 /\ clock_ticks_ = 0 /\ frame_steps_ = 0 /\ frame_count_ = 0
      /\ waiting = 0 /\ registers_ = [r \in Registers |-> 0]
  BY DEF Init
<1>2. APU_FRAME_COUNTER \in Registers
  BY DEF Registers
<1>3. QED
  BY <1>1, <1>2, Modes, Frames DEF TimeInv

LEMMA TimeStep ==
  ASSUME TimeInv, [Next]_vars
  PROVE  TimeInv'
<1>1. /\ cycles_per_step_ \in Int /\ cycles_per_step_ >= 1
      /\ FrameTicks \div 5 <= cycles_per_step_ /\ cycles_per_step_ <= FrameTicks \div 4
      /\ StepTicks \in Int /\ StepTicks >= 1
  BY Modes, Frames DEF TimeInv
<1>2. CASE Step
  <2>1. /\ clock_ticks_' \in Nat /\ frame_steps_' \in Nat /\ frame_count_' \in Nat
        /\ waiting' \in Nat /\ steps_per_frame_' \in {4, 5} /\ registers_' = registers_
    BY <1>1, <1>2, StepCounts DEF TimeInv
  <2>2. frame_count_' * FrameTicks <= clock_ticks_'
    BY <1>2, StepCounts, Frames DEF TimeInv, FrameOver, Passes
  <2>3. cycles_per_step_' \in Int /\ 1 <= cycles_per_step_' /\ cycles_per_step_' <= cycles_per_step_
    BY <1>1, <1>2, StepCounts, Frames DEF TimeInv, cycles_per_step_
  <2>4. CASE Due
    <3> DEFINE steps == frame_steps_ + 1
    <3>1. frame_steps_' = steps /\ waiting' = 0 /\ clock_ticks_' >= steps * cycles_per_step_
      BY <1>2, <2>4, StepCounts DEF Due, Passes
    <3>2. steps \in Int /\ steps >= 0
      BY DEF TimeInv
    <3> HIDE DEF steps
    <3> DEFINE before == steps * cycles_per_step_
               after == steps * cycles_per_step_'
    <3>3. before \in Int /\ after \in Int /\ after <= before
      BY <1>1, <2>3, <3>2, Monotone
    <3>4. clock_ticks_' >= after
      <4>1. clock_ticks_' >= before
        BY <3>1
      <4> HIDE DEF before, after
      <4>2. QED
        BY <2>1, <3>3, <4>1
    <3>5. QED
      BY <2>1, <2>2, <2>3, <3>1, <3>4 DEF TimeInv
  <2>5. CASE ~Due
    <3>1. /\ frame_steps_' = frame_steps_ /\ waiting' = waiting + StepTicks
          /\ clock_ticks_' = clock_ticks_ + StepTicks /\ cycles_per_step_' = cycles_per_step_
      BY <1>2, <2>5, StepCounts DEF cycles_per_step_
    <3>2. clock_ticks_ + StepTicks < (frame_steps_ + 1) * cycles_per_step_
      <4> DEFINE next == (frame_steps_ + 1) * cycles_per_step_
      <4>1. next \in Int /\ clock_ticks_ \in Int /\ ~(clock_ticks_ + StepTicks >= next)
        BY <1>1, <2>5 DEF TimeInv, Due, Passes
      <4> HIDE DEF next
      <4>2. clock_ticks_ + StepTicks < next
        BY <1>1, <4>1
      <4>3. QED
        BY <4>2 DEF next
    <3>3. (frame_steps_ + 1) * cycles_per_step_ = frame_steps_ * cycles_per_step_ + cycles_per_step_
      BY <1>1 DEF TimeInv
    <3> DEFINE done == frame_steps_ * cycles_per_step_
    <3>4. done \in Int
      BY <1>1 DEF TimeInv
    <3>5. frame_steps_' * cycles_per_step_' = done
      BY <3>1
    <3>6. done + waiting <= clock_ticks_
      BY DEF TimeInv
    <3> HIDE DEF done
    <3>7. /\ waiting + StepTicks < cycles_per_step_
          /\ done + (waiting + StepTicks) <= clock_ticks_ + StepTicks
      <4>1. clock_ticks_ + StepTicks < done + cycles_per_step_
        BY <3>2, <3>3 DEF done
      <4>2. QED
        BY <1>1, <3>4, <3>6, <4>1 DEF TimeInv
    <3>8. QED
      BY <2>1, <2>2, <3>1, <3>5, <3>7 DEF TimeInv
  <2>6. QED
    BY <2>4, <2>5
<1>3. ASSUME NEW a, NEW value, write_register(a, value)
      PROVE  TimeInv'
  <2>1. UNCHANGED <<clock_ticks_, steps_per_frame_, frame_steps_, frame_count_, waiting>>
    BY <1>3 DEF write_register
  <2>2. APU_FRAME_COUNTER \in Registers
    BY DEF Registers
  <2>3. \/ registers_' = registers_
        \/ a # APU_FRAME_COUNTER /\ registers_' = [registers_ EXCEPT ![a] = value]
    BY <1>3 DEF write_register
  <2>4. registers_' = [r \in Registers |-> registers_'[r]] /\ registers_'[APU_FRAME_COUNTER] = 0
    BY <2>2, <2>3 DEF TimeInv
  <2>5. QED
    BY <2>1, <2>4 DEF TimeInv, cycles_per_step_
<1>4. CASE reset
  <2>1. /\ clock_ticks_' = clock_ticks_ /\ waiting' = waiting /\ steps_per_frame_' = 4
        /\ frame_steps_' = 0 /\ frame_count_' = 0 /\ registers_' = [r \in Registers |-> 0]
    BY <1>4 DEF reset
  <2>2. APU_FRAME_COUNTER \in Registers
    BY DEF Registers
  <2>3. cycles_per_step_' = FrameTicks \div 4
    BY <2>1 DEF cycles_per_step_
  <2>4. waiting <= clock_ticks_
    BY <1>1 DEF TimeInv
  <2>5. QED
    BY <1>1, <2>1, <2>2, <2>3, <2>4, Frames DEF TimeInv
<1>5. CASE UNCHANGED vars
  BY <1>5 DEF vars, TimeInv, cycles_per_step_
<1>6. QED
  BY <1>2, <1>3, <1>4, <1>5 DEF Next

\* No write waits longer than the sequencer takes for a step, in either mode, for
\* any programs and any frames of at least twenty steps of the APU.
THEOREM HandledInTime == Spec => []WritesHandledInTime
<1>1. TimeInv => WritesHandledInTime
  BY Modes DEF TimeInv, WritesHandledInTime
<1>2. QED
  BY <1>1, TimeStarts, TimeStep, PTL DEF Spec

-----------------------------------------------------------------------------
(***************************************************************************)
(* The clocks of a frame                                                   *)
(***************************************************************************)

\* How often the length counters were clocked up to a step of the sequencer, of
\* which there are so many in a frame: with the first and the last but one in a
\* frame of four and with the first and the fourth in one of five.
Clocks(steps, n) == (n + steps - 1) \div steps + (n + 1) \div steps

\* And the envelopes: with each of four, and all but the third of five.
Decays(steps, n) == IF steps = 4 THEN n ELSE n - (n + 2) \div 5

LEMMA ClocksStep ==
  ASSUME steps_per_frame_ \in {4, 5}, NEW n \in Int
  PROVE  /\ Clocks(steps_per_frame_, n) \in Int /\ Decays(steps_per_frame_, n) \in Int
         /\ Clocks(steps_per_frame_, n + 1)
              = Clocks(steps_per_frame_, n)
                  + (IF LengthClock((n + 1) % steps_per_frame_) THEN 1 ELSE 0)
         /\ Decays(steps_per_frame_, n + 1)
              = Decays(steps_per_frame_, n)
                  + (IF EnvelopeClock((n + 1) % steps_per_frame_) THEN 1 ELSE 0)
<1>1. CASE steps_per_frame_ = 4
  BY <1>1 DEF Clocks, Decays, LengthClock, EnvelopeClock
<1>2. CASE steps_per_frame_ = 5
  BY <1>2 DEF Clocks, Decays, LengthClock, EnvelopeClock
<1>3. QED
  BY <1>1, <1>2

\* Wherever a frame begins in the pattern of the sequencer, its steps bring two
\* clocks and four, and an odd step one more or fewer at most.
LEMMA ClocksOfAFrame ==
  ASSUME NEW steps \in {4, 5}, NEW from \in Int, NEW odd \in {-1, 0, 1}
  PROVE  /\ Clocks(steps, from + steps + odd) - Clocks(steps, from) - 2 \in {0, odd}
         /\ Decays(steps, from + steps + odd) - Decays(steps, from) - 4 \in {0, odd}
<1>1. CASE steps = 4
  BY <1>1 DEF Clocks, Decays
<1>2. CASE steps = 5
  BY <1>2 DEF Clocks, Decays
<1>3. QED
  BY <1>1, <1>2

\* A clock that moves on by less than a step passes the end of one step at most.
LEMMA Advances ==
  ASSUME NEW b \in Int, b > 0, NEW n \in Int, NEW d \in Int, 0 <= d, d <= b
  PROVE  (n + d) \div b \in {n \div b, n \div b + 1}
<1> DEFINE q == n \div b
           r == n % b
           now == n + d
<1>1. q \in Int /\ r \in Int /\ n = b * q + r /\ 0 <= r /\ r < b
  BY Divides
<1> HIDE DEF q, r
<1>2. CASE r + d < b
  <2> DEFINE rest == r + d
  <2>1. rest \in Int /\ 0 <= rest /\ rest < b /\ now = b * q + rest /\ now \in Int
    BY <1>1, <1>2
  <2> HIDE DEF rest, now
  <2>2. now \div b = q
    BY <1>1, <2>1, Divided
  <2>3. QED
    BY <2>2 DEF now, q
<1>3. CASE ~(r + d < b)
  <2> DEFINE rest == r + d - b
             next == q + 1
  <2>1. /\ rest \in Int /\ 0 <= rest /\ rest < b /\ now = b * next + rest
        /\ now \in Int /\ next \in Int
    BY <1>1, <1>3
  <2> HIDE DEF rest, now, next
  <2>2. now \div b = next
    BY <2>1, Divided
  <2>3. QED
    BY <2>2 DEF now, next, q
<1>4. QED
  BY <1>2, <1>3

\* How many steps of b ticks are in a frame of n such steps and a remainder, which
\* the APU sees begin and end up to d ticks late.
LEMMA StepsOfAFrame ==
  ASSUME NEW b \in Int, NEW n \in {4, 5}, NEW r \in 0 .. 4, NEW d \in Int,
         d >= 1, 4 * d <= b, NEW from \in Int, NEW to \in Int,
         n * b + r - d < to - from, to - from < n * b + r + d
  PROVE  LET odd == to \div b - from \div b - n
             age == from % b
         IN \/ odd = 0
            \/ odd = 1 /\ age + r + d > b
            \/ odd = -1 /\ age + r < d
<1> DEFINE q1 == from \div b
           age == from % b
           q2 == to \div b
           rest == to % b
           odd == q2 - q1 - n
<1>1. /\ q1 \in Int /\ age \in Int /\ from = b * q1 + age /\ 0 <= age /\ age < b
      /\ q2 \in Int /\ rest \in Int /\ to = b * q2 + rest /\ 0 <= rest /\ rest < b
  BY Divides
<1> HIDE DEF q1, age, q2, rest
<1> DEFINE excess == b * odd
<1>2. odd \in Int /\ excess \in Int /\ excess = to - from - n * b + age - rest
  BY <1>1
<1>3. r - d < excess + rest - age /\ excess + rest - age < r + d
  <2> DEFINE whole == n * b
  <2>1. whole \in Int
    OBVIOUS
  <2> HIDE DEF excess, whole
  <2>2. excess = to - from - whole + age - rest
    BY <1>2 DEF whole
  <2>3. whole + r - d < to - from /\ to - from < whole + r + d
    BY DEF whole
  <2>4. QED
    BY <1>1, <1>2, <2>1, <2>2, <2>3
<1>4. /\ odd >= 2 => excess >= 2 * b
      /\ odd = 1 => excess = b
      /\ odd = -1 => excess = -b
      /\ odd <= -2 => excess <= -2 * b
  <2>1. ASSUME odd >= 2 PROVE excess >= 2 * b
    <3>1. b * 2 <= b * odd
      <4> HIDE DEF odd
      <4>1. QED
        BY <1>2, <2>1, Monotone
    <3>2. QED
      BY <3>1
  <2>2. ASSUME odd <= -2 PROVE excess <= -2 * b
    <3>1. b * odd <= b * (-2)
      <4> HIDE DEF odd
      <4>1. QED
        BY <1>2, <2>2, Monotone
    <3>2. QED
      BY <3>1
  <2>3. (odd = 1 => excess = b) /\ (odd = -1 => excess = -b)
    OBVIOUS
  <2>4. QED
    BY <2>1, <2>2, <2>3
<1> HIDE DEF odd, excess
<1>5. ~(odd >= 2) /\ ~(odd <= -2)
  BY <1>1, <1>2, <1>3, <1>4
<1>6. odd = 1 => age + r + d > b
  BY <1>1, <1>2, <1>3, <1>4
<1>7. odd = -1 => age + r < d
  BY <1>1, <1>2, <1>3, <1>4
<1>8. odd = 0 \/ (odd = 1 /\ age + r + d > b) \/ (odd = -1 /\ age + r < d)
  BY <1>2, <1>5, <1>6, <1>7
<1>9. QED
  BY <1>8 DEF odd, age, q1, q2

TallyShaped(t) ==
  /\ t = [begun |-> t.begun, steps |-> t.steps, lengths |-> t.lengths,
          envelopes |-> t.envelopes, disturbed |-> t.disturbed, over |-> t.over]
  /\ t.begun \in Int /\ t.disturbed \in BOOLEAN /\ t.over \in BOOLEAN

\* The APU sees a frame end less than one of its steps late.
Punctual(ticks) ==
  frame_count_ * FrameTicks <= ticks /\ ticks < frame_count_ * FrameTicks + StepTicks

\* The clocks that were counted since the frame began.
Tallied(t) ==
  LET first == t.begun \div cycles_per_step_
  IN /\ t.steps = frame_steps_ - first
     /\ t.lengths = Clocks(steps_per_frame_, frame_steps_) - Clocks(steps_per_frame_, first)
     /\ t.envelopes = Decays(steps_per_frame_, frame_steps_) - Decays(steps_per_frame_, first)

\* A frame that began in time and is not over, with a sequencer that is not behind.
Aged(t) ==
  /\ frame_steps_ = clock_ticks_ \div cycles_per_step_
  /\ ~Passes(clock_ticks_, FrameTicks, frame_count_)
  /\ Punctual(t.begun)
  /\ Tallied(t)

\* A frame counter that is behind the clock moves with every step, and then so does
\* the sequencer: they are level.  Where both are right at the end of a frame, the
\* frame ends in time; and an undisturbed frame has had the clocks of its age.
FrameInv ==
  /\ TallyShaped(tally)
  /\ Passes(clock_ticks_, FrameTicks, frame_count_) => frame_steps_ = frame_count_
  /\ tally.over /\ Settled => Punctual(clock_ticks_)
  /\ ClockedTwiceAFrame
  /\ ~tally.disturbed /\ ~tally.over => Aged(tally)

\* The frame that a step of the APU counts for.
LEMMA FrameAged ==
  ASSUME TimeInv, FrameInv, ~Frame.disturbed
  PROVE  Aged(Frame)
<1>1. CASE ~tally.over
  BY <1>1 DEF Frame, FrameInv
<1>2. CASE tally.over
  <2>1. Frame = NewFrame(~Settled)
    BY <1>2 DEF Frame
  <2>2. Settled
    BY <2>1 DEF NewFrame
  <2>3. Punctual(clock_ticks_) /\ Frame.begun = clock_ticks_
    BY <1>2, <2>1, <2>2 DEF FrameInv, NewFrame
  <2>4. frame_steps_ = clock_ticks_ \div cycles_per_step_
    BY <2>2 DEF Settled
  <2>5. ~Passes(clock_ticks_, FrameTicks, frame_count_)
    <3> DEFINE begun == frame_count_ * FrameTicks
    <3>1. /\ begun \in Int /\ (frame_count_ + 1) * FrameTicks = begun + FrameTicks
          /\ StepTicks <= FrameTicks /\ StepTicks \in Int /\ FrameTicks \in Int
          /\ clock_ticks_ \in Int
      BY Frames DEF TimeInv
    <3>2. clock_ticks_ < begun + StepTicks
      BY <2>3 DEF Punctual
    <3> HIDE DEF begun
    <3>3. ~(clock_ticks_ >= begun + FrameTicks)
      BY <3>1, <3>2
    <3>4. QED
      BY <3>1, <3>3 DEF Passes
  <2>6. Tallied(Frame)
    <3>1. /\ Clocks(steps_per_frame_, frame_steps_) \in Int
          /\ Decays(steps_per_frame_, frame_steps_) \in Int /\ frame_steps_ \in Int
      BY ClocksStep DEF TimeInv
    <3>2. /\ Frame.steps = 0 /\ Frame.lengths = 0 /\ Frame.envelopes = 0
          /\ Frame.begun \div cycles_per_step_ = frame_steps_
      BY <2>1, <2>4 DEF NewFrame
    <3>3. QED
      BY <3>1, <3>2 DEF Tallied
  <2>7. QED
    BY <2>3, <2>4, <2>5, <2>6 DEF Aged
<1>3. QED
  BY <1>1, <1>2

\* A counter that is behind is level with the sequencer, still.
LEMMA BehindTogether ==
  ASSUME TimeInv, FrameInv, Step,
         Passes(clock_ticks_, FrameTicks, frame_count_)
  PROVE  Due /\ FrameOver /\ frame_steps_' = frame_count_' /\ frame_count_' >= 1
<1>1. /\ cycles_per_step_ \in Int /\ cycles_per_step_ >= 1 /\ frame_count_ \in Int
      /\ frame_count_ >= 0 /\ FrameTicks \in Int /\ cycles_per_step_ <= FrameTicks
      /\ clock_ticks_ \in Int /\ StepTicks \in Int /\ StepTicks >= 1
  BY Modes, Frames DEF TimeInv
<1>2. frame_steps_ = frame_count_
  BY DEF FrameInv
<1> DEFINE n == frame_count_ + 1
           least == n * cycles_per_step_
           most == n * FrameTicks
<1>3. n \in Int /\ n >= 0
  BY <1>1
<1> HIDE DEF n
<1>4. least \in Int /\ most \in Int /\ least <= most
  BY <1>1, <1>3, Monotone
<1>5. clock_ticks_ >= most
  BY DEF Passes, n
<1> HIDE DEF least, most
<1>6. clock_ticks_ + StepTicks >= most /\ clock_ticks_ + StepTicks >= least
  BY <1>1, <1>4, <1>5
<1>7. Due /\ FrameOver
  BY <1>2, <1>6 DEF Due, FrameOver, Passes, n, least, most
<1>8. QED
  BY <1>1, <1>2, <1>7, StepCounts

\* The end of a frame is where the counter says, or the sequencer is not right yet.
LEMMA EndsInTime ==
  ASSUME TimeInv, FrameInv, Step, FrameOver, Settled'
  PROVE  Punctual(clock_ticks_)'
<1>1. /\ FrameTicks \in Int /\ FrameTicks > 0 /\ StepTicks \in Int
      /\ frame_count_ \in Int /\ clock_ticks_ \in Int
      /\ clock_ticks_' = clock_ticks_ + StepTicks /\ frame_count_' = frame_count_ + 1
  BY StepCounts, Frames DEF TimeInv
<1>2. CASE ~Passes(clock_ticks_, FrameTicks, frame_count_)
  <2> DEFINE end == (frame_count_ + 1) * FrameTicks
  <2>1. end \in Int
    BY <1>1
  <2>2. ~(clock_ticks_ >= end) /\ clock_ticks_ + StepTicks >= end
    BY <1>2 DEF Passes, FrameOver
  <2> HIDE DEF end
  <2>3. end <= clock_ticks_' /\ clock_ticks_' < end + StepTicks
    BY <1>1, <2>1, <2>2
  <2>4. QED
    BY <1>1, <2>3 DEF end, Punctual
<1>3. CASE Passes(clock_ticks_, FrameTicks, frame_count_)
  <2> DEFINE C == cycles_per_step_'
             n == frame_count_'
             now == clock_ticks_'
  <2>1. frame_steps_' = n /\ n >= 1 /\ n \in Int
    BY <1>1, <1>3, BehindTogether
  <2>2. C \in Int /\ C >= 1 /\ 4 * C <= FrameTicks
    <3>1. steps_per_frame_' \in {4, 5}
      BY TimeStep DEF Next, TimeInv
    <3>2. C = FrameTicks \div steps_per_frame_'
      BY DEF cycles_per_step_
    <3>3. C = FrameTicks \div 4 \/ C = FrameTicks \div 5
      BY <3>1, <3>2
    <3> HIDE DEF C
    <3>4. QED
      BY <3>3, Frames
  <2>3. now >= n * FrameTicks /\ now \in Int
    BY <1>1 DEF FrameOver, Passes
  <2>4. n = now \div C
    BY <2>1 DEF Settled
  <2> HIDE DEF C, n, now
  <2>5. ~Passes(now, C, n)
    <3>1. now \div C > n <=> Passes(now, C, n)
      BY <2>1, <2>2, <2>3, QuotientPasses
    <3>2. ~(now \div C > n)
      BY <2>1, <2>4
    <3>3. QED
      BY <3>1, <3>2
  <2>6. n * (4 * C) <= n * FrameTicks /\ n * (4 * C) \in Int /\ n * FrameTicks \in Int
    BY <1>1, <2>1, <2>2, Monotone
  <2>7. n * (4 * C) = 4 * (n * C) /\ (n + 1) * C = n * C + C
    BY <2>1, <2>2
  <2>8. C * 1 <= C * n /\ C * n = n * C /\ n * C \in Int
    BY <2>1, <2>2, Monotone
  <2> DEFINE done == n * C
             all == n * FrameTicks
  <2>9. done \in Int /\ all \in Int /\ C <= done /\ 4 * done <= all
    BY <2>2, <2>6, <2>7, <2>8
  <2>10. ~(now >= done + C) /\ now >= all
    BY <2>3, <2>5, <2>7 DEF Passes
  <2> HIDE DEF done, all
  <2>11. FALSE
    BY <2>2, <2>3, <2>9, <2>10
  <2>12. QED
    BY <2>11
<1>4. QED
  BY <1>2, <1>3

\* What a step of the APU makes of the tally, in an undisturbed frame.
LEMMA TallyCounts ==
  ASSUME TimeInv, FrameInv, Step, NEW step, step = (frame_steps_ + 1) % steps_per_frame_
  PROVE  /\ TallyShaped(tally')
         /\ tally'.over = FrameOver
         /\ tally'.begun = Frame.begun
         /\ ~tally'.disturbed =>
              /\ ~Frame.disturbed
              /\ ~(Due /\ APU_FRAME_COUNTER \in had_write_flags_)
              /\ Due => /\ tally'.steps = Frame.steps + 1
                        /\ tally'.lengths = Frame.lengths + (IF LengthClock(step) THEN 1 ELSE 0)
                        /\ tally'.envelopes
                             = Frame.envelopes + (IF EnvelopeClock(step) THEN 1 ELSE 0)
              /\ ~Due => /\ tally'.steps = Frame.steps
                         /\ tally'.lengths = Frame.lengths
                         /\ tally'.envelopes = Frame.envelopes
<1> DEFINE frame == Frame
           flagged == APU_FRAME_COUNTER \in had_write_flags_
           steps == frame.steps + 1
           length == frame.lengths + (IF LengthClock(step) THEN 1 ELSE 0)
           envelope == frame.envelopes + (IF EnvelopeClock(step) THEN 1 ELSE 0)
<1>1. TallyShaped(frame)
  <2>1. clock_ticks_ \in Int /\ (~Settled) \in BOOLEAN
    BY DEF TimeInv, Settled
  <2>2. CASE tally.over
    <3> DEFINE late == ~Settled
    <3>1. late \in BOOLEAN /\ Frame = NewFrame(late)
      BY <2>1, <2>2 DEF Frame
    <3> HIDE DEF late
    <3>2. QED
      BY <2>1, <3>1 DEF NewFrame, TallyShaped
  <2>3. CASE ~tally.over
    BY <2>3 DEF Frame, FrameInv
  <2>4. QED
    BY <2>2, <2>3
<1>2. tally' = [Counted(frame, Due, step) EXCEPT !.over = FrameOver]
  BY StepCounts
<1>3. FrameOver \in BOOLEAN /\ Due \in BOOLEAN /\ flagged \in BOOLEAN
  BY DEF FrameOver, Due, Passes
<1> HIDE DEF frame, flagged
<1>4. CASE Due
  <2>1. Counted(frame, Due, step)
          = [frame EXCEPT !.steps = steps, !.lengths = length, !.envelopes = envelope,
                          !.disturbed = @ \/ flagged]
    BY <1>1, <1>4 DEF Counted, TallyShaped, flagged
  <2> HIDE DEF steps, length, envelope
  <2>2. (frame.disturbed \/ flagged) \in BOOLEAN
    OBVIOUS
  <2>3. tally' = [begun |-> frame.begun, steps |-> steps, lengths |-> length,
                  envelopes |-> envelope, disturbed |-> frame.disturbed \/ flagged,
                  over |-> FrameOver]
    BY <1>1, <1>2, <2>1 DEF TallyShaped
  <2>4. frame.begun \in Int
    BY <1>1 DEF TallyShaped
  <2>5. QED
    BY <1>3, <1>4, <2>2, <2>3, <2>4 DEF TallyShaped, steps, length, envelope, frame, flagged
<1>5. CASE ~Due
  <2>1. tally' = [frame EXCEPT !.over = FrameOver]
    BY <1>2, <1>5 DEF Counted
  <2>2. QED
    BY <1>1, <1>3, <1>5, <2>1 DEF TallyShaped, frame
<1>6. QED
  BY <1>3, <1>4, <1>5

LEMMA FrameStarts == Init => FrameInv
<1> SUFFICES ASSUME Init
             PROVE  FrameInv
  OBVIOUS
<1>1. /\ steps_per_frame_ = 4 /\ clock_ticks_ = 0 /\ frame_steps_ = 0 /\ frame_count_ = 0
      /\ tally = NewFrame(FALSE)
  BY DEF Init
<1>2. /\ tally.begun = 0 /\ tally.steps = 0 /\ tally.lengths = 0 /\ tally.envelopes = 0
      /\ ~tally.over /\ TallyShaped(tally)
  BY <1>1 DEF NewFrame, TallyShaped
<1>3. 0 \div cycles_per_step_ = 0
  <2> DEFINE zero == 0
  <2>1. cycles_per_step_ \in Int /\ cycles_per_step_ > 0
    BY <1>1, Modes
  <2>2. zero \in Int /\ 0 <= zero /\ zero < cycles_per_step_
        /\ zero = cycles_per_step_ * zero + zero
    BY <2>1
  <2> HIDE DEF zero
  <2>3. zero \div cycles_per_step_ = zero
    BY <2>1, <2>2, Divided
  <2>4. QED
    BY <2>3 DEF zero
<1>4. ~Passes(clock_ticks_, FrameTicks, frame_count_) /\ Punctual(clock_ticks_)
  BY <1>1, Frames DEF Passes, Punctual
<1>5. Tallied(tally)
  <2>1. tally.begun \div cycles_per_step_ = 0
    BY <1>2, <1>3
  <2> DEFINE first == tally.begun \div cycles_per_step_
  <2>2. first = 0
    BY <2>1
  <2> HIDE DEF first
  <2>3. /\ tally.steps = frame_steps_ - first
        /\ tally.lengths
             = Clocks(steps_per_frame_, frame_steps_) - Clocks(steps_per_frame_, first)
        /\ tally.envelopes
             = Decays(steps_per_frame_, frame_steps_) - Decays(steps_per_frame_, first)
    <3>1. tally.steps = 0 /\ tally.lengths = 0 /\ tally.envelopes = 0
      BY <1>2
    <3>2. frame_steps_ - first = 0
      BY <1>1, <2>2
    <3>3. /\ Clocks(steps_per_frame_, frame_steps_) - Clocks(steps_per_frame_, first) = 0
          /\ Decays(steps_per_frame_, frame_steps_) - Decays(steps_per_frame_, first) = 0
      BY <1>1, <2>2 DEF Clocks, Decays
    <3>4. QED
      BY <3>1, <3>2, <3>3
  <2>4. QED
    BY <2>3 DEF Tallied, first
<1>6. Aged(tally)
  BY <1>1, <1>2, <1>3, <1>4, <1>5 DEF Aged
<1>7. QED
  BY <1>2, <1>4, <1>6 DEF FrameInv, ClockedTwiceAFrame

\* A step of the APU within an undisturbed frame keeps the tally right.
LEMMA TallyGoesOn ==
  ASSUME TimeInv, FrameInv, Step, ~tally'.disturbed
  PROVE  /\ steps_per_frame_' = steps_per_frame_ /\ cycles_per_step_' = cycles_per_step_
         /\ frame_steps_' = clock_ticks_' \div cycles_per_step_
         /\ Punctual(tally'.begun) /\ tally'.begun \in Int
         /\ Tallied(tally)'
         /\ ~Passes(clock_ticks_, FrameTicks, frame_count_)
<1> DEFINE step == (frame_steps_ + 1) % steps_per_frame_
           C == cycles_per_step_
           first == Frame.begun \div C
<1>1. /\ tally'.begun = Frame.begun /\ TallyShaped(tally')
      /\ ~Frame.disturbed
      /\ ~(Due /\ APU_FRAME_COUNTER \in had_write_flags_)
      /\ Due => /\ tally'.steps = Frame.steps + 1
                /\ tally'.lengths = Frame.lengths + (IF LengthClock(step) THEN 1 ELSE 0)
                /\ tally'.envelopes = Frame.envelopes + (IF EnvelopeClock(step) THEN 1 ELSE 0)
      /\ ~Due => /\ tally'.steps = Frame.steps
                 /\ tally'.lengths = Frame.lengths
                 /\ tally'.envelopes = Frame.envelopes
  <2> HIDE DEF step
  <2>1. step = (frame_steps_ + 1) % steps_per_frame_
    BY DEF step
  <2>2. QED
    BY <2>1, TallyCounts
<1>2. Aged(Frame)
  BY <1>1, FrameAged
<1>3. /\ steps_per_frame_' = steps_per_frame_ /\ cycles_per_step_' = C
      /\ clock_ticks_' = clock_ticks_ + StepTicks
      /\ frame_steps_' = IF Due THEN frame_steps_ + 1 ELSE frame_steps_
  BY <1>1, StepCounts DEF cycles_per_step_
<1>4. /\ C \in Int /\ C > 0 /\ steps_per_frame_ \in {4, 5} /\ frame_steps_ \in Int
      /\ StepTicks \in Int /\ 0 <= StepTicks /\ StepTicks <= C /\ clock_ticks_ \in Int
      /\ tally'.begun \in Int
  BY <1>1, Modes, Frames DEF TimeInv, TallyShaped
<1>5. frame_steps_' = clock_ticks_' \div C
  <2> DEFINE now == clock_ticks_ + StepTicks
             q == now \div C
  <2>1. q \in {frame_steps_, frame_steps_ + 1}
    <3> HIDE DEF C
    <3>1. QED
      BY <1>2, <1>4, Advances DEF Aged, C
  <2>2. Due <=> q > frame_steps_
    <3>1. now \in Int
      BY <1>4
    <3> HIDE DEF C, now
    <3>2. q > frame_steps_ <=> Passes(now, C, frame_steps_)
      BY <1>4, <3>1, QuotientPasses
    <3>3. QED
      BY <3>2 DEF Due, now, C
  <2> HIDE DEF q
  <2>3. q = IF Due THEN frame_steps_ + 1 ELSE frame_steps_
    BY <1>4, <2>1, <2>2
  <2>4. QED
    BY <1>3, <2>3 DEF q
<1>6. Tallied(tally)'
  <2>1. /\ Frame.steps = frame_steps_ - first
        /\ Frame.lengths
             = Clocks(steps_per_frame_, frame_steps_) - Clocks(steps_per_frame_, first)
        /\ Frame.envelopes
             = Decays(steps_per_frame_, frame_steps_) - Decays(steps_per_frame_, first)
    BY <1>2 DEF Aged, Tallied
  <2>2. first \in Int
    BY <1>1, <1>4, Divides
  <2>3. first = tally'.begun \div cycles_per_step_'
    BY <1>1, <1>3
  <2> DEFINE at == Clocks(steps_per_frame_, frame_steps_)
             from == Clocks(steps_per_frame_, first)
             at1 == Clocks(steps_per_frame_, frame_steps_ + 1)
             env == Decays(steps_per_frame_, frame_steps_)
             env0 == Decays(steps_per_frame_, first)
             env1 == Decays(steps_per_frame_, frame_steps_ + 1)
             counts == IF LengthClock(step) THEN 1 ELSE 0
             decays == IF EnvelopeClock(step) THEN 1 ELSE 0
  <2>4. /\ at \in Int /\ from \in Int /\ env \in Int /\ env0 \in Int
        /\ counts \in Int /\ decays \in Int
        /\ at1 = at + counts /\ env1 = env + decays
    <3>1. from \in Int /\ env0 \in Int
      <4> HIDE DEF first
      <4>1. QED
        BY <1>4, <2>2, ClocksStep
    <3>2. at \in Int /\ env \in Int /\ at1 = at + counts /\ env1 = env + decays
      BY <1>4, ClocksStep
    <3>3. counts \in Int /\ decays \in Int
      OBVIOUS
    <3>4. QED
      BY <3>1, <3>2, <3>3
  <2>5. /\ Frame.steps = frame_steps_ - first /\ Frame.lengths = at - from
        /\ Frame.envelopes = env - env0
        /\ Due => /\ tally'.steps = Frame.steps + 1 /\ tally'.lengths = Frame.lengths + counts
                  /\ tally'.envelopes = Frame.envelopes + decays
    BY <1>1, <2>1
  <2>6. CASE Due
    <3> HIDE DEF first, at, from, at1, env, env0, env1, counts, decays
    <3>1. /\ tally'.steps = frame_steps_ + 1 - first /\ tally'.lengths = at1 - from
          /\ tally'.envelopes = env1 - env0
      BY <1>4, <2>2, <2>4, <2>5, <2>6
    <3>2. frame_steps_' = frame_steps_ + 1 /\ steps_per_frame_' = steps_per_frame_
      BY <1>3, <2>6
    <3>3. /\ tally'.steps = frame_steps_' - first
          /\ tally'.lengths
               = Clocks(steps_per_frame_', frame_steps_') - Clocks(steps_per_frame_', first)
          /\ tally'.envelopes
               = Decays(steps_per_frame_', frame_steps_') - Decays(steps_per_frame_', first)
      <4>1. /\ Clocks(steps_per_frame_', frame_steps_') = at1
            /\ Clocks(steps_per_frame_', first) = from
            /\ Decays(steps_per_frame_', frame_steps_') = env1
            /\ Decays(steps_per_frame_', first) = env0
        BY <3>2 DEF at1, from, env1, env0
      <4>2. QED
        BY <1>4, <2>2, <2>4, <3>1, <3>2, <4>1
    <3>4. QED
      BY <2>3, <3>3 DEF Tallied
  <2>7. CASE ~Due
    <3> HIDE DEF first
    <3>1. QED
      BY <1>1, <1>3, <2>1, <2>3, <2>7 DEF Tallied
  <2>8. QED
    BY <2>6, <2>7
<1>7. QED
  BY <1>1, <1>2, <1>3, <1>4, <1>5, <1>6 DEF Aged

\* At its end an undisturbed frame has had the clocks of its steps, and their number
\* is right but for what the remainder and the steps of the APU make of it.
LEMMA FrameEnds ==
  ASSUME TimeInv, FrameInv, Step, ~tally'.disturbed, FrameOver
  PROVE  ClockedTwiceAFrame'
<1> DEFINE N == steps_per_frame_
           C == cycles_per_step_
           from == tally'.begun
           to == clock_ticks_'
           odd == to \div C - from \div C - N
           age == from % C
           begun == frame_count_ * FrameTicks
           whole == N * C
<1>1. /\ steps_per_frame_' = N /\ cycles_per_step_' = C
      /\ frame_steps_' = to \div C
      /\ Punctual(from) /\ from \in Int
      /\ Tallied(tally)'
      /\ ~Passes(clock_ticks_, FrameTicks, frame_count_)
  BY TallyGoesOn
<1>2. /\ N \in {4, 5} /\ C \in Int /\ C > 0 /\ Remainder \in 0 .. 4
      /\ FrameTicks = whole + Remainder /\ 4 * StepTicks <= C
      /\ StepTicks \in Int /\ StepTicks >= 1 /\ FrameTicks \in Int
      /\ to = clock_ticks_ + StepTicks /\ clock_ticks_ \in Int /\ frame_count_ \in Int
  BY StepCounts, Modes, Frames DEF TimeInv
<1>3. begun \in Int /\ whole \in Int /\ (frame_count_ + 1) * FrameTicks = begun + FrameTicks
  BY <1>2
<1>4. begun <= from /\ from < begun + StepTicks
  BY <1>1 DEF Punctual
<1>5. begun + FrameTicks <= to /\ ~(clock_ticks_ >= begun + FrameTicks)
  <2>1. to >= (frame_count_ + 1) * FrameTicks
    BY <1>2 DEF FrameOver, Passes
  <2>2. ~(clock_ticks_ >= (frame_count_ + 1) * FrameTicks)
    BY <1>1 DEF Passes
  <2>3. QED
    BY <1>2, <1>3, <2>1, <2>2
<1>6. whole + Remainder - StepTicks < to - from /\ to - from < whole + Remainder + StepTicks
  <2> HIDE DEF begun, whole, from
  <2>1. QED
    BY <1>1, <1>2, <1>3, <1>4, <1>5 DEF from
<1>7. \/ odd = 0
      \/ odd = 1 /\ age + Remainder + StepTicks > C
      \/ odd = -1 /\ age + Remainder < StepTicks
  <2>1. to \in Int
    BY <1>2
  <2> HIDE DEF N, C, from, to
  <2>2. QED
    BY <1>1, <1>2, <1>6, <2>1, StepsOfAFrame
<1> DEFINE first == from \div C
<1>8. first \in Int /\ odd \in {-1, 0, 1} /\ frame_steps_' = first + N + odd
  <2>1. first \in Int /\ to \div C \in Int
    BY <1>1, <1>2, Divides
  <2> DEFINE last == to \div C
  <2>2. odd = last - first - N
    OBVIOUS
  <2> HIDE DEF first, last, odd
  <2>3. odd \in {-1, 0, 1}
    BY <1>7
  <2>4. last = first + N + odd
    BY <1>2, <2>1, <2>2 DEF last
  <2>5. QED
    BY <1>1, <2>1, <2>3, <2>4 DEF last
<1>9. /\ tally'.steps = frame_steps_' - first
      /\ tally'.lengths = Clocks(N, frame_steps_') - Clocks(N, first)
      /\ tally'.envelopes = Decays(N, frame_steps_') - Decays(N, first)
  BY <1>1 DEF Tallied
<1> HIDE DEF first, odd
<1>10. tally'.steps - N = odd
  BY <1>2, <1>8, <1>9
<1>11. tally'.lengths - 2 \in {0, odd} /\ tally'.envelopes - 4 \in {0, odd}
  <2> HIDE DEF N
  <2>1. /\ Clocks(N, first + N + odd) - Clocks(N, first) - 2 \in {0, odd}
        /\ Decays(N, first + N + odd) - Decays(N, first) - 4 \in {0, odd}
    BY <1>2, <1>8, ClocksOfAFrame
  <2>2. QED
    BY <1>8, <1>9, <2>1
<1>12. Remainder' = Remainder
  BY <1>1 DEF Remainder
<1>13. QED
  BY <1>1, <1>7, <1>10, <1>11, <1>12 DEF ClockedTwiceAFrame

LEMMA FrameStep ==
  ASSUME TimeInv, FrameInv, [Next]_vars
  PROVE  FrameInv'
<1>1. CASE Step
  <2>1. TallyShaped(tally') /\ tally'.over = FrameOver
    <3> DEFINE step == (frame_steps_ + 1) % steps_per_frame_
    <3>1. step = (frame_steps_ + 1) % steps_per_frame_
      OBVIOUS
    <3> HIDE DEF step
    <3>2. QED
      BY <1>1, <3>1, TallyCounts
  <2>2. /\ clock_ticks_' = clock_ticks_ + StepTicks /\ clock_ticks_ \in Int
        /\ frame_count_ \in Int
        /\ frame_count_' = IF FrameOver THEN frame_count_ + 1 ELSE frame_count_
        /\ FrameTicks \in Int /\ StepTicks \in Int /\ StepTicks <= FrameTicks
    BY <1>1, StepCounts, Frames DEF TimeInv
  <2>3. Passes(clock_ticks_, FrameTicks, frame_count_)' => frame_steps_' = frame_count_'
    <3> SUFFICES ASSUME Passes(clock_ticks_, FrameTicks, frame_count_)'
                 PROVE  frame_steps_' = frame_count_'
      OBVIOUS
    <3>1. FrameOver
      BY <2>2 DEF FrameOver, Passes
    <3> DEFINE end == (frame_count_ + 1) * FrameTicks
    <3>2. end \in Int /\ (frame_count_ + 1 + 1) * FrameTicks = end + FrameTicks
      BY <2>2
    <3>3. clock_ticks_ + StepTicks >= end + FrameTicks
      BY <2>2, <3>1, <3>2 DEF Passes
    <3> HIDE DEF end
    <3>4. clock_ticks_ >= end
      BY <2>2, <3>2, <3>3
    <3>5. Passes(clock_ticks_, FrameTicks, frame_count_)
      BY <3>4 DEF Passes, end
    <3>6. QED
      BY <1>1, <3>5, BehindTogether
  <2>4. tally'.over /\ Settled' => Punctual(clock_ticks_)'
    BY <1>1, <2>1, EndsInTime
  <2>5. ClockedTwiceAFrame'
    <3>1. CASE ~tally'.disturbed /\ FrameOver
      BY <1>1, <3>1, FrameEnds
    <3>2. CASE tally'.disturbed \/ ~FrameOver
      BY <2>1, <3>2 DEF ClockedTwiceAFrame
    <3>3. QED
      BY <3>1, <3>2
  <2>6. ~tally'.disturbed /\ ~tally'.over => Aged(tally)'
    <3> SUFFICES ASSUME ~tally'.disturbed, ~FrameOver
                 PROVE  Aged(tally)'
      BY <2>1
    <3>1. /\ cycles_per_step_' = cycles_per_step_
          /\ frame_steps_' = clock_ticks_' \div cycles_per_step_
          /\ Punctual(tally'.begun) /\ Tallied(tally)'
      BY <1>1, TallyGoesOn
    <3>2. frame_count_' = frame_count_
      BY <2>2
    <3>3. ~Passes(clock_ticks_, FrameTicks, frame_count_)'
      BY <2>2, <3>2 DEF FrameOver, Passes
    <3>4. Punctual(tally.begun)'
      BY <3>1, <3>2 DEF Punctual
    <3>5. QED
      BY <3>1, <3>3, <3>4 DEF Aged
  <2>7. QED
    BY <2>1, <2>3, <2>4, <2>5, <2>6 DEF FrameInv
<1>2. ASSUME NEW a, NEW value, write_register(a, value)
      PROVE  FrameInv'
  BY <1>2 DEF write_register, FrameInv, ClockedTwiceAFrame, Settled, Aged, Punctual, Tallied,
              Remainder, cycles_per_step_
<1>3. CASE reset
  <2>1. /\ tally' = NewFrame(TRUE) /\ frame_steps_' = 0 /\ frame_count_' = 0
        /\ clock_ticks_ \in Int
    BY <1>3 DEF reset, TimeInv
  <2>2. TallyShaped(tally') /\ tally'.disturbed /\ ~tally'.over
    BY <2>1 DEF NewFrame, TallyShaped
  <2>3. QED
    BY <2>1, <2>2 DEF FrameInv, ClockedTwiceAFrame
<1>4. CASE UNCHANGED vars
  BY <1>4 DEF vars, FrameInv, ClockedTwiceAFrame, Settled, Aged, Punctual, Tallied,
              Remainder, cycles_per_step_
<1>5. QED
  BY <1>1, <1>2, <1>3, <1>4 DEF Next

\* For frames of at least twenty steps of the APU, whatever remainder the steps of the
\* sequencer and of the APU leave, in either mode and after a catch-up of any length: a
\* frame that no cartridge and no change of the mode disturbs brings two length clocks
\* and four of the envelopes, or one of a kind more or fewer where it begins within the
\* remainder and a step of the APU of a step of the sequencer.
THEOREM FramesClocked == Spec => []ClockedTwiceAFrame
<1>1. FrameInv => ClockedTwiceAFrame
  BY DEF FrameInv
<1>2. QED
  BY <1>1, TimeStarts, TimeStep, FrameStarts, FrameStep, PTL DEF Spec

-----------------------------------------------------------------------------
(***************************************************************************)
(* What sounds                                                             *)
(***************************************************************************)

\* The stream of a pulse channel, and parameters for one, as far as it matters.
Pulse(s, c) == {"channel", "enabled", "counter", "decay_rate"} \subseteq DOMAIN s /\ s.channel = c
Tunable(p) == {"frequency", "counter"} \subseteq DOMAIN p

LEMMA PulsesNamed == \A c \in Pulses : c # "Triangle" /\ c \in Channels
BY DEF Pulses, Channels

LEMMA Enabling ==
  ASSUME NEW s, NEW c, Pulse(s, c), NEW enabled
  PROVE  /\ Pulse(set_enabled(s, enabled), c)
         /\ set_enabled(s, enabled).enabled = enabled
         /\ set_enabled(s, enabled).decay_rate = s.decay_rate
         /\ set_enabled(s, enabled).counter = IF enabled THEN s.counter ELSE 0
BY DEF Pulse, set_enabled

\* No clock switches a channel on.
Quieter(t, s, c) == Pulse(t, c) /\ (t.enabled => s.enabled)

LEMMA EnvelopeQuiet ==
  ASSUME NEW s, NEW c, Pulse(s, c)
  PROVE  /\ Quieter(decrement_volume_envelope(s), s, c)
         /\ s.decay_rate = 0 =>
              /\ decrement_volume_envelope(s).enabled = s.enabled
              /\ decrement_volume_envelope(s).counter = s.counter
              /\ decrement_volume_envelope(s).decay_rate = 0
<1> DEFINE ticked == [s EXCEPT !.envelope_ticks = @ + 1]
           loud(v) == [ticked EXCEPT !.volume = v]
<1>1. Pulse(ticked, c) /\ ticked.enabled = s.enabled /\ ticked.counter = s.counter
      /\ ticked.decay_rate = s.decay_rate
  BY DEF Pulse
<1> HIDE DEF ticked
<1>2. ASSUME NEW v
      PROVE  Pulse(loud(v), c) /\ loud(v).enabled = s.enabled
  BY <1>1 DEF Pulse
<1> DEFINE volume == IF ticked.envelope_ticks % s.decay_rate = 0 THEN Lower(s.volume) ELSE s.volume
<1>3. decrement_volume_envelope(s)
        = CASE s.volume = 0 \/ s.decay_rate = 0 -> ticked
            [] OTHER -> CASE volume > 0 -> loud(volume)
                          [] volume <= 0 /\ s.loop -> loud(MaxVolume)
                          [] OTHER -> set_enabled(loud(0), FALSE)
  BY DEF decrement_volume_envelope, ticked
<1>4. /\ \/ decrement_volume_envelope(s) = ticked
         \/ \E v : decrement_volume_envelope(s) = loud(v)
         \/ decrement_volume_envelope(s) = set_enabled(loud(0), FALSE)
      /\ s.decay_rate = 0 => decrement_volume_envelope(s) = ticked
  <2> DEFINE quiet == set_enabled(loud(0), FALSE)
  <2> HIDE DEF volume, loud, quiet
  <2>1. CASE s.volume = 0 \/ s.decay_rate = 0
    <3>1. decrement_volume_envelope(s) = ticked
      BY <1>3, <2>1
    <3>2. QED
      BY <3>1
  <2>2. CASE ~(s.volume = 0 \/ s.decay_rate = 0)
    <3>1. decrement_volume_envelope(s)
            = CASE volume > 0 -> loud(volume)
                [] volume <= 0 /\ s.loop -> loud(MaxVolume)
                [] OTHER -> quiet
      BY <1>3, <2>2 DEF quiet
    <3>2. QED
      BY <2>2, <3>1 DEF quiet
  <2>3. QED
    BY <2>1, <2>2
<1> HIDE DEF loud
<1>5. Pulse(loud(0), c)
  BY <1>2
<1>6. Pulse(set_enabled(loud(0), FALSE), c) /\ ~set_enabled(loud(0), FALSE).enabled
  BY <1>5, Enabling
<1>7. Quieter(decrement_volume_envelope(s), s, c)
  BY <1>1, <1>2, <1>4, <1>6 DEF Quieter
<1>8. QED
  BY <1>1, <1>4, <1>7

LEMMA SweepQuiet ==
  ASSUME NEW s, NEW c, Pulse(s, c)
  PROVE  Quieter(step_sweep(s), s, c)
<1> DEFINE ticked == [s EXCEPT !.sweep_ticks = @ + 1]
           tuned(f) == [ticked EXCEPT !.frequency = f]
<1>1. Pulse(ticked, c) /\ ticked.enabled = s.enabled
  BY DEF Pulse
<1> HIDE DEF ticked
<1>2. ASSUME NEW f
      PROVE  Pulse(tuned(f), c) /\ tuned(f).enabled = s.enabled
  BY <1>1 DEF Pulse
<1> DEFINE f0 == SweptFrequency(s)
           period == s.sweep_period + 2
<1>3. step_sweep(s)
        = CASE ~s.sweep_enabled -> ticked
            [] s.sweep_enabled /\ s.frequency < 8 -> set_enabled(ticked, FALSE)
            [] OTHER -> CASE ticked.sweep_ticks % period # 0 -> ticked
                          [] f0 \in 1 .. MaxFrequency -> tuned(f0)
                          [] OTHER -> set_enabled(tuned(0), FALSE)
  BY DEF step_sweep, ticked
<1>6. \/ step_sweep(s) = ticked
      \/ step_sweep(s) = set_enabled(ticked, FALSE)
      \/ \E f : step_sweep(s) = tuned(f)
      \/ step_sweep(s) = set_enabled(tuned(0), FALSE)
  <2> DEFINE off == set_enabled(ticked, FALSE)
             quiet == set_enabled(tuned(0), FALSE)
             inner == CASE ticked.sweep_ticks % period # 0 -> ticked
                        [] f0 \in 1 .. MaxFrequency -> tuned(f0)
                        [] OTHER -> quiet
  <2> HIDE DEF tuned, off, quiet, f0, period
  <2>1. inner = ticked \/ inner = tuned(f0) \/ inner = quiet
    OBVIOUS
  <2>2. step_sweep(s)
          = CASE ~s.sweep_enabled -> ticked
              [] s.sweep_enabled /\ s.frequency < 8 -> off
              [] OTHER -> inner
    BY <1>3 DEF off, quiet
  <2> HIDE DEF inner
  <2>3. step_sweep(s) = ticked \/ step_sweep(s) = off \/ step_sweep(s) = inner
    BY <2>2
  <2>4. QED
    BY <2>1, <2>3 DEF off, quiet
<1> HIDE DEF tuned
<1>4. Pulse(tuned(0), c)
  BY <1>2
<1>5. /\ Pulse(set_enabled(tuned(0), FALSE), c) /\ ~set_enabled(tuned(0), FALSE).enabled
      /\ Pulse(set_enabled(ticked, FALSE), c) /\ ~set_enabled(ticked, FALSE).enabled
  BY <1>1, <1>4, Enabling
<1>7. QED
  BY <1>1, <1>2, <1>5, <1>6 DEF Quieter

LEMMA CountQuiet ==
  ASSUME NEW s, NEW c \in Pulses, Pulse(s, c)
  PROVE  /\ Quieter(decrement_counter(s), s, c)
         /\ decrement_counter(s).decay_rate = s.decay_rate
         /\ s.counter = 0 => decrement_counter(s) = s
         /\ s.counter = 1 => /\ ~decrement_counter(s).enabled
                             /\ decrement_counter(s).counter = 0
         /\ s.counter \notin {0, 1} => /\ decrement_counter(s).enabled = s.enabled
                                       /\ decrement_counter(s).counter = s.counter - 1
<1>1. decrement_counter(s) = CountedDown(s)
  BY PulsesNamed DEF decrement_counter, Pulse
<1>2. CASE s.counter = 0
  <2>1. CountedDown(s) = s
    BY <1>2 DEF CountedDown
  <2>2. QED
    BY <1>1, <1>2, <2>1 DEF Quieter
<1>3. CASE s.counter = 1
  <2>1. CountedDown(s) = set_enabled(s, FALSE)
    BY <1>3 DEF CountedDown
  <2>2. /\ Pulse(set_enabled(s, FALSE), c) /\ ~set_enabled(s, FALSE).enabled
        /\ set_enabled(s, FALSE).decay_rate = s.decay_rate /\ set_enabled(s, FALSE).counter = 0
    BY DEF set_enabled, Pulse
  <2> DEFINE t == set_enabled(s, FALSE)
  <2> HIDE DEF t
  <2>3. decrement_counter(s) = t
    BY <1>1, <2>1 DEF t
  <2>4. Pulse(t, c) /\ ~t.enabled /\ t.decay_rate = s.decay_rate /\ t.counter = 0
    BY <2>2 DEF t
  <2>5. QED
    BY <1>3, <2>3, <2>4 DEF Quieter
<1>4. CASE s.counter \notin {0, 1}
  <2> DEFINE t == [s EXCEPT !.counter = @ - 1]
  <2>1. CountedDown(s) = t
    BY <1>4 DEF CountedDown
  <2>2. /\ Pulse(t, c) /\ t.enabled = s.enabled /\ t.decay_rate = s.decay_rate
        /\ t.counter = s.counter - 1
    BY DEF Pulse
  <2> HIDE DEF t
  <2>3. QED
    BY <1>1, <1>4, <2>1, <2>2 DEF Quieter
<1>5. QED
  BY <1>2, <1>3, <1>4

LEMMA ClockQuiet ==
  ASSUME NEW c \in Pulses, Pulse(streams_[c], c), NEW step
  PROVE  Quieter(Clocked(c, step), streams_[c], c)
<1> DEFINE s == streams_[c]
           counted == IF LengthClock(step) THEN LengthClocked(c, s) ELSE s
<1>1. Quieter(LengthClocked(c, s), s, c)
  <2> DEFINE t == IF Halted(c) THEN s ELSE decrement_counter(s)
  <2>1. Quieter(t, s, c)
    BY CountQuiet DEF Quieter
  <2>2. LengthClocked(c, s) = t \/ LengthClocked(c, s) = step_sweep(t)
    BY DEF LengthClocked
  <2> HIDE DEF t, s
  <2>3. Quieter(step_sweep(t), t, c)
    BY <2>1, SweepQuiet DEF Quieter
  <2>4. QED
    BY <2>1, <2>2, <2>3 DEF Quieter
<1>2. Quieter(counted, s, c)
  BY <1>1 DEF Quieter
<1>3. Clocked(c, step) = counted \/ Clocked(c, step) = decrement_volume_envelope(counted)
  BY DEF Clocked, EnvelopeClocked
<1> HIDE DEF counted
<1>4. Quieter(decrement_volume_envelope(counted), counted, c)
  BY <1>2, EnvelopeQuiet DEF Quieter
<1>5. QED
  BY <1>2, <1>3, <1>4 DEF Quieter

\* New parameters switch a channel on where they have a frequency.
LEMMA Reloading ==
  ASSUME NEW s, NEW c, Pulse(s, c), NEW p
  PROVE  /\ Pulse(reload(s, p), c)
         /\ reload(s, p).enabled = (p.frequency # 0)
         /\ reload(s, p).counter = IF p.frequency # 0 THEN p.counter ELSE 0
         /\ p.constant_volume => reload(s, p).decay_rate = 0
<1> DEFINE t == [s EXCEPT
                   !.frequency = p.frequency,
                   !.counter = p.counter,
                   !.linear_counter = p.linear_counter_load,
                   !.volume = IF p.constant_volume THEN p.volume ELSE MaxVolume,
                   !.decay_rate = IF p.constant_volume THEN 0
                                  ELSE EnvelopeUnits \div (p.volume + 1),
                   !.loop = p.loop,
                   !.sweep_enabled = p.sweep_enabled,
                   !.sweep_period = p.sweep_period,
                   !.sweep_negate = p.sweep_negate,
                   !.sweep_shift = p.sweep_shift_count]
<1>1. reload(s, p) = set_enabled(t, p.frequency # 0)
  BY DEF reload
<1>2. /\ Pulse(t, c) /\ t.counter = p.counter
      /\ p.constant_volume => t.decay_rate = 0
  BY DEF Pulse
<1> DEFINE on == p.frequency # 0
<1> HIDE DEF t, on
<1>3. /\ Pulse(set_enabled(t, on), c)
      /\ set_enabled(t, on).enabled = on
      /\ set_enabled(t, on).decay_rate = t.decay_rate
      /\ set_enabled(t, on).counter = IF on THEN t.counter ELSE 0
  BY <1>2, Enabling
<1>4. reload(s, p) = set_enabled(t, on)
  BY <1>1 DEF on
<1>5. QED
  BY <1>2, <1>3, <1>4 DEF on

\* The parameters of a pulse channel, handler by handler.
LEMMA Parametrised ==
  ASSUME NEW c \in Pulses, Tunable(params_[c])
  PROVE  /\ Tunable(Tuned(c)) /\ Tunable(Started(c))
         /\ Had(c, 3) => Tuned(c).frequency
                           = Frequency(c, IF c = "Square_Pulse_2" THEN "Square_Pulse_1" ELSE c)
         /\ Had(c, 4) => /\ Started(c).frequency = Frequency(c, c)
                         /\ Started(c).counter
                              = length_counter_lookup(get_length_counter(Value(c, 4)))
<1>1. Tunable(Shaped(c))
  BY DEF Shaped, Tunable
<1> DEFINE from == IF c = "Square_Pulse_2" THEN "Square_Pulse_1" ELSE c
<1>2. Tuned(c) = IF Had(c, 3) THEN [Shaped(c) EXCEPT !.frequency = Frequency(c, from)]
                 ELSE Shaped(c)
  BY DEF Tuned
<1>3. /\ Tunable(Tuned(c))
      /\ Had(c, 3) => Tuned(c).frequency = Frequency(c, from)
  BY <1>1, <1>2 DEF Tunable
<1> DEFINE length == length_counter_lookup(get_length_counter(Value(c, 4)))
           started == [Tuned(c) EXCEPT !.frequency = Frequency(c, c), !.counter = length]
<1>4. Started(c) = IF Had(c, 4) THEN started ELSE Tuned(c)
  BY PulsesNamed DEF Started
<1> HIDE DEF length
<1>5. Tunable(started) /\ started.frequency = Frequency(c, c) /\ started.counter = length
  BY <1>3 DEF Tunable
<1> HIDE DEF started
<1>6. QED
  BY <1>3, <1>4, <1>5 DEF length

\* What a step of the sequencer makes of the stream of a pulse channel.
LEMMA StreamStepped ==
  ASSUME NEW c \in Pulses, Pulse(streams_[c], c), NEW step, Quarter(step)
  PROVE  LET clocked == Clocked(c, step)
             tuned == IF Had(c, 3) THEN reload(clocked, Tuned(c)) ELSE clocked
             started == IF Had(c, 4) THEN reload(tuned, Started(c)) ELSE tuned
         IN /\ Pulse(clocked, c) /\ Pulse(tuned, c) /\ Pulse(started, c)
            /\ streams_'[c] = Switched(c, started) /\ Pulse(streams_'[c], c)
            /\ params_'[c] = Started(c)
<1> DEFINE clocked == Clocked(c, step)
           tuned == IF Had(c, 3) THEN reload(clocked, Tuned(c)) ELSE clocked
           started == IF Had(c, 4) THEN reload(tuned, Started(c)) ELSE tuned
<1>1. c \in Channels
  BY PulsesNamed
<1>2. Pulse(clocked, c)
  BY ClockQuiet DEF Quieter
<1>3. streams_'[c] = Switched(c, started) /\ params_'[c] = Started(c)
  BY <1>1 DEF Quarter, Updated
<1> HIDE DEF clocked
<1>4. Pulse(tuned, c)
  BY <1>2, Reloading
<1> HIDE DEF tuned
<1>5. Pulse(started, c)
  BY <1>4, Reloading
<1> HIDE DEF started
<1>6. Pulse(Switched(c, started), c)
  BY <1>5, Enabling DEF Switched
<1>7. QED
  BY <1>2, <1>3, <1>4, <1>5, <1>6 DEF started, tuned, clocked

\* A program that has not asked for the first pulse has left its registers at zero.
SoundInv ==
  /\ \A c \in Pulses : Pulse(streams_[c], c) /\ Tunable(params_[c])
  /\ "Square_Pulse_1" \notin asked =>
       /\ \A n \in 1 .. 4 : Value("Square_Pulse_1", n) = 0
       /\ registers_[APU_STATUS] = 0

LEMMA SoundStarts == Init => SoundInv
<1> SUFFICES ASSUME Init
             PROVE  SoundInv
  OBVIOUS
<1>1. PICK counter, decay \in Garbage :
        streams_ = [c \in Channels |-> NewStream(c, counter, decay)]
  BY DEF Init
<1>2. \A c \in Pulses : Pulse(streams_[c], c)
  BY <1>1, PulsesNamed DEF NewStream, Pulse
<1>3. \A c \in Pulses : Tunable(params_[c])
  BY PulsesNamed DEF Init, Parameters, Tunable
<1>4. registers_ = [r \in Registers |-> 0]
  BY DEF Init
<1>5. APU_STATUS \in Registers /\ \A n \in 1 .. 4 : REG("Square_Pulse_1", n) \in Registers
  BY DEF Registers, Channels, Pulses
<1>6. QED
  BY <1>2, <1>3, <1>4, <1>5 DEF SoundInv, Value

\* With registers at zero nothing that waits for the sequencer starts a sound.
LEMMA ZeroIsSilent ==
  ASSUME SoundInv, "Square_Pulse_1" \notin asked, NEW step, Quarter(step),
         streams_'["Square_Pulse_1"].enabled
  PROVE  streams_["Square_Pulse_1"].enabled
<1> DEFINE c == "Square_Pulse_1"
           clocked == Clocked(c, step)
           tuned == IF Had(c, 3) THEN reload(clocked, Tuned(c)) ELSE clocked
           started == IF Had(c, 4) THEN reload(tuned, Started(c)) ELSE tuned
<1>1. c \in Pulses /\ Pulse(streams_[c], c) /\ Tunable(params_[c])
  BY DEF SoundInv, Pulses
<1>2. /\ Pulse(clocked, c) /\ Pulse(tuned, c) /\ Pulse(started, c)
      /\ streams_'[c] = Switched(c, started)
  BY <1>1, StreamStepped
<1>3. Frequency(c, c) = 0
  <2>1. Value(c, 3) = 0 /\ Value(c, 4) = 0
    BY DEF SoundInv
  <2>2. QED
    BY <2>1 DEF Frequency, get_square_pulse_frequency, Timer
<1>4. /\ Had(c, 3) => Tuned(c).frequency = 0
      /\ Had(c, 4) => Started(c).frequency = 0
  BY <1>1, <1>3, Parametrised
<1>5. clocked.enabled => streams_[c].enabled
  BY <1>1, ClockQuiet DEF Quieter
<1>6. tuned.enabled => clocked.enabled
  <2>1. CASE Had(c, 3)
    <3> HIDE DEF clocked
    <3>1. reload(clocked, Tuned(c)).enabled = (Tuned(c).frequency # 0)
      BY <1>2, Reloading
    <3>2. QED
      BY <1>4, <2>1, <3>1
  <2>2. CASE ~Had(c, 3)
    BY <2>2
  <2>3. QED
    BY <2>1, <2>2
<1>7. started.enabled => tuned.enabled
  <2> HIDE DEF tuned
  <2>1. CASE Had(c, 4)
    <3>1. reload(tuned, Started(c)).enabled = (Started(c).frequency # 0)
      BY <1>2, Reloading
    <3>2. QED
      BY <1>4, <2>1, <3>1
  <2>2. CASE ~Had(c, 4)
    BY <2>2
  <2>3. QED
    BY <2>1, <2>2
<1>8. Switched(c, started).enabled => started.enabled
  <2> HIDE DEF started
  <2>1. CASE APU_STATUS \in had_write_flags_
    <3> DEFINE on == Bit(registers_[APU_STATUS], StatusBit(c))
    <3>1. ~on
      BY NoBits DEF SoundInv, Bit
    <3>2. Switched(c, started) = set_enabled(started, on)
      BY <2>1 DEF Switched
    <3> HIDE DEF on
    <3>3. set_enabled(started, on).enabled = on
      BY <1>2, Enabling
    <3>4. QED
      BY <3>1, <3>2, <3>3
  <2>2. CASE APU_STATUS \notin had_write_flags_
    BY <2>2 DEF Switched
  <2>3. QED
    BY <2>1, <2>2
<1>9. QED
  BY <1>2, <1>5, <1>6, <1>7, <1>8

LEMMA SoundStep ==
  ASSUME TimeInv, SoundInv, [Next]_vars
  PROVE  /\ SoundInv'
         /\ streams_'["Square_Pulse_1"].enabled =>
              streams_["Square_Pulse_1"].enabled \/ "Square_Pulse_1" \in asked
<1>1. CASE Step
  <2>1. registers_' = registers_ /\ asked' = asked
    BY <1>1 DEF Step
  <2>2. CASE UNCHANGED <<streams_, params_>>
    BY <2>1, <2>2 DEF SoundInv, Value
  <2>3. ASSUME NEW step, Quarter(step)
        PROVE  /\ SoundInv'
               /\ streams_'["Square_Pulse_1"].enabled =>
                    streams_["Square_Pulse_1"].enabled \/ "Square_Pulse_1" \in asked
    <3>1. ASSUME NEW c \in Pulses
          PROVE  Pulse(streams_'[c], c) /\ Tunable(params_'[c])
      <4>1. Pulse(streams_[c], c) /\ Tunable(params_[c])
        BY DEF SoundInv
      <4>2. QED
        BY <2>3, <4>1, Parametrised, StreamStepped
    <3>2. QED
      BY <2>1, <2>3, <3>1, ZeroIsSilent DEF SoundInv, Value
  <2>4. QED
    BY <1>1, <2>2, <2>3 DEF Step
<1>2. ASSUME NEW a, NEW value, write_register(a, value)
      PROVE  SoundInv' /\ streams_' = streams_
  <2>1. /\ UNCHANGED <<streams_, params_>>
        /\ asked' = asked \cup (IF a = APU_STATUS THEN Channels
                                ELSE {c \in Channels : \E n \in 1 .. 4 : a = REG(c, n)})
        /\ registers_' = registers_ \/ registers_' = [registers_ EXCEPT ![a] = value]
    BY <1>2 DEF write_register
  <2>2. /\ registers_ = [r \in Registers |-> registers_[r]]
        /\ APU_STATUS \in Registers /\ \A n \in 1 .. 4 : REG("Square_Pulse_1", n) \in Registers
        /\ "Square_Pulse_1" \in Channels
    BY DEF TimeInv, Registers, Channels, Pulses
  <2>3. ASSUME "Square_Pulse_1" \notin asked'
        PROVE  /\ \A n \in 1 .. 4 : Value("Square_Pulse_1", n)' = 0
               /\ registers_'[APU_STATUS] = 0
    <3>1. "Square_Pulse_1" \notin asked /\ a # APU_STATUS
          /\ \A n \in 1 .. 4 : a # REG("Square_Pulse_1", n)
      BY <2>1, <2>2, <2>3
    <3>2. /\ \A n \in 1 .. 4 : registers_[REG("Square_Pulse_1", n)] = 0
          /\ registers_[APU_STATUS] = 0
      BY <3>1 DEF SoundInv, Value
    <3>3. QED
      BY <2>1, <2>2, <3>1, <3>2 DEF Value
  <2>4. QED
    BY <2>1, <2>3 DEF SoundInv
<1>3. CASE reset
  <2>1. /\ streams_' = streams_ /\ registers_' = [r \in Registers |-> 0]
        /\ params_' = [c \in Channels |-> Parameters(c)]
    BY <1>3 DEF reset
  <2>2. APU_STATUS \in Registers /\ \A n \in 1 .. 4 : REG("Square_Pulse_1", n) \in Registers
    BY DEF Registers, Channels, Pulses
  <2>3. \A c \in Pulses : Pulse(streams_'[c], c) /\ Tunable(params_'[c])
    BY <2>1, PulsesNamed DEF SoundInv, Parameters, Tunable
  <2>4. QED
    BY <2>1, <2>2, <2>3 DEF SoundInv, Value
<1>4. CASE UNCHANGED vars
  BY <1>4 DEF vars, SoundInv, Value
<1>5. QED
  BY <1>1, <1>2, <1>3, <1>4 DEF Next

\* Whatever flags the last program left up, and whatever its streams were doing: the
\* first pulse channel starts to sound only once the program that is loaded has
\* written to it.
THEOREM SoundsOnRequest == Spec => PulseSoundsOnRequest
<1>1. TimeInv /\ SoundInv /\ [Next]_vars =>
        [streams_'["Square_Pulse_1"].enabled =>
           streams_["Square_Pulse_1"].enabled \/ "Square_Pulse_1" \in asked]_vars
  BY SoundStep
<1>2. QED
  BY <1>1, TimeStarts, TimeStep, SoundStarts, SoundStep, PTL DEF Spec, PulseSoundsOnRequest

-----------------------------------------------------------------------------
(***************************************************************************)
(* How long a note lasts                                                   *)
(***************************************************************************)

\* Two clocks in each frame: 2 * m of them are over with m frames, and at most one
\* step earlier, or two where there are five.
LEMMA ClocksBetween ==
  ASSUME NEW steps \in {4, 5}, NEW a \in Int, NEW b \in Int, NEW m \in Int
  PROVE  /\ Clocks(steps, b) - Clocks(steps, a) < 2 * m => b - a + 1 <= m * steps
         /\ Clocks(steps, b) - Clocks(steps, a) >= 2 * m => b - a + (steps - 3) >= m * steps
         /\ a = 1 /\ steps = 5 /\ Clocks(steps, b) - Clocks(steps, a) >= 2 * m => b - a >= m * steps
<1>1. CASE steps = 4
  BY <1>1 DEF Clocks
<1>2. CASE steps = 5
  BY <1>2 DEF Clocks
<1>3. QED
  BY <1>1, <1>2

\* Every length is even.
LEMMA LengthsEven ==
  ASSUME NEW byte \in Byte
  PROVE  \E m \in Int : m >= 1 /\ length_counter_lookup(get_length_counter(byte)) = 2 * m
<1> DEFINE v == get_length_counter(byte)
<1>1. v \in 0 .. 31
  <2>1. \A b \in Byte : b \in Int /\ 0 <= b /\ b <= 255
    BY DEF Byte, Unsigned
  <2>2. QED
    BY <2>1 DEF get_length_counter
<1> HIDE DEF v
<1>2. length_counter_lookup(v) \in {2, 4, 6, 8, 10, 12, 14, 16, 18, 20, 22, 24, 26, 28, 30, 32, 40,
                                    48, 60, 72, 80, 96, 160, 192, 254}
  BY <1>1 DEF length_counter_lookup
<1> DEFINE length == length_counter_lookup(v)
           m == length \div 2
<1> HIDE DEF length
<1>3. length \in Int /\ length >= 2 /\ length % 2 = 0
  BY <1>2 DEF length
<1>4. m \in Int /\ m >= 1 /\ length = 2 * m
  BY <1>3
<1>5. QED
  BY <1>4 DEF length, v

\* The sequencer is not behind the clock.
InStep == ~Passes(clock_ticks_, cycles_per_step_, frame_steps_)

\* A note of m frames on a channel that began with step a of the sequencer: as that
\* was due, or where the mode changed with it, before the next was.
NoteOf(c, a, m) ==
  LET clocks == Clocks(steps_per_frame_, frame_steps_) - Clocks(steps_per_frame_, a)
  IN /\ a \in Int /\ m \in Int
     /\ notes[c].length = 2 * m /\ notes[c].at \in Int /\ a * cycles_per_step_ <= notes[c].at
     /\ \/ notes[c].at < a * cycles_per_step_ + StepTicks
        \/ a = 1 /\ steps_per_frame_ = 5 /\ notes[c].at < 2 * cycles_per_step_
     /\ clocks < 2 * m => streams_[c].enabled /\ streams_[c].counter = 2 * m - clocks
     /\ clocks >= 2 * m => ~streams_[c].enabled /\ streams_[c].counter = 0
     /\ streams_[c].decay_rate = 0

\* Nothing silences a channel but its length counter.
Undisturbed(c) ==
  /\ ~Halted(c) /\ ~get_sweep_enabled(Value(c, 2))
  /\ {REG(c, 1), REG(c, 2), APU_STATUS} \cap had_write_flags_ = {}

NoteInv ==
  /\ registers_ \in [Registers -> Byte] /\ program \in DOMAIN Programs
  /\ APU_FRAME_COUNTER \in had_write_flags_ =>
       /\ steps_per_frame_ = 4 /\ frame_steps_ = 0 /\ clock_ticks_ = waiting
       /\ \A c \in Pulses : notes[c] = NoNote
  /\ \A c \in Pulses :
       notes[c] # NoNote => InStep /\ Undisturbed(c) /\ \E a, m : NoteOf(c, a, m)

\* The time of a note is what its clocks say, within the steps it began and ends in.
LEMMA NotesLast == TimeInv /\ NoteInv => NoteLasts
<1> SUFFICES ASSUME TimeInv, NoteInv, NEW c \in Pulses, notes[c] # NoNote
             PROVE  LET elapsed == clock_ticks_ - notes[c].at
                        due == (notes[c].length \div 2) * steps_per_frame_ * cycles_per_step_
                        early == (steps_per_frame_ - 3) * cycles_per_step_ + StepTicks
                    IN IF streams_[c].enabled THEN elapsed < due ELSE elapsed > due - early
  BY DEF NoteLasts
<1>1. InStep /\ \E a, m : NoteOf(c, a, m)
  BY DEF NoteInv
<1>2. PICK a, m : NoteOf(c, a, m)
  BY <1>1
<1> DEFINE C == cycles_per_step_
           N == steps_per_frame_
           b == frame_steps_
           at == notes[c].at
           clocks == Clocks(N, b) - Clocks(N, a)
           due == (notes[c].length \div 2) * N * C
           whole == (m * N) * C
           begun == a * C
           past == b * C
           late == (N - 3) * C
<1>3. /\ C \in Int /\ C >= 1 /\ N \in {4, 5} /\ b \in Int
      /\ clock_ticks_ \in Int /\ past <= clock_ticks_ /\ StepTicks \in Int /\ StepTicks >= 1
  <2>1. C \in Int /\ b * C \in Int /\ waiting \in Nat /\ b * C + waiting <= clock_ticks_
    BY Modes DEF TimeInv
  <2>2. past <= clock_ticks_
    <3> HIDE DEF past
    <3>1. past \in Int /\ past + waiting <= clock_ticks_
      BY <2>1 DEF past
    <3>2. QED
      BY <2>1, <3>1 DEF TimeInv
  <2>3. QED
    BY <2>2, Modes, Frames DEF TimeInv
<1>4. /\ a \in Int /\ m \in Int /\ at \in Int /\ begun <= at
      /\ at < begun + StepTicks \/ (a = 1 /\ N = 5 /\ at < 2 * C)
      /\ streams_[c].enabled <=> clocks < 2 * m
      /\ clocks \in Int /\ notes[c].length = 2 * m
  <2>1. clocks \in Int
    BY <1>2, <1>3, ClocksStep DEF NoteOf
  <2>2. QED
    BY <1>2, <2>1 DEF NoteOf
<1>5. due = whole /\ whole \in Int
  <2>1. notes[c].length \div 2 = m
    BY <1>4
  <2>2. whole \in Int
    BY <1>3, <1>4
  <2>3. QED
    BY <2>1, <2>2
<1>6. /\ clocks < 2 * m => b - a + 1 <= m * N
      /\ clocks >= 2 * m => b - a + (N - 3) >= m * N
      /\ a = 1 /\ N = 5 /\ clocks >= 2 * m => b - a >= m * N
  BY <1>3, <1>4, ClocksBetween
<1>7. clock_ticks_ < past + C
  <2>1. (b + 1) * C = past + C
    BY <1>3
  <2>2. QED
    BY <1>1, <1>3, <2>1 DEF InStep, Passes
<1>8. begun \in Int /\ past \in Int /\ late \in Int /\ m * N \in Int
  BY <1>3, <1>4
<1>9. CASE clocks < 2 * m
  <2> DEFINE n == b - a + 1
             all == m * N
  <2>1. n \in Int /\ all \in Int /\ n <= all
    BY <1>3, <1>4, <1>6, <1>8, <1>9
  <2>2. C * n <= C * all
    <3> HIDE DEF n, all
    <3>1. QED
      BY <1>3, <2>1, Monotone
  <2>3. C * n = past - begun + C /\ C * all = whole
    BY <1>3, <1>4
  <2> HIDE DEF past, begun, whole, clocks, due, at, n, all
  <2>4. past - begun + C <= whole
    BY <2>2, <2>3
  <2>5. clock_ticks_ - at < whole
    BY <1>3, <1>4, <1>5, <1>7, <1>8, <2>4
  <2>6. QED
    BY <1>4, <1>5, <1>9, <2>5 DEF due, at
<1>10. CASE ~(clocks < 2 * m)
  <2>1. CASE at < begun + StepTicks
    <3> DEFINE n == b - a + (N - 3)
               all == m * N
    <3>1. n \in Int /\ all \in Int /\ all <= n
      BY <1>3, <1>4, <1>6, <1>8, <1>10
    <3>2. C * all <= C * n
      <4> HIDE DEF n, all
      <4>1. QED
        BY <1>3, <3>1, Monotone
    <3>3. C * n = past - begun + late /\ C * all = whole
      BY <1>3, <1>4
    <3> HIDE DEF past, begun, whole, clocks, due, at, n, all, late
    <3>4. whole <= past - begun + late
      BY <3>2, <3>3
    <3>5. clock_ticks_ - at > whole - (late + StepTicks)
      BY <1>3, <1>4, <1>5, <1>8, <2>1, <3>4
    <3>6. QED
      BY <1>4, <1>5, <1>10, <3>5 DEF due, at, late
  <2>2. CASE a = 1 /\ N = 5 /\ at < 2 * C
    <3> DEFINE n == b - a
               all == m * N
    <3>1. n \in Int /\ all \in Int /\ all <= n
      BY <1>3, <1>4, <1>6, <1>8, <1>10, <2>2
    <3>2. C * all <= C * n
      <4> HIDE DEF n, all
      <4>1. QED
        BY <1>3, <3>1, Monotone
    <3>3. C * n = past - C /\ C * all = whole /\ late = 2 * C
      BY <1>3, <1>4, <2>2
    <3> HIDE DEF past, begun, whole, clocks, due, at, n, all, late
    <3>4. whole <= past - C
      BY <3>2, <3>3
    <3>5. clock_ticks_ - at > whole - (late + StepTicks)
      BY <1>3, <1>4, <1>5, <1>8, <2>2, <3>3, <3>4
    <3>6. QED
      BY <1>4, <1>5, <1>10, <3>5 DEF due, at, late
  <2>3. QED
    BY <1>4, <2>1, <2>2
<1>11. QED
  BY <1>9, <1>10

LEMMA ZeroByte == 0 \in Byte
BY DEF Byte, Unsigned

LEMMA NoteStarts == Init => NoteInv
<1> SUFFICES ASSUME Init
             PROVE  NoteInv
  OBVIOUS
<1>1. /\ registers_ = [r \in Registers |-> 0] /\ program \in DOMAIN Programs
      /\ steps_per_frame_ = 4 /\ frame_steps_ = 0 /\ clock_ticks_ = waiting
      /\ notes = [c \in Pulses |-> NoNote]
  BY DEF Init
<1>2. registers_ \in [Registers -> Byte]
  BY <1>1, ZeroByte
<1>3. QED
  BY <1>1, <1>2 DEF NoteInv

\* What a step of the APU does to a note, and to what it depends on.
LEMMA NoteStepped ==
  ASSUME TimeInv, Step, NEW c \in Pulses
  PROVE  /\ notes'[c] = IF Due /\ Had(c, 4)
                        THEN IF StartsNote(c) /\ Settled
                             THEN [at |-> clock_ticks_ + StepTicks, length |-> Started(c).counter]
                             ELSE NoNote
                        ELSE IF Due /\ Had(c, 3) THEN NoNote ELSE notes[c]
         /\ IF Due THEN Quarter((frame_steps_ + 1) % steps_per_frame_)
            ELSE UNCHANGED <<frame_steps_, streams_, params_, steps_per_frame_, had_write_flags_>>
         /\ program' = program
<1> DEFINE due == (clock_ticks_ + StepTicks) \div cycles_per_step_ > frame_steps_
<1>1. due <=> Due
  <2>1. /\ cycles_per_step_ \in Int /\ cycles_per_step_ > 0 /\ frame_steps_ \in Int
        /\ clock_ticks_ + StepTicks \in Int
    BY Modes, Frames DEF TimeInv
  <2> HIDE DEF TimeInv
  <2>2. due <=> Passes(clock_ticks_ + StepTicks, cycles_per_step_, frame_steps_)
    BY <2>1, QuotientPasses
  <2>3. QED
    BY <2>2 DEF Due
<1>2. /\ notes' = [k \in Pulses |->
                    IF due /\ Had(k, 4)
                    THEN IF StartsNote(k) /\ Settled
                         THEN [at |-> clock_ticks_ + StepTicks, length |-> Started(k).counter]
                         ELSE NoNote
                    ELSE IF due /\ Had(k, 3) THEN NoNote ELSE notes[k]]
      /\ IF due THEN Quarter((frame_steps_ + 1) % steps_per_frame_)
         ELSE UNCHANGED <<frame_steps_, streams_, params_, steps_per_frame_, had_write_flags_>>
      /\ program' = program
  BY DEF Step
<1> HIDE DEF due
<1>3. QED
  BY <1>1, <1>2

\* The note a step of the sequencer starts.
LEMMA NoteBegins ==
  ASSUME TimeInv, NoteInv, SoundInv, Step, NEW c \in Pulses,
         Due, Had(c, 4), StartsNote(c), Settled
  PROVE  InStep' /\ Undisturbed(c)' /\ \E a, m : NoteOf(c, a, m)'
<1> DEFINE step == (frame_steps_ + 1) % steps_per_frame_
           clocked == Clocked(c, step)
           tuned == IF Had(c, 3) THEN reload(clocked, Tuned(c)) ELSE clocked
           started == reload(tuned, Started(c))
           length == length_counter_lookup(get_length_counter(Value(c, 4)))
<1>1. /\ Quarter(step) /\ registers_' = registers_ /\ had_write_flags_' = {}
      /\ clock_ticks_' = clock_ticks_ + StepTicks /\ frame_steps_' = frame_steps_ + 1
      /\ notes'[c] = [at |-> clock_ticks_ + StepTicks, length |-> Started(c).counter]
  BY NoteStepped, StepCounts
<1>2. Pulse(tuned, c) /\ streams_'[c] = Switched(c, started)
  BY <1>1, StreamStepped DEF SoundInv
<1>3. Started(c).counter = length
  BY Parametrised DEF SoundInv
<1>4. PICK m \in Int : m >= 1 /\ length = 2 * m
  <2>1. Value(c, 4) \in Byte
    BY PulsesNamed DEF NoteInv, Value, Registers
  <2>2. QED
    BY <2>1, LengthsEven
<1> HIDE DEF step, clocked, tuned, length
<1>5. /\ Pulse(started, c) /\ started.enabled /\ started.counter = length
      /\ started.decay_rate = 0
  <2>1. Started(c).frequency # 0 /\ Started(c).constant_volume
    BY DEF StartsNote
  <2>2. QED
    BY <1>2, <1>3, <2>1, Reloading
<1> HIDE DEF started
<1>6. /\ streams_'[c].enabled /\ streams_'[c].counter = length /\ streams_'[c].decay_rate = 0
  <2>1. CASE APU_STATUS \in had_write_flags_
    <3> DEFINE on == Bit(registers_[APU_STATUS], StatusBit(c))
               sample == [enabled |-> TRUE, counter |-> 0]
    <3>1. Switched(c, started) = set_enabled(started, on) /\ set_enabled(sample, on).enabled
      BY <2>1 DEF Switched, StartsNote
    <3> HIDE DEF on
    <3>2. set_enabled(sample, on).enabled = on
      BY DEF set_enabled
    <3>3. on
      BY <3>1, <3>2
    <3>4. /\ set_enabled(started, on).enabled = on
          /\ set_enabled(started, on).decay_rate = started.decay_rate
          /\ set_enabled(started, on).counter = IF on THEN started.counter ELSE 0
      BY <1>5, Enabling
    <3>5. QED
      BY <1>2, <1>5, <3>1, <3>3, <3>4
  <2>2. CASE APU_STATUS \notin had_write_flags_
    BY <1>2, <1>5, <2>2 DEF Switched
  <2>3. QED
    BY <2>1, <2>2
<1>7. Undisturbed(c)'
  BY <1>1 DEF Undisturbed, StartsNote, Halted, Value
<1> DEFINE C == cycles_per_step_
<1>8. PICK a : a = frame_steps_ + 1
  OBVIOUS
<1>9. /\ C \in Int /\ C >= 1 /\ a \in Int /\ frame_steps_ \in Int /\ clock_ticks_ \in Int
      /\ StepTicks \in Int /\ StepTicks >= 1 /\ StepTicks <= C
  BY <1>8, Modes, Frames DEF TimeInv
<1>10. a * C \in Int /\ a * C <= clock_ticks_' /\ clock_ticks_' < a * C + StepTicks
  <2> DEFINE q == clock_ticks_ \div C
  <2>1. ~(q > frame_steps_)
    BY <1>9 DEF Settled
  <2>2. ~Passes(clock_ticks_, C, frame_steps_)
    <3> HIDE DEF C
    <3>1. QED
      BY <1>9, <2>1, QuotientPasses
  <2>3. Passes(clock_ticks_ + StepTicks, C, frame_steps_)
    BY DEF Due
  <2>4. a * C \in Int
    BY <1>9
  <2> DEFINE begun == a * C
  <2>5. ~(clock_ticks_ >= begun) /\ clock_ticks_ + StepTicks >= begun
    BY <1>8, <2>2, <2>3 DEF Passes
  <2> HIDE DEF begun
  <2>6. begun <= clock_ticks_' /\ clock_ticks_' < begun + StepTicks
    BY <1>1, <1>9, <2>4, <2>5 DEF begun
  <2>7. QED
    BY <2>4, <2>6 DEF begun
<1>11. /\ notes'[c].at = clock_ticks_' /\ notes'[c].length = 2 * m /\ clock_ticks_' \in Int
       /\ frame_steps_' = a
  BY <1>1, <1>3, <1>4, <1>8, <1>9
<1> DEFINE N1 == steps_per_frame_'
           C1 == cycles_per_step_'
           now == clock_ticks_'
<1>12. /\ N1 \in {4, 5} /\ C1 \in Int /\ C1 >= 1 /\ a * C1 \in Int
       /\ a * C1 <= now /\ now < (a + 1) * C1
       /\ now < a * C1 + StepTicks \/ (a = 1 /\ N1 = 5 /\ now < 2 * C1)
  <2>1. CASE APU_FRAME_COUNTER \notin had_write_flags_
    <3>1. N1 = steps_per_frame_ /\ C1 = C
      BY <2>1, StepCounts DEF cycles_per_step_
    <3>2. (a + 1) * C = a * C + C
      BY <1>9
    <3> DEFINE begun == a * C
    <3>3. /\ begun \in Int /\ begun <= now /\ now < begun + StepTicks
          /\ (a + 1) * C = begun + C
      BY <1>10, <3>2
    <3> HIDE DEF begun, now
    <3>4. now < (a + 1) * C
      BY <1>9, <1>11, <3>3 DEF now
    <3>5. QED
      BY <1>9, <3>1, <3>3, <3>4 DEF TimeInv, begun
  <2>2. CASE APU_FRAME_COUNTER \in had_write_flags_
    <3>1. N1 = 5 /\ steps_per_frame_ = 4 /\ a = 1
      BY <1>8, <2>2, StepCounts DEF NoteInv
    <3>2. C = FrameTicks \div 4 /\ C1 = FrameTicks \div 5
      BY <3>1 DEF cycles_per_step_
    <3>3. C <= now /\ now < C + StepTicks
      BY <1>9, <1>10, <3>1
    <3> HIDE DEF C, C1, now
    <3>4. C1 \in Int /\ C1 >= 1 /\ C1 <= now /\ now < 2 * C1
      BY <1>9, <1>11, <3>2, <3>3, Frames DEF now
    <3>5. QED
      BY <3>1, <3>4
  <2>3. QED
    BY <2>1, <2>2
<1> DEFINE clocks == Clocks(N1, frame_steps_') - Clocks(N1, a)
<1>13. clocks = 0
  BY <1>9, <1>11, <1>12 DEF Clocks
<1> HIDE DEF C, C1, N1, now, clocks
<1>14. InStep'
  <2>1. ~(clock_ticks_' >= (frame_steps_' + 1) * C1)
    <3>1. (a + 1) * C1 \in Int
      BY <1>9, <1>12
    <3>2. QED
      BY <1>11, <1>12, <3>1 DEF now
  <2>2. QED
    BY <2>1 DEF InStep, Passes, C1
<1>15. /\ a \in Int /\ m \in Int
       /\ notes'[c].length = 2 * m /\ notes'[c].at \in Int /\ a * C1 <= notes'[c].at
       /\ \/ notes'[c].at < a * C1 + StepTicks
          \/ a = 1 /\ N1 = 5 /\ notes'[c].at < 2 * C1
       /\ clocks < 2 * m => streams_'[c].enabled /\ streams_'[c].counter = 2 * m - clocks
       /\ clocks >= 2 * m => ~streams_'[c].enabled /\ streams_'[c].counter = 0
       /\ streams_'[c].decay_rate = 0
  BY <1>4, <1>6, <1>9, <1>11, <1>12, <1>13 DEF now
<1>16. NoteOf(c, a, m)'
  BY <1>15 DEF NoteOf, clocks, C1, N1
<1>17. QED
  BY <1>7, <1>14, <1>16

\* The channel of a note that goes on, at the next step of the sequencer.
LEMMA NoteCounts ==
  ASSUME TimeInv, SoundInv, NEW c \in Pulses, NEW step, Quarter(step),
         Undisturbed(c), ~Had(c, 3), ~Had(c, 4), streams_[c].decay_rate = 0
  PROVE  /\ streams_'[c].decay_rate = 0
         /\ ~LengthClock(step) => /\ streams_'[c].enabled = streams_[c].enabled
                                  /\ streams_'[c].counter = streams_[c].counter
         /\ LengthClock(step) =>
              /\ streams_[c].counter = 0 => /\ streams_'[c].enabled = streams_[c].enabled
                                            /\ streams_'[c].counter = 0
              /\ streams_[c].counter = 1 => ~streams_'[c].enabled /\ streams_'[c].counter = 0
              /\ streams_[c].counter \notin {0, 1} =>
                   /\ streams_'[c].enabled = streams_[c].enabled
                   /\ streams_'[c].counter = streams_[c].counter - 1
<1> DEFINE s == streams_[c]
           down == decrement_counter(s)
           counted == IF LengthClock(step) THEN LengthClocked(c, s) ELSE s
           enveloped == decrement_volume_envelope(counted)
<1>1. Pulse(s, c)
  BY DEF SoundInv
<1>2. LengthClocked(c, s) = down
  BY DEF LengthClocked, Undisturbed
<1>3. Clocked(c, step) = IF EnvelopeClock(step) THEN enveloped ELSE counted
  BY DEF Clocked, EnvelopeClocked
<1>4. streams_'[c] = Clocked(c, step)
  <2>1. APU_STATUS \notin had_write_flags_
    BY DEF Undisturbed
  <2>2. QED
    BY <1>1, <2>1, StreamStepped DEF Switched
<1>5. /\ Pulse(down, c) /\ down.decay_rate = s.decay_rate
      /\ s.counter = 0 => down = s
      /\ s.counter = 1 => ~down.enabled /\ down.counter = 0
      /\ s.counter \notin {0, 1} => down.enabled = s.enabled /\ down.counter = s.counter - 1
  BY <1>1, CountQuiet DEF Quieter
<1> HIDE DEF s, down
<1>6. /\ Pulse(counted, c) /\ counted.decay_rate = 0
      /\ counted = IF LengthClock(step) THEN down ELSE s
  BY <1>1, <1>2, <1>5 DEF s
<1> HIDE DEF counted
<1>7. /\ enveloped.enabled = counted.enabled /\ enveloped.counter = counted.counter
      /\ enveloped.decay_rate = 0
  BY <1>6, EnvelopeQuiet
<1> HIDE DEF enveloped
<1>8. /\ streams_'[c].enabled = counted.enabled /\ streams_'[c].counter = counted.counter
      /\ streams_'[c].decay_rate = 0
  BY <1>3, <1>4, <1>6, <1>7
<1>9. QED
  BY <1>5, <1>6, <1>8 DEF s

LEMMA NoteGoesOn ==
  ASSUME TimeInv, NoteInv, SoundInv, Step, NEW c \in Pulses, notes[c] # NoNote,
         Due, ~Had(c, 3), ~Had(c, 4)
  PROVE  notes'[c] = notes[c] /\ InStep' /\ Undisturbed(c)' /\ \E a, m : NoteOf(c, a, m)'
<1> DEFINE step == (frame_steps_ + 1) % steps_per_frame_
           C == cycles_per_step_
           N == steps_per_frame_
           b == frame_steps_
<1>1. /\ Quarter(step) /\ registers_' = registers_ /\ had_write_flags_' = {}
      /\ clock_ticks_' = clock_ticks_ + StepTicks /\ frame_steps_' = b + 1
      /\ notes'[c] = notes[c]
  BY NoteStepped, StepCounts
<1>2. steps_per_frame_' = N /\ cycles_per_step_' = C
  BY StepCounts DEF NoteInv, cycles_per_step_
<1>3. InStep /\ Undisturbed(c) /\ \E a, m : NoteOf(c, a, m)
  BY DEF NoteInv
<1>4. PICK a, m : NoteOf(c, a, m)
  BY <1>3
<1>5. /\ C \in Int /\ C >= 1 /\ N \in {4, 5} /\ b \in Int /\ clock_ticks_ \in Int
      /\ a \in Int /\ m \in Int /\ StepTicks \in Int /\ StepTicks <= C
  BY <1>4, Modes, Frames DEF TimeInv, NoteOf
<1>6. InStep'
  <2>1. clock_ticks_ < (b + 1) * C /\ (b + 2) * C = (b + 1) * C + C /\ (b + 1) * C \in Int
    BY <1>3, <1>5 DEF InStep, Passes
  <2>2. ~(clock_ticks_' >= (b + 2) * C)
    <3> DEFINE now == (b + 1) * C
    <3> HIDE DEF C, now
    <3>1. clock_ticks_ < now /\ (b + 2) * C = now + C /\ now \in Int
      BY <2>1 DEF now
    <3>2. QED
      BY <1>1, <1>5, <3>1
  <2>3. frame_steps_' + 1 = b + 2
    BY <1>1, <1>5
  <2>4. QED
    BY <1>2, <2>2, <2>3 DEF InStep, Passes
<1>7. Undisturbed(c)'
  BY <1>1, <1>3 DEF Undisturbed, Halted, Value
<1> DEFINE clocks == Clocks(N, b) - Clocks(N, a)
           clocks1 == Clocks(N, b + 1) - Clocks(N, a)
           counts == LengthClock(step)
<1>8. clocks \in Int /\ clocks1 = clocks + (IF counts THEN 1 ELSE 0)
  <2>1. /\ Clocks(N, b) \in Int /\ Clocks(N, a) \in Int
        /\ Clocks(N, b + 1) = Clocks(N, b) + (IF counts THEN 1 ELSE 0)
    BY <1>5, ClocksStep
  <2> DEFINE before == Clocks(N, b)
             start == Clocks(N, a)
  <2> HIDE DEF before, start, counts
  <2>2. /\ before \in Int /\ start \in Int
        /\ Clocks(N, b + 1) = before + (IF counts THEN 1 ELSE 0)
    BY <2>1 DEF before, start
  <2>3. QED
    BY <2>2 DEF before, start
<1>9. /\ notes[c].length = 2 * m /\ notes[c].at \in Int /\ a * C <= notes[c].at
      /\ \/ notes[c].at < a * C + StepTicks
         \/ a = 1 /\ N = 5 /\ notes[c].at < 2 * C
      /\ clocks < 2 * m => streams_[c].enabled /\ streams_[c].counter = 2 * m - clocks
      /\ clocks >= 2 * m => ~streams_[c].enabled /\ streams_[c].counter = 0
      /\ streams_[c].decay_rate = 0
  BY <1>4 DEF NoteOf
<1>10. /\ streams_'[c].decay_rate = 0
       /\ ~counts => /\ streams_'[c].enabled = streams_[c].enabled
                     /\ streams_'[c].counter = streams_[c].counter
       /\ counts =>
              /\ streams_[c].counter = 0 => /\ streams_'[c].enabled = streams_[c].enabled
                                            /\ streams_'[c].counter = 0
              /\ streams_[c].counter = 1 => ~streams_'[c].enabled /\ streams_'[c].counter = 0
              /\ streams_[c].counter \notin {0, 1} =>
                   /\ streams_'[c].enabled = streams_[c].enabled
                   /\ streams_'[c].counter = streams_[c].counter - 1
  BY <1>1, <1>3, <1>9, NoteCounts
<1> HIDE DEF clocks, clocks1, counts, step
<1>11. /\ clocks1 < 2 * m => streams_'[c].enabled /\ streams_'[c].counter = 2 * m - clocks1
       /\ clocks1 >= 2 * m => ~streams_'[c].enabled /\ streams_'[c].counter = 0
  <2>1. CASE counts
    BY <1>5, <1>8, <1>9, <1>10, <2>1
  <2>2. CASE ~counts
    BY <1>5, <1>8, <1>9, <1>10, <2>2
  <2>3. QED
    BY <2>1, <2>2
<1>12. NoteOf(c, a, m)'
  BY <1>1, <1>2, <1>5, <1>9, <1>10, <1>11 DEF NoteOf, clocks1
<1>13. QED
  BY <1>1, <1>6, <1>7, <1>12

LEMMA NoteStep ==
  ASSUME TimeInv, SoundInv, NoteInv, [Next]_vars
  PROVE  NoteInv'
<1>1. CASE Step
  <2>1. /\ registers_' = registers_ /\ clock_ticks_' = clock_ticks_ + StepTicks
        /\ waiting' = (IF Due THEN 0 ELSE waiting + StepTicks)
        /\ had_write_flags_' = (IF Due THEN {} ELSE had_write_flags_)
    BY <1>1, StepCounts
  <2>2. program' = program
    BY <1>1 DEF Step
  <2>3. APU_FRAME_COUNTER \in had_write_flags_' =>
          /\ steps_per_frame_' = 4 /\ frame_steps_' = 0 /\ clock_ticks_' = waiting'
          /\ \A c \in Pulses : notes'[c] = NoNote
    <3> SUFFICES ASSUME APU_FRAME_COUNTER \in had_write_flags_'
                 PROVE  /\ steps_per_frame_' = 4 /\ frame_steps_' = 0 /\ clock_ticks_' = waiting'
                        /\ \A c \in Pulses : notes'[c] = NoNote
      OBVIOUS
    <3>1. ~Due /\ APU_FRAME_COUNTER \in had_write_flags_
      BY <2>1
    <3>2. \A c \in Pulses : notes'[c] = notes[c]
      BY <1>1, <3>1, NoteStepped
    <3>3. steps_per_frame_' = steps_per_frame_ /\ frame_steps_' = frame_steps_
      BY <1>1, <3>1, StepCounts
    <3>4. QED
      BY <2>1, <3>1, <3>2, <3>3 DEF NoteInv
  <2>4. ASSUME NEW c \in Pulses, notes'[c] # NoNote
        PROVE  InStep' /\ Undisturbed(c)' /\ \E a, m : NoteOf(c, a, m)'
    <3>1. CASE Due /\ Had(c, 4)
      <4>1. StartsNote(c) /\ Settled
        BY <1>1, <2>4, <3>1, NoteStepped
      <4>2. QED
        BY <1>1, <3>1, <4>1, NoteBegins
    <3>2. CASE Due /\ ~Had(c, 4)
      <4>1. ~Had(c, 3) /\ notes[c] # NoNote
        BY <1>1, <2>4, <3>2, NoteStepped
      <4>2. QED
        BY <1>1, <3>2, <4>1, NoteGoesOn
    <3>3. CASE ~Due
      <4>1. notes'[c] = notes[c]
        BY <1>1, <3>3, NoteStepped
      <4>2. UNCHANGED <<frame_steps_, streams_, params_, steps_per_frame_, had_write_flags_>>
        BY <1>1, <3>3, NoteStepped
      <4>3. cycles_per_step_' = cycles_per_step_
        BY <4>2 DEF cycles_per_step_
      <4>4. Undisturbed(c) /\ \E a, m : NoteOf(c, a, m)
        BY <2>4, <4>1 DEF NoteInv
      <4>5. InStep'
        BY <2>1, <3>3, <4>2, <4>3 DEF InStep, Due, Passes
      <4>6. Undisturbed(c)'
        BY <2>1, <4>2, <4>4 DEF Undisturbed, Halted, Value
      <4>7. PICK a, m : NoteOf(c, a, m)
        BY <4>4
      <4>8. NoteOf(c, a, m)'
        BY <4>1, <4>2, <4>3, <4>7 DEF NoteOf
      <4>9. QED
        BY <4>5, <4>6, <4>8
    <3>4. QED
      BY <3>1, <3>2, <3>3
  <2>5. QED
    BY <2>1, <2>2, <2>3, <2>4 DEF NoteInv
<1>2. ASSUME NEW w \in Programs[program].writes, write_register(w[1], w[2])
      PROVE  NoteInv'
  <2>1. w[1] \in Registers /\ w[2] \in Byte
    BY WritesAssumption DEF NoteInv
  <2>2. /\ UNCHANGED <<clock_ticks_, steps_per_frame_, frame_steps_, streams_, program, waiting>>
        /\ \/ UNCHANGED <<registers_, had_write_flags_>>
           \/ /\ w[1] # APU_FRAME_COUNTER
              /\ registers_' = [registers_ EXCEPT ![w[1]] = w[2]]
              /\ had_write_flags_' = had_write_flags_ \cup {w[1]}
        /\ notes' = [c \in Pulses |->
                       IF w[1] \in {REG(c, 1), REG(c, 2), APU_STATUS} THEN NoNote ELSE notes[c]]
    BY <1>2 DEF write_register
  <2>3. registers_' \in [Registers -> Byte]
    BY <2>1, <2>2 DEF NoteInv
  <2>4. APU_FRAME_COUNTER \in had_write_flags_' =>
          /\ steps_per_frame_' = 4 /\ frame_steps_' = 0 /\ clock_ticks_' = waiting'
          /\ \A c \in Pulses : notes'[c] = NoNote
    <3>1. APU_FRAME_COUNTER \in had_write_flags_' => APU_FRAME_COUNTER \in had_write_flags_
      BY <2>2
    <3>2. QED
      BY <2>2, <3>1 DEF NoteInv
  <2>5. ASSUME NEW c \in Pulses, notes'[c] # NoNote
        PROVE  InStep' /\ Undisturbed(c)' /\ \E a, m : NoteOf(c, a, m)'
    <3>1. notes'[c] = notes[c] /\ w[1] \notin {REG(c, 1), REG(c, 2), APU_STATUS}
      BY <2>2, <2>5
    <3>2. InStep /\ Undisturbed(c) /\ \E a, m : NoteOf(c, a, m)
      BY <2>5, <3>1 DEF NoteInv
    <3>3. cycles_per_step_' = cycles_per_step_
      BY <2>2 DEF cycles_per_step_
    <3>4. InStep'
      BY <2>2, <3>2, <3>3 DEF InStep
    <3>5. /\ Value(c, 1)' = Value(c, 1) /\ Value(c, 2)' = Value(c, 2)
          /\ {REG(c, 1), REG(c, 2), APU_STATUS} \cap had_write_flags_' = {}
      <4>1. registers_ = [r \in Registers |-> registers_[r]]
            /\ REG(c, 1) \in Registers /\ REG(c, 2) \in Registers
        BY PulsesNamed DEF TimeInv, Registers
      <4>2. {REG(c, 1), REG(c, 2), APU_STATUS} \cap had_write_flags_ = {}
        BY <3>2 DEF Undisturbed
      <4>3. registers_'[REG(c, 1)] = registers_[REG(c, 1)]
            /\ registers_'[REG(c, 2)] = registers_[REG(c, 2)]
        BY <2>2, <3>1, <4>1
      <4>4. QED
        BY <2>2, <3>1, <4>2, <4>3 DEF Value
    <3>6. Undisturbed(c)'
      BY <3>2, <3>5 DEF Undisturbed, Halted
    <3>7. PICK a, m : NoteOf(c, a, m)
      BY <3>2
    <3>8. NoteOf(c, a, m)'
      BY <2>2, <3>1, <3>3, <3>7 DEF NoteOf
    <3>9. QED
      BY <3>4, <3>6, <3>8
  <2>6. QED
    BY <2>2, <2>3, <2>4, <2>5 DEF NoteInv
<1>3. CASE reset
  <2>1. /\ UNCHANGED <<clock_ticks_, had_write_flags_, program, waiting>>
        /\ registers_' = [r \in Registers |-> 0] /\ steps_per_frame_' = 4 /\ frame_steps_' = 0
        /\ notes' = [c \in Pulses |-> NoNote]
    BY <1>3 DEF reset
  <2>2. registers_' \in [Registers -> Byte]
    BY <2>1, ZeroByte
  <2>3. QED
    BY <2>1, <2>2 DEF NoteInv
<1>4. CASE UNCHANGED vars
  <2>1. UNCHANGED <<clock_ticks_, registers_, had_write_flags_, steps_per_frame_, frame_steps_,
                    streams_, program, waiting, notes>>
    BY <1>4 DEF vars
  <2>2. cycles_per_step_' = cycles_per_step_
    BY <2>1 DEF cycles_per_step_
  <2>3. ASSUME NEW c \in Pulses, notes'[c] # NoNote
        PROVE  InStep' /\ Undisturbed(c)' /\ \E a, m : NoteOf(c, a, m)'
    <3>1. InStep /\ Undisturbed(c) /\ \E a, m : NoteOf(c, a, m)
      BY <2>1, <2>3 DEF NoteInv
    <3>2. PICK a, m : NoteOf(c, a, m)
      BY <3>1
    <3>3. InStep' /\ Undisturbed(c)'
      BY <2>1, <2>2, <3>1 DEF InStep, Undisturbed, Halted, Value
    <3>4. NoteOf(c, a, m)'
      BY <2>1, <2>2, <3>2 DEF NoteOf
    <3>5. QED
      BY <3>3, <3>4
  <2>4. QED
    BY <2>1, <2>3 DEF NoteInv
<1>5. QED
  BY <1>1, <1>2, <1>3, <1>4 DEF Next

\* A note the program starts on a pulse channel and leaves alone sounds for the half
\* frames its length says, in steps of the sequencer, less the steps it may begin and
\* end within and one of the APU: in either mode, for any programs and any frames of at
\* least twenty steps of the APU.
THEOREM NotesLastInTime == Spec => []NoteLasts
<1>1. TimeInv /\ SoundInv /\ NoteInv /\ [Next]_vars => TimeInv' /\ SoundInv' /\ NoteInv'
  BY TimeStep, SoundStep, NoteStep
<1>2. QED
  BY <1>1, NotesLast, TimeStarts, SoundStarts, NoteStarts, PTL DEF Spec
=============================================================================
