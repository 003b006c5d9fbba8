------------------------------- MODULE NesApu -------------------------------
(***************************************************************************)
(* NesAPU: the frame sequencer, and the registers the processor writes.    *)
(* The APU counts the clock of the machine; whenever a quarter or a fifth  *)
(* of a frame is over it clocks the channels and only then looks at the    *)
(* registers written meanwhile.  Its calls reach the streams at once here; *)
(* AudioGenerator has the queues in between.                               *)
(***************************************************************************)
EXTENDS Bytes, AudioStream

CONSTANTS
  FrameTicks,  \* get_cycles_per_frame(): 357954
  StepTicks,   \* the ticks of the clock between two steps of the APU: 24
  Garbage,     \* what a counter without initial value may hold
  Unset,       \* sets of registers whose flags may be up before any write
  Programs     \* by its name: the writes a program makes, and three bounds, how
               \* many of them, how often a cartridge is loaded, and the clock

\* Neither a step of the sequencer nor one of the APU need divide a frame.
ASSUME FrameTicksAssumption ==
  /\ FrameTicks \in Nat /\ StepTicks \in Nat \ {0}
  /\ FrameTicks >= 20 * StepTicks
ASSUME GarbageAssumption == Garbage \subseteq Nat
ASSUME ProgramsAssumption ==
  \A p \in DOMAIN Programs : Programs[p].most \in Nat /\ Programs[p].loads \in Nat
                            /\ Programs[p].ticks \in Nat

Pulses == {"Square_Pulse_1", "Square_Pulse_2"}
Channels == Pulses \cup {"Triangle"}

\* The four registers of each channel, then those of all.
REG(c, n) == <<c, n>>
APU_STATUS == <<"APU", 1>>
APU_FRAME_COUNTER == <<"APU", 2>>
Registers == {REG(c, n) : c \in Channels, n \in 1 .. 4}
               \cup {APU_STATUS, APU_FRAME_COUNTER}

ASSUME WritesAssumption ==
  \A p \in DOMAIN Programs : Programs[p].writes \subseteq Registers \X Byte

VARIABLES
  clock_ticks_,      \* Nes::clock_ticks_
  registers_, had_write_flags_,
  steps_per_frame_, frame_steps_, frame_count_,
  params_,
  streams_,          \* the generator's streams
  program,           \* the name of the program
  writes, loads,     \* history: how many the program made
  \* What follows is not in the code; it is what the properties compare with.
  tally,             \* how often the channels were clocked in this frame
  waiting,           \* ticks since the last step of the sequencer
  notes,             \* by pulse channel: the note started last, if nothing was
                     \* written since that changes it
  asked              \* the channels this program has written to

vars == <<clock_ticks_, registers_, had_write_flags_, steps_per_frame_, frame_steps_,
          frame_count_, params_, streams_, program, writes, loads, tally, waiting,
          notes, asked>>

cycles_per_step_ == FrameTicks \div steps_per_frame_

NoNote == [at |-> 0, length |-> 0]
NewFrame(disturbed) ==
  [begun |-> clock_ticks_, steps |-> 0, lengths |-> 0, envelopes |-> 0,
   disturbed |-> disturbed, over |-> FALSE]

Parameters(c) ==
  [channel |-> c, frequency |-> 1, counter |-> 0, linear_counter_load |-> 0,
   constant_volume |-> FALSE, volume |-> 0, loop |-> FALSE, sweep_enabled |-> FALSE,
   sweep_period |-> 0, sweep_negate |-> FALSE, sweep_shift_count |-> 0]

\* The constructor resets everything but the flags.
Init ==
  /\ clock_ticks_ = 0
  /\ registers_ = [r \in Registers |-> 0]
  /\ had_write_flags_ \in Unset
  /\ steps_per_frame_ = 4
  /\ frame_steps_ = 0
  /\ frame_count_ = 0
  /\ params_ = [c \in Channels |-> Parameters(c)]
  /\ \E counter, decay \in Garbage :
       streams_ = [c \in Channels |-> NewStream(c, counter, decay)]
  /\ program \in DOMAIN Programs
  /\ writes = 0
  /\ loads = 0
  /\ tally = NewFrame(FALSE)
  /\ waiting = 0
  /\ notes = [c \in Pulses |-> NoNote]
  /\ asked = {}

-----------------------------------------------------------------------------
(* What the registers say. *)

Value(c, n) == registers_[REG(c, n)]
Had(c, n) == REG(c, n) \in had_write_flags_
Bit(byte, bit) == bit \in Bits(byte)

length_counter_lookup(v) ==
  LET low == <<10, 254, 20, 2, 40, 4, 80, 6, 160, 8, 60, 10, 14, 12, 26, 14>>
      high == <<12, 16, 24, 18, 48, 20, 96, 22, 192, 24, 72, 26, 16, 28, 32, 30>>
  IN IF v >= 16 THEN high[v - 15] ELSE low[v + 1]

get_length_counter(r) == r \div 8
get_sweep_enabled(r) == Bit(r, 7)
get_frame_counter_mode_steps(r) == IF Bit(r, 7) THEN 4 ELSE 5

Int16(n) == IF Word16(n) < 32768 THEN Word16(n) ELSE Word16(n) - 65536

\* The eleventh bit of the timer is not taken from the register.
Timer(r1, r2) == 256 * (r2 % 4) + r1
get_square_pulse_frequency(r1, r2) ==
  IF Timer(r1, r2) < 8 THEN 0 ELSE Int16(1789773 \div (16 * (Timer(r1, r2) + 1)))
get_triangle_frequency(r1, r2) == Int16(1789773 \div (32 * (Timer(r1, r2) + 1)))

\* The length counters of the pulses are halted by bit 5, and both counters of
\* the triangle by bit 7.
Halted(c) == Bit(Value(c, 1), IF c = "Triangle" THEN 7 ELSE 5)

-----------------------------------------------------------------------------
(* The sequencer. *)

\* Defect: the second clock comes with the last step of a frame.
LengthClockLate(step) == step \in {0, 1}

\* Defect: the modes are not told apart.
LengthClockEither(step) == step \in {1, 3, 4}

LengthClock(step) ==
  \/ step = 1
  \/ step = 3 /\ steps_per_frame_ = 4
  \/ step = 4 /\ steps_per_frame_ = 5

EnvelopeClock(step) == steps_per_frame_ = 4 \/ step # 3

LengthClocked(c, stream) ==
  LET counted == IF Halted(c) THEN stream ELSE decrement_counter(stream)
  IN IF c \in Pulses /\ get_sweep_enabled(Value(c, 2)) THEN step_sweep(counted) ELSE counted

EnvelopeClocked(c, stream) ==
  IF c \in Pulses THEN decrement_volume_envelope(stream)
  ELSE IF Halted(c) THEN stream ELSE decrement_linear_counter(stream)

Clocked(c, step) ==
  LET counted == IF LengthClock(step) THEN LengthClocked(c, streams_[c]) ELSE streams_[c]
  IN IF EnvelopeClock(step) THEN EnvelopeClocked(c, counted) ELSE counted

-----------------------------------------------------------------------------
(* The registers written since the last step of the sequencer. *)

Frequency(c, from) ==
  IF c = "Triangle" THEN get_triangle_frequency(Value(from, 3), Value(from, 4))
  ELSE get_square_pulse_frequency(Value(from, 3), Value(from, 4))

\* The parameters once the first two registers are handled.  get_period() and
\* get_shift() return a bool.
Shaped(c) ==
  LET volume == Value(c, 1)
      sweep == Value(c, 2)
      loud == IF c \in Pulses /\ Had(c, 1)
              THEN [params_[c] EXCEPT !.loop = Bit(volume, 5),
                                      !.constant_volume = Bit(volume, 4),
                                      !.volume = volume % 16]
              ELSE params_[c]
  IN IF c \in Pulses /\ Had(c, 2)
     THEN [loud EXCEPT !.sweep_enabled = get_sweep_enabled(sweep),
                       !.sweep_period = IF (sweep \div 16) % 8 = 0 THEN 0 ELSE 1,
                       !.sweep_negate = Bit(sweep, 3),
                       !.sweep_shift_count = IF sweep % 8 = 0 THEN 0 ELSE 1]
     ELSE loud

\* Then the third: the second pulse takes the frequency of the first.
Tuned(c) ==
  IF Had(c, 3)
  THEN [Shaped(c) EXCEPT
          !.frequency = Frequency(c, IF c = "Square_Pulse_2" THEN "Square_Pulse_1" ELSE c)]
  ELSE Shaped(c)

\* Then the fourth.
Started(c) ==
  IF ~Had(c, 4) THEN Tuned(c)
  ELSE LET p == [Tuned(c) EXCEPT
                   !.frequency = Frequency(c, c),
                   !.counter = length_counter_lookup(get_length_counter(Value(c, 4)))]
       IN IF c = "Triangle" /\ ~Halted(c)
          THEN [p EXCEPT !.linear_counter_load = Value(c, 1) % 128] ELSE p

\* What update_parameters() and set_enabled() make of a stream.
Updated(c, stream) ==
  LET tuned == IF Had(c, 3) THEN reload(stream, Tuned(c)) ELSE stream
  IN IF Had(c, 4) THEN reload(tuned, Started(c)) ELSE tuned

StatusBit(c) ==
  CASE c = "Square_Pulse_1" -> 0 [] c = "Square_Pulse_2" -> 1 [] c = "Triangle" -> 2

Switched(c, stream) ==
  IF APU_STATUS \in had_write_flags_
  THEN set_enabled(stream, Bit(registers_[APU_STATUS], StatusBit(c))) ELSE stream

-----------------------------------------------------------------------------
(* The steps of the machine. *)

Quarter(step) ==
  /\ frame_steps_' = frame_steps_ + 1
  /\ streams_' = [c \in Channels |-> Switched(c, Updated(c, Clocked(c, step)))]
  /\ params_' = [c \in Channels |-> Started(c)]
  /\ steps_per_frame_' =
       IF APU_FRAME_COUNTER \in had_write_flags_
       THEN get_frame_counter_mode_steps(registers_[APU_FRAME_COUNTER])
       ELSE steps_per_frame_
  /\ had_write_flags_' = {}

\* A note is what the fourth register starts on an audible channel that neither
\* the sweep nor the envelope nor the status register will silence.
StartsNote(c) ==
  /\ Had(c, 4)
  /\ Started(c).frequency # 0
  /\ Started(c).constant_volume
  /\ ~Halted(c) /\ ~get_sweep_enabled(Value(c, 2))
  /\ Switched(c, [enabled |-> TRUE, counter |-> 0]).enabled

Settled ==
  /\ frame_steps_ = clock_ticks_ \div cycles_per_step_
  /\ frame_count_ = clock_ticks_ \div FrameTicks

Counted(frame, due, step) ==
  IF ~due THEN frame
  ELSE [frame EXCEPT
          !.steps = @ + 1,
          !.lengths = @ + IF LengthClock(step) THEN 1 ELSE 0,
          !.envelopes = @ + IF EnvelopeClock(step) THEN 1 ELSE 0,
          !.disturbed = @ \/ APU_FRAME_COUNTER \in had_write_flags_]

\* NesAPU::step(), every sixth step of the machine.
Step ==
  LET now == clock_ticks_ + StepTicks
      due == now \div cycles_per_step_ > frame_steps_
      step == (frame_steps_ + 1) % steps_per_frame_
      frame_over == now \div FrameTicks > frame_count_
      frame == IF tally.over THEN NewFrame(~Settled) ELSE tally
  IN /\ now <= Programs[program].ticks
     /\ clock_ticks_' = now
     /\ IF due THEN Quarter(step)
        ELSE UNCHANGED <<frame_steps_, streams_, params_, steps_per_frame_, had_write_flags_>>
     /\ frame_count_' = IF frame_over THEN frame_count_ + 1 ELSE frame_count_
     /\ tally' = [Counted(frame, due, step) EXCEPT !.over = frame_over]
     /\ waiting' = IF due THEN 0 ELSE waiting + StepTicks
     /\ notes' = [c \in Pulses |->
                    IF due /\ Had(c, 4)
                    THEN IF StartsNote(c) /\ Settled
                         THEN [at |-> now, length |-> Started(c).counter] ELSE NoNote
                    ELSE IF due /\ Had(c, 3) THEN NoNote ELSE notes[c]]
     /\ UNCHANGED <<registers_, program, writes, loads, asked>>

\* AddressBus::write(): what is written to the frame counter goes to the joypads.
write_register(a, value) ==
  /\ writes < Programs[program].most
  /\ writes' = writes + 1
  /\ IF a = APU_FRAME_COUNTER THEN UNCHANGED <<registers_, had_write_flags_>>
     ELSE /\ registers_' = [registers_ EXCEPT ![a] = value]
          /\ had_write_flags_' = had_write_flags_ \cup {a}
  /\ notes' = [c \in Pulses |->
                 IF a \in {REG(c, 1), REG(c, 2), APU_STATUS} THEN NoNote ELSE notes[c]]
  /\ asked' = asked \cup
       IF a = APU_STATUS THEN Channels ELSE {c \in Channels : \E n \in 1 .. 4 : a = REG(c, n)}
  /\ UNCHANGED <<clock_ticks_, steps_per_frame_, frame_steps_, frame_count_, params_,
                 streams_, program, loads, tally, waiting>>

\* Defect: the sequencer goes on counting from the step it is at.
resetKeepsSteps ==
  /\ loads < Programs[program].loads
  /\ loads' = loads + 1
  /\ registers_' = [r \in Registers |-> 0]
  /\ steps_per_frame_' = 4
  /\ frame_count_' = 0
  /\ params_' = [c \in Channels |-> Parameters(c)]
  /\ tally' = NewFrame(TRUE)
  /\ notes' = [c \in Pulses |-> NoNote]
  /\ asked' = {}
  /\ UNCHANGED <<clock_ticks_, frame_steps_, had_write_flags_, streams_, program, writes,
                 waiting>>

\* Defect: the registers keep the values of the last program.
resetKeepsRegisters ==
  /\ loads < Programs[program].loads
  /\ loads' = loads + 1
  /\ steps_per_frame_' = 4
  /\ frame_steps_' = 0
  /\ frame_count_' = 0
  /\ params_' = [c \in Channels |-> Parameters(c)]
  /\ tally' = NewFrame(TRUE)
  /\ notes' = [c \in Pulses |-> NoNote]
  /\ asked' = {}
  /\ UNCHANGED <<clock_ticks_, registers_, had_write_flags_, streams_, program, writes,
                 waiting>>

\* NesAPU::reset() when a cartridge is loaded: neither the clock of the machine
\* nor the flags nor the streams are.
reset ==
  /\ loads < Programs[program].loads
  /\ loads' = loads + 1
  /\ registers_' = [r \in Registers |-> 0]
  /\ steps_per_frame_' = 4
  /\ frame_steps_' = 0
  /\ frame_count_' = 0
  /\ params_' = [c \in Channels |-> Parameters(c)]
  /\ tally' = NewFrame(TRUE)
  /\ notes' = [c \in Pulses |-> NoNote]
  /\ asked' = {}
  /\ UNCHANGED <<clock_ticks_, had_write_flags_, streams_, program, writes, waiting>>

Next ==
  \/ Step
  \/ \E w \in Programs[program].writes : write_register(w[1], w[2])
  \/ reset

Spec == Init /\ [][Next]_vars

-----------------------------------------------------------------------------
(* Safety. *)

\* What the steps of the sequencer leave of a frame: 2 ticks, or 4 where it has
\* five of them.
Remainder == FrameTicks - steps_per_frame_ * cycles_per_step_

\* "Stepped at 2x frame frequency" (audio_output.hpp:137): in either mode, in
\* each frame the generator is told of, the length counters and the sweep were
\* clocked twice and the envelopes four times, if no cartridge was just loaded.
\* Steps and frames drift apart by the remainder: a frame may get a step too
\* many if it begins just before a step of the sequencer is due, or miss one if
\* it begins just after, and then it has a clock of each kind more or fewer.
ClockedTwiceAFrame ==
  tally.over /\ ~tally.disturbed =>
    LET odd == tally.steps - steps_per_frame_
        age == tally.begun % cycles_per_step_
    IN /\ tally.lengths - 2 \in {0, odd} /\ tally.envelopes - 4 \in {0, odd}
       /\ \/ odd = 0
          \/ odd = 1 /\ age + Remainder + StepTicks > cycles_per_step_
          \/ odd = -1 /\ age + Remainder < StepTicks

\* From the write of a length to silence, in time: a note of n half frames, of
\* the steps of the sequencer, is over when they are, and earlier by one step of
\* the sequencer at most, or two where it has five, and by one of the APU.
NoteLasts ==
  \A c \in Pulses :
    notes[c] # NoNote =>
      LET elapsed == clock_ticks_ - notes[c].at
          due == (notes[c].length \div 2) * steps_per_frame_ * cycles_per_step_
          early == (steps_per_frame_ - 3) * cycles_per_step_ + StepTicks
      IN IF streams_[c].enabled THEN elapsed < due ELSE elapsed > due - early

\* A register that was written waits for a step of the sequencer at most,
\* whatever is loaded meanwhile.
WritesHandledInTime == waiting <= cycles_per_step_

\* When the first pulse channel is switched on, the program that is loaded has
\* written to it: the flags its predecessor left up start nothing, because the
\* registers are cleared.  (The second pulse is tuned by the registers of the
\* first, so such a flag of its third register can start it.)
PulseSoundsOnRequest ==
  [][streams_'["Square_Pulse_1"].enabled =>
       streams_["Square_Pulse_1"].enabled \/ "Square_Pulse_1" \in asked]_vars
=============================================================================
