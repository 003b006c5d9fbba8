----------------------------- MODULE AudioStream -----------------------------
(***************************************************************************)
(* AudioStream of platform/audio_output.cpp: what each queued action does  *)
(* to the state of one APU channel.  The generator thread applies them in  *)
(* AudioGenerator; the APU's frame sequencer decides which are queued.     *)
(***************************************************************************)
EXTENDS Integers

CONSTANTS
  EnvelopeUnits   \* 240: the numerator of the volume decay rate

ASSUME EnvelopeUnitsAssumption == EnvelopeUnits \in Nat \ {0}

MaxVolume == 15
VolumeStep == 3
MaxFrequency == 2047   \* 0x7FF

\* The waveform is represented by its target_frequency(): the frequency set
\* last, whether it has been taken up by read_sample() or is still pending.
\* counter_ and volume_decay_rate_ have no initial value in the code.
NewStream(channel, counter, decay) ==
  [channel |-> channel, enabled |-> FALSE,
   counter |-> counter, linear_counter |-> 0,
   volume |-> MaxVolume, decay_rate |-> decay, envelope_ticks |-> 0, loop |-> FALSE,
   sweep_enabled |-> FALSE, sweep_period |-> 0, sweep_negate |-> FALSE,
   sweep_shift |-> 0, sweep_ticks |-> 0, frequency |-> 440]

set_enabled(stream, enabled) ==
  [stream EXCEPT !.enabled = enabled, !.counter = IF enabled THEN @ ELSE 0]

Lower(volume) == IF volume < VolumeStep THEN 0 ELSE volume - VolumeStep

\* A channel at volume zero starts again if it loops and is silenced if not.
decrement_volume_envelope(stream) ==
  LET ticked == [stream EXCEPT !.envelope_ticks = @ + 1]
      due == ticked.envelope_ticks % stream.decay_rate = 0
      volume == IF due THEN Lower(stream.volume) ELSE stream.volume
  IN CASE stream.volume = 0 \/ stream.decay_rate = 0 -> ticked
       [] OTHER ->
            CASE volume > 0 -> [ticked EXCEPT !.volume = volume]
              [] volume <= 0 /\ stream.loop -> [ticked EXCEPT !.volume = MaxVolume]
              [] OTHER -> set_enabled([ticked EXCEPT !.volume = 0], FALSE)

\* Counts a counter down; the step to zero is the one that silences.
CountedDown(stream) ==
  CASE stream.counter = 0 -> stream
    [] stream.counter = 1 -> set_enabled(stream, FALSE)
    [] OTHER -> [stream EXCEPT !.counter = @ - 1]

decrement_linear_counter(stream) ==
  CASE stream.linear_counter = 0 -> stream
    [] stream.linear_counter = 1 ->
         set_enabled([stream EXCEPT !.linear_counter = 0], FALSE)
    [] OTHER -> [stream EXCEPT !.linear_counter = @ - 1]

\* The triangle's length counter clock moves its linear counter too.
decrement_counter(stream) ==
  CountedDown(IF stream.channel = "Triangle"
              THEN decrement_linear_counter(stream) ELSE stream)

SweptFrequency(stream) ==
  LET f == stream.frequency
      change == f \div 2 ^ stream.sweep_shift
  IN CASE stream.sweep_negate -> f + change
       [] stream.channel = "Square_Pulse_1" -> f - change - 1
       [] OTHER -> f - change

step_sweep(stream) ==
  LET ticked == [stream EXCEPT !.sweep_ticks = @ + 1]
      frequency == SweptFrequency(stream)
  IN CASE ~stream.sweep_enabled -> ticked
       [] stream.sweep_enabled /\ stream.frequency < 8 -> set_enabled(ticked, FALSE)
       [] OTHER ->
            CASE ticked.sweep_ticks % (stream.sweep_period + 2) # 0 -> ticked
              [] frequency \in 1 .. MaxFrequency -> [ticked EXCEPT !.frequency = frequency]
              [] OTHER -> set_enabled([ticked EXCEPT !.frequency = 0], FALSE)

\* A new set of parameters; a frequency of zero is how the APU asks for silence.
reload(stream, params) ==
  set_enabled(
    [stream EXCEPT
       !.frequency = params.frequency,
       !.counter = params.counter,
       !.linear_counter = params.linear_counter_load,
       !.volume = IF params.constant_volume THEN params.volume ELSE MaxVolume,
       !.decay_rate = IF params.constant_volume THEN 0
                      ELSE EnvelopeUnits \div (params.volume + 1),
       !.loop = params.loop,
       !.sweep_enabled = params.sweep_enabled,
       !.sweep_period = params.sweep_period,
       !.sweep_negate = params.sweep_negate,
       !.sweep_shift = params.sweep_shift_count],
    params.frequency # 0)
=============================================================================
