-------------------------- MODULE MCAudioGenerator --------------------------
(***************************************************************************)
(* A small instance of AudioGenerator: one pulse channel and the triangle, *)
(* and for each of them an audible and a silencing set of parameters.      *)
(***************************************************************************)
EXTENDS AudioGenerator

MCParams(channel, frequency, counter, linear) ==
  [channel |-> channel, frequency |-> frequency, counter |-> counter,
   linear_counter_load |-> linear, constant_volume |-> FALSE, volume |-> 1,
   loop |-> FALSE, sweep_enabled |-> TRUE, sweep_period |-> 0,
   sweep_negate |-> FALSE, sweep_shift_count |-> 1]

MCChannels == {"Square_Pulse_1", "Triangle"}

MCParamChoices ==
  {MCParams("Square_Pulse_1", 17, 1, 0), MCParams("Square_Pulse_1", 0, 2, 0),
   MCParams("Triangle", 54, 2, 1)}

MCGarbage == {3}

\* Room for one sample (the second does not fit exactly) and for two.
MCRequestLengths == {4, 5}
=============================================================================
