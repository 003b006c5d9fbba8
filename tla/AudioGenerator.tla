--------------------------- MODULE AudioGenerator ---------------------------
(***************************************************************************)
(* Generator of platform/audio_output.cpp.  The thread that runs the       *)
(* machine ("vm") queues actions on the channels' streams; a producer      *)
(* thread takes them one by one, producing a frame's samples at each       *)
(* "Step".  set_enabled() alone writes to a stream directly.  The sound    *)
(* device asks for the samples; the UI thread stops the producer.          *)
(*                                                                         *)
(* queues_lock_ is held for one step at a time here, so it is implicit;    *)
(* param_updates_ is pushed under it and popped without it, which is why   *)
(* these two operations have a beginning and an end.                       *)
(***************************************************************************)
EXTENDS AudioStream, Sequences, SequencesExt

CONSTANTS
  Channels,         \* the channels the APU drives
  ParamChoices,     \* the parameter sets update_parameters() is called with
  SamplesPerStep,   \* samples_per_step_
  Garbage,          \* what a counter without initial value may hold
  OutputCapacity,   \* how many samples output_buffer_ holds, 1024 * 32 - 1
  RequestLengths,   \* how many bytes the sound device asks readData() for
  MaxCalls          \* bound on the calls the machine makes

ASSUME SamplesAssumption == SamplesPerStep \in Nat
ASSUME ParamsAssumption == \A params \in ParamChoices : params.channel \in Channels
ASSUME GarbageAssumption == Garbage \subseteq Int
ASSUME OutputAssumption ==
  /\ OutputCapacity \in Nat \ {0}
  /\ RequestLengths \subseteq Nat \ {0}

VARIABLES
  streams_,        \* one stream per channel
  events_,         \* the queued actions
  param_updates_,  \* the queued parameters
  sema_,           \* the counter of the producer's semaphore
  shutdown_,
  vm,              \* where the machine's thread is, and in which call
  producer,        \* where the producer thread is
  handling,        \* the event it has taken
  samples_produced,
  output_buffer_,  \* the samples produced and not yet asked for, by their numbers
  ui,              \* "running", "joining" or "joined"
  calls,           \* how many calls the machine has made
  \* What follows is not in the code; it is what the properties compare with.
  expected,        \* the streams, had every call taken effect at once
  promised,        \* the samples that the calls of step() so far stand for
  bypassed,        \* the channels set_enabled() hit while actions were queued
  raced,           \* a push and a pop of param_updates_ overlapped
  produced,        \* samples produced so far
  heard,           \* the samples the sound device was given
  overrun          \* how many samples gave their place to newer ones

vars == <<streams_, events_, param_updates_, sema_, shutdown_, vm, producer,
          handling, samples_produced, ui, calls, expected, promised, bypassed, raced,
          produced, output_buffer_, heard, overrun>>

queueVars == <<events_, param_updates_, sema_>>
producerVars == <<producer, handling, samples_produced>>
ghostVars == <<expected, promised, bypassed, raced, produced>>
outputVars == <<output_buffer_, heard, overrun>>

NoParams == "no_params"
Idle == [at |-> "idle", channel |-> "none", params |-> NoParams]
NoStream == "no_stream"
NoEvent ==
  [event |-> "none", channel |-> "none", call |-> 0, due |-> 0,
   before |-> NoStream, after |-> NoStream]

ChannelEvents == {"Decrement_Counter", "Decrement_Linear_Counter",
                  "Decrement_Volume", "Step_Sweep"}
UpdateEvents == {"Parameter_Update", "Parameter_Update_Reset_Phase"}

IsUpdate(event) == event.event \in UpdateEvents

Init ==
  /\ \E counter, decay \in Garbage :
       streams_ = [c \in Channels |-> NewStream(c, counter, decay)]
  /\ events_ = <<>>
  /\ param_updates_ = <<>>
  /\ sema_ = 0
  /\ shutdown_ = FALSE
  /\ vm = Idle
  /\ producer = "acquire"
  /\ handling = NoEvent
  /\ samples_produced = 0
  /\ ui = "running"
  /\ calls = 0
  /\ expected = streams_
  /\ promised = 0
  /\ bypassed = {}
  /\ raced = FALSE
  /\ produced = 0
  /\ output_buffer_ = <<>>
  /\ heard = <<>>
  /\ overrun = 0

-----------------------------------------------------------------------------
(* What an event does to its stream. *)

Handled(event, stream) ==
  CASE event = "Decrement_Counter" -> decrement_counter(stream)
    [] event = "Decrement_Linear_Counter" -> decrement_linear_counter(stream)
    [] event = "Decrement_Volume" -> decrement_volume_envelope(stream)
    [] event = "Step_Sweep" -> step_sweep(stream)

\* The actions on a channel that are queued or being handled.
Pending(channel) ==
  \/ \E i \in DOMAIN events_ : events_[i].event # "Step" /\ events_[i].channel = channel
  \/ handling.event \notin {"none", "Step"} /\ handling.channel = channel

-----------------------------------------------------------------------------
(* The machine's thread.  It makes no call once the UI thread has begun to   *)
(* destroy the machine.                                                      *)

Call ==
  /\ vm = Idle
  /\ ~shutdown_
  /\ calls < MaxCalls
  /\ calls' = calls + 1

\* What is queued are event and channel.  The rest is history: which call it was,
\* the samples that are due before it, and what it is to make of its stream.
Queued(event, channel, before, after) ==
  events_' = Append(events_, [event |-> event, channel |-> channel, call |-> calls + 1,
                              due |-> promised, before |-> before, after |-> after])

\* Which channels an event is meant for.
Fits(event, channel) ==
  CASE event = "Decrement_Linear_Counter" -> channel = "Triangle"
    [] event \in {"Decrement_Volume", "Step_Sweep"} -> channel # "Triangle"
    [] OTHER -> TRUE

\* decrement_counter(), decrement_linear_counter(), decrement_volume_envelope()
\* and step_sweep(): push and release under the lock.
Decrement(event, channel) ==
  /\ Call
  /\ Fits(event, channel)
  /\ LET after == Handled(event, expected[channel])
     IN /\ Queued(event, channel, expected[channel], after)
        /\ expected' = [expected EXCEPT ![channel] = after]
  /\ sema_' = sema_ + 1
  /\ UNCHANGED <<streams_, param_updates_, shutdown_, vm, producerVars, ui,
                 promised, bypassed, raced, produced, outputVars>>

\* step(): push under the lock ...
step ==
  /\ Call
  /\ Queued("Step", "Square_Pulse_1", NoStream, NoStream)
  /\ promised' = promised + SamplesPerStep
  /\ vm' = [Idle EXCEPT !.at = "release"]
  /\ UNCHANGED <<streams_, param_updates_, sema_, shutdown_, producerVars, ui,
                 expected, bypassed, raced, produced, outputVars>>

\* ... and release after it.
StepRelease ==
  /\ vm.at = "release"
  /\ vm' = Idle
  /\ sema_' = sema_ + 1
  /\ UNCHANGED <<streams_, events_, param_updates_, shutdown_, producerVars, ui,
                 calls, ghostVars, outputVars>>

\* update_parameters(): the event, then the parameters and the release.
update_parameters(event, params) ==
  /\ Call
  /\ LET after == reload(expected[params.channel], params)
     IN /\ Queued(event, params.channel, expected[params.channel], after)
        /\ expected' = [expected EXCEPT ![params.channel] = after]
  /\ vm' = [at |-> "push_params", channel |-> params.channel, params |-> params]
  /\ UNCHANGED <<streams_, param_updates_, sema_, shutdown_, producerVars, ui,
                 promised, bypassed, raced, produced, outputVars>>

\* When the push and the pop overlap, either may be lost.  The number of the call
\* is history.
PushParams ==
  LET pushed == Append(param_updates_, [params |-> vm.params, call |-> calls])
      overlap == producer = "pop_params"
  IN /\ vm.at = "push_params"
     /\ vm' = Idle
     /\ param_updates_' \in {pushed} \cup IF overlap THEN {param_updates_} ELSE {}
     /\ sema_' = sema_ + 1
     /\ raced' = (raced \/ overlap)
     /\ UNCHANGED <<streams_, events_, shutdown_, producerVars, ui, calls,
                    expected, promised, bypassed, produced, outputVars>>

\* Generator::set_enabled(): no queue and no lock.  The two fields are written
\* one after the other.
SetEnabled(channel, enabled) ==
  /\ Call
  /\ streams_' = [streams_ EXCEPT ![channel].enabled = enabled]
  /\ expected' = [expected EXCEPT ![channel] = set_enabled(@, enabled)]
  /\ bypassed' = bypassed \cup IF Pending(channel) THEN {channel} ELSE {}
  /\ vm' = IF enabled THEN Idle ELSE [Idle EXCEPT !.at = "clear_counter", !.channel = channel]
  /\ UNCHANGED <<queueVars, shutdown_, producerVars, ui, promised, raced, produced,
                 outputVars>>

SetEnabledClears ==
  /\ vm.at = "clear_counter"
  /\ vm' = Idle
  /\ streams_' = [streams_ EXCEPT ![vm.channel].counter = 0]
  /\ UNCHANGED <<queueVars, shutdown_, producerVars, ui, calls, ghostVars, outputVars>>

-----------------------------------------------------------------------------
(* The producer thread. *)

\* Defect: a semaphore used as a flag; one acquire takes every release.
AcquireAll ==
  /\ producer = "acquire"
  /\ sema_ > 0
  /\ sema_' = 0
  /\ producer' = "pop"
  /\ UNCHANGED <<streams_, events_, param_updates_, shutdown_, vm, handling,
                 samples_produced, ui, calls, ghostVars, outputVars>>

Acquire ==
  /\ producer = "acquire"
  /\ sema_ > 0
  /\ sema_' = sema_ - 1
  /\ producer' = "pop"
  /\ UNCHANGED <<streams_, events_, param_updates_, shutdown_, vm, handling,
                 samples_produced, ui, calls, ghostVars, outputVars>>

\* Defect: the wait for the next event has no timeout.
TestShutdownOnEventOnly ==
  /\ producer = "loop"
  /\ producer' = IF shutdown_ THEN "ended" ELSE "acquire"
  /\ UNCHANGED <<streams_, queueVars, shutdown_, vm, handling, samples_produced,
                 ui, calls, ghostVars, outputVars>>

\* while (!shutdown_): looked at after each event and after each second of
\* waiting for one.
TestShutdown ==
  /\ producer = "loop" \/ (producer = "acquire" /\ sema_ = 0 /\ shutdown_)
  /\ producer' = IF shutdown_ THEN "ended" ELSE "acquire"
  /\ UNCHANGED <<streams_, queueVars, shutdown_, vm, handling, samples_produced,
                 ui, calls, ghostVars, outputVars>>

AfterPop(event) ==
  CASE event.event = "Step" -> "produce"
    [] IsUpdate(event) -> "take_params"
    [] OTHER -> "handle"

\* Defect: the newest event first, as from a stack.
PopEventNewest ==
  /\ producer = "pop"
  /\ events_ # <<>>
  /\ handling' = Last(events_)
  /\ events_' = Front(events_)
  /\ producer' = AfterPop(handling')
  /\ UNCHANGED <<streams_, param_updates_, sema_, shutdown_, vm, samples_produced,
                 ui, calls, ghostVars, outputVars>>

\* events_.empty() is not reached here (SemaphoreCountsEvents).
PopEvent ==
  /\ producer = "pop"
  /\ events_ # <<>>
  /\ handling' = Head(events_)
  /\ events_' = Tail(events_)
  /\ producer' = AfterPop(handling')
  /\ UNCHANGED <<streams_, param_updates_, sema_, shutdown_, vm, samples_produced,
                 ui, calls, ghostVars, outputVars>>

HandlerDone ==
  /\ producer' = "loop"
  /\ handling' = NoEvent

Handle ==
  /\ producer = "handle"
  /\ streams_' = [streams_ EXCEPT ![handling.channel] = Handled(handling.event, @)]
  /\ HandlerDone
  /\ UNCHANGED <<queueVars, shutdown_, vm, samples_produced, ui, calls, ghostVars, outputVars>>

\* front() of the parameters; after a lost push there may be none, and what is
\* read then is anything.
TakeParams ==
  /\ producer = "take_params"
  /\ \E params \in IF param_updates_ = <<>> THEN ParamChoices
                    ELSE {Head(param_updates_).params} :
       streams_' = [streams_ EXCEPT ![params.channel] = reload(@, params)]
  /\ producer' = "pop_params"
  /\ UNCHANGED <<queueVars, shutdown_, vm, handling, samples_produced, ui, calls, ghostVars,
                 outputVars>>

PopParams ==
  LET popped == IF param_updates_ = <<>> THEN <<>> ELSE Tail(param_updates_)
      overlap == vm.at = "push_params"
  IN /\ producer = "pop_params"
     /\ param_updates_' \in {popped} \cup IF overlap THEN {param_updates_} ELSE {}
     /\ raced' = (raced \/ overlap)
     /\ HandlerDone
     /\ UNCHANGED <<streams_, events_, sema_, shutdown_, vm, samples_produced, ui,
                    calls, expected, promised, bypassed, produced, outputVars>>

\* Defect: one sample more than a frame holds.
EnoughOneMore == samples_produced > SamplesPerStep

Enough == samples_produced >= SamplesPerStep

\* The buffer between the producer and the sound device is the queue that
\* CircularBuffer implements.
Output == INSTANCE DropOldestQueue WITH
  Capacity <- OutputCapacity, Values <- Nat, NoValue <- 0, queue <- output_buffer_,
  result <- IF heard = <<>> THEN 0 ELSE Last(heard)

\* One round of produce_samples(); the streams' lock is free in between.
ProduceSample ==
  /\ producer = "produce"
  /\ ~Enough
  /\ samples_produced' = samples_produced + 1
  /\ produced' = produced + 1
  /\ UNCHANGED <<streams_, queueVars, shutdown_, vm, producer, handling, ui, calls,
                 expected, promised, bypassed, raced, heard>>
  /\ \/ Output!Enqueue(produced') /\ UNCHANGED overrun
     \/ Output!Overwrite(produced') /\ overrun' = overrun + 1

ProduceDone ==
  /\ producer = "produce"
  /\ Enough
  /\ samples_produced' = 0
  /\ HandlerDone
  /\ UNCHANGED <<streams_, queueVars, shutdown_, vm, ui, calls, ghostVars, outputVars>>

-----------------------------------------------------------------------------
(* readData(), in the thread of the sound device, which does not call it any  *)
(* more once stop() has closed the generator.  It pops under output_lock_, so *)
(* that no sample is pushed meanwhile.                                        *)

\* Copies while more than the two bytes of a sample are left to fill.
Fitting(max_len) == (max_len - 1) \div 2

Taken(max_len) == Min({Len(output_buffer_), Fitting(max_len)})

Given(taken, popped) ==
  /\ ui = "running"
  /\ heard' = heard \o SubSeq(output_buffer_, 1, taken)
  /\ output_buffer_' = SubSeq(output_buffer_, popped + 1, Len(output_buffer_))
  /\ UNCHANGED <<streams_, queueVars, shutdown_, vm, producerVars, ui, calls,
                 ghostVars, overrun>>

\* Defect: a sample is popped before it is seen that it does not fit.
readDataPopsFirst(max_len) ==
  Given(Taken(max_len), Min({Len(output_buffer_), Fitting(max_len) + 1}))

readData(max_len) == Given(Taken(max_len), Taken(max_len))

-----------------------------------------------------------------------------
(* Generator::stop(), in the UI thread. *)

stop ==
  /\ ui = "running"
  /\ shutdown_' = TRUE
  /\ ui' = "joining"
  /\ UNCHANGED <<streams_, queueVars, vm, producerVars, calls, ghostVars, outputVars>>

Join ==
  /\ ui = "joining"
  /\ producer = "ended"
  /\ ui' = "joined"
  /\ UNCHANGED <<streams_, queueVars, shutdown_, vm, producerVars, calls, ghostVars, outputVars>>

-----------------------------------------------------------------------------
NewCall ==
  \/ \E channel \in Channels :
       \/ \E event \in ChannelEvents : Decrement(event, channel)
       \/ \E enabled \in BOOLEAN : SetEnabled(channel, enabled)
  \/ \E params \in ParamChoices, event \in UpdateEvents : update_parameters(event, params)
  \/ step

CallGoesOn == StepRelease \/ PushParams \/ SetEnabledClears

ProducerStep ==
  \/ Acquire \/ TestShutdown \/ PopEvent
  \/ Handle \/ TakeParams \/ PopParams
  \/ ProduceSample \/ ProduceDone

Next ==
  \/ NewCall \/ CallGoesOn
  \/ ProducerStep
  \/ \E max_len \in RequestLengths : readData(max_len)
  \/ stop \/ Join

Spec == Init /\ [][Next]_vars

\* Threads are scheduled; whether the machine calls and when the application
\* is closed is left open.
FairSpec ==
  /\ Spec
  /\ WF_vars(CallGoesOn)
  /\ WF_vars(ProducerStep)
  /\ WF_vars(Join)

-----------------------------------------------------------------------------
(* Safety. *)

\* The semaphore and the queue agree although step() releases after it gave the
\* lock back: the producer never acquires without finding its event, and no
\* event is left that nobody will wake the producer for.
SemaphoreCountsEvents ==
  Len(events_) = sema_ + (IF producer = "pop" THEN 1 ELSE 0)
                       + (IF vm.at \in {"release", "push_params"} THEN 1 ELSE 0)

\* The two queues stay in step: the parameters the producer is about to take are
\* those the update it handles was called with, so that no update is applied with
\* another's parameters (unless a pop, under its other lock, ran into a push).
ParamsMatchEvents ==
  producer = "take_params" /\ ~raced =>
    param_updates_ # <<>> /\ Head(param_updates_).call = handling.call

Drained == events_ = <<>> /\ handling = NoEvent /\ vm = Idle

\* Once everything queued is handled, each stream is what it would be had every
\* call taken effect when it was made, whatever the interleaving, for the
\* channels whose calls all went through the queue.
DrainedInOrder ==
  Drained /\ ~raced => \A c \in Channels \ bypassed : streams_[c] = expected[c]

\* "the queue ensures that the right number of samples are produced before
\* actions like changing the frequency [...] are taken" (audio_output.hpp:153):
\* when an action is handled, exactly the frames stepped before it are out.
RightNumberOfSamples ==
  producer \in {"handle", "take_params"} => produced = handling.due

\* However pushes and requests interleave, the device is given the samples once
\* and in the order of their production, and none is missing but those that
\* were overwritten while the buffer was full.
HeardInOrder ==
  LET known == heard \o output_buffer_
  IN /\ Len(known) + overrun = produced
     /\ \A i, j \in DOMAIN known : i < j => known[i] < known[j]

\* "All actions on a stream are managed through this queue to make sure they
\* happen in the proper order" (audio_output.hpp:152), for a channel that is
\* disabled last: it ends disabled.
DisabledStaysDisabled ==
  Drained => \A c \in Channels : streams_[c].enabled => expected[c].enabled

-----------------------------------------------------------------------------
(* Liveness. *)

\* Whatever is queued gets handled, unless the generator is stopped.
EventsDrain == events_ # <<>> ~> events_ = <<>> \/ shutdown_

\* stop() joins: the producer sees shutdown_ even when no event ever comes.
StopJoins == ui = "joining" ~> ui = "joined"
=============================================================================
