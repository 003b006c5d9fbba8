------------------------ MODULE AudioGeneratorProofs ------------------------
(***************************************************************************)
(* Proofs about AudioGenerator, for any channels, parameters, samples per  *)
(* step and number of calls: semaphore and queue agree, samples come in    *)
(* the right number and, until a push and a pop of the parameters overlap, *)
(* every update gets its own parameters, and what was queued acts on the   *)
(* streams as if it had acted when it was called.                          *)
(***************************************************************************)
EXTENDS AudioGenerator, TLAPS

-----------------------------------------------------------------------------
(***************************************************************************)
(* Sequences of whatever elements                                          *)
(***************************************************************************)

IsSequence(s) == s \in Seq({s[i] : i \in DOMAIN s})

LEMMA IsOne ==
  ASSUME NEW S, NEW s \in Seq(S)
  PROVE  IsSequence(s)
<1>1. Len(s) \in Nat /\ DOMAIN s = 1 .. Len(s) /\ s = [i \in 1 .. Len(s) |-> s[i]]
  OBVIOUS
<1>2. s \in [1 .. Len(s) -> {s[i] : i \in DOMAIN s}]
  BY <1>1
<1>3. QED
  BY <1>1, <1>2 DEF IsSequence

\* Appending keeps the elements there are and adds one.
LEMMA Appended ==
  ASSUME NEW s, IsSequence(s), NEW e
  PROVE  /\ IsSequence(Append(s, e)) /\ Len(s) \in Nat
         /\ Len(Append(s, e)) = Len(s) + 1
         /\ \A i \in 1 .. Len(s) : Append(s, e)[i] = s[i]
         /\ Append(s, e)[Len(s) + 1] = e
<1> DEFINE S == {s[i] : i \in DOMAIN s} \cup {e}
           t == Append(s, e)
<1>1. s \in Seq(S) /\ e \in S
  BY DEF IsSequence
<1>2. /\ t \in Seq(S) /\ Len(t) = Len(s) + 1 /\ Len(s) \in Nat
      /\ \A i \in 1 .. Len(s) : t[i] = s[i]
      /\ t[Len(s) + 1] = e
  BY <1>1
<1>3. IsSequence(t)
  BY <1>2, IsOne
<1>4. QED
  BY <1>2, <1>3

\* The tail has the elements but the first, one place further.
LEMMA Tailed ==
  ASSUME NEW s, IsSequence(s), s # <<>>
  PROVE  /\ IsSequence(Tail(s)) /\ Len(s) \in Nat /\ Len(s) >= 1
         /\ Len(Tail(s)) = Len(s) - 1
         /\ \A i \in 1 .. Len(s) - 1 : Tail(s)[i] = s[i + 1]
         /\ Head(s) = s[1]
<1> DEFINE S == {s[i] : i \in DOMAIN s}
           t == Tail(s)
<1>1. s \in Seq(S)
  BY DEF IsSequence
<1>2. /\ t \in Seq(S) /\ Len(t) = Len(s) - 1 /\ Len(s) \in Nat /\ Len(s) >= 1
      /\ \A i \in 1 .. Len(s) - 1 : t[i] = s[i + 1]
      /\ Head(s) = s[1]
  BY <1>1
<1>3. IsSequence(t)
  BY <1>2, IsOne
<1>4. QED
  BY <1>2, <1>3

LEMMA EmptySequence == IsSequence(<<>>) /\ Len(<<>>) = 0
BY DEF IsSequence

LEMMA SequenceLength ==
  ASSUME NEW s, IsSequence(s)
  PROVE  Len(s) \in Nat /\ DOMAIN s = 1 .. Len(s) /\ (s = <<>> <=> Len(s) = 0)
BY DEF IsSequence

-----------------------------------------------------------------------------
(***************************************************************************)
(* Types, and what the producer handles where                              *)
(***************************************************************************)

VmPlaces == {"idle", "release", "push_params", "clear_counter"}
ProducerPlaces ==
  {"acquire", "loop", "pop", "handle", "take_params", "pop_params", "produce", "ended"}

IsEvent(e) ==
  /\ e.event \in {"Step"} \cup ChannelEvents \cup UpdateEvents
  /\ e.event # "Step" => e.channel \in Channels
  /\ e.due \in Nat
  /\ e.call \in Nat \ {0}

EventsTyped ==
  IsSequence(events_) /\ \A i \in 1 .. Len(events_) : IsEvent(events_[i])

ParamsTyped ==
  /\ IsSequence(param_updates_)
  /\ \A i \in 1 .. Len(param_updates_) :
       param_updates_[i].params \in ParamChoices /\ param_updates_[i].call \in Nat

CountersTyped ==
  /\ sema_ \in Nat /\ calls \in Nat /\ promised \in Nat /\ produced \in Nat
  /\ samples_produced \in 0 .. SamplesPerStep

VmTyped ==
  /\ vm.at \in VmPlaces
  /\ vm.at = "push_params" => vm.params \in ParamChoices
  /\ vm.at = "clear_counter" => vm.channel \in Channels

HandlingFits ==
  /\ producer \in ProducerPlaces
  /\ producer = "produce" => handling.event = "Step"
  /\ producer = "handle" => handling.event \in ChannelEvents
  /\ producer \in {"take_params", "pop_params"} => IsUpdate(handling)
  /\ producer \in {"produce", "handle", "take_params", "pop_params"} => IsEvent(handling)
  /\ producer \in {"acquire", "loop", "pop", "ended"} => handling = NoEvent
  /\ producer # "produce" => samples_produced = 0

StreamsTyped ==
  /\ streams_ = [c \in Channels |-> streams_[c]]
  /\ expected = [c \in Channels |-> expected[c]]

TypeInv ==
  /\ EventsTyped /\ ParamsTyped /\ CountersTyped
  /\ VmTyped /\ HandlingFits /\ StreamsTyped

LEMMA TypeInit == Init => TypeInv
<1> SUFFICES ASSUME Init
             PROVE  TypeInv
  OBVIOUS
<1>1. EventsTyped /\ ParamsTyped
  BY EmptySequence DEF Init, EventsTyped, ParamsTyped
<1>2. CountersTyped
  BY SamplesAssumption DEF Init, CountersTyped
<1>3. VmTyped /\ HandlingFits
  BY DEF Init, VmTyped, HandlingFits, VmPlaces, ProducerPlaces, Idle
<1>4. StreamsTyped
  BY DEF Init, StreamsTyped
<1>5. QED
  BY <1>1, <1>2, <1>3, <1>4 DEF TypeInv

\* Which actions change what.
Moves ==
  /\ NewCall \/ PopEvent \/ UNCHANGED events_
  /\ PushParams \/ PopParams \/ UNCHANGED <<param_updates_, raced>>
  /\ NewCall \/ CallGoesOn \/ UNCHANGED vm
  /\ ProducerStep \/ UNCHANGED producerVars
  /\ NewCall \/ SetEnabledClears \/ Handle \/ TakeParams \/ UNCHANGED streams_
  /\ NewCall \/ UNCHANGED <<calls, expected, promised, bypassed>>
  /\ ProduceSample \/ UNCHANGED produced
  /\ \/ ProduceSample
     \/ \E max_len \in RequestLengths : readData(max_len)
     \/ UNCHANGED outputVars

LEMMA NextMoves == [Next]_vars => Moves
<1> SUFFICES ASSUME [Next]_vars
             PROVE  Moves
  OBVIOUS
<1> USE DEF Moves, queueVars, producerVars, ghostVars, outputVars
<1>1. CASE NewCall
  BY <1>1 DEF NewCall, Decrement, SetEnabled, update_parameters, step
<1>2. CASE StepRelease
  BY <1>2 DEF StepRelease, CallGoesOn
<1>3. CASE PushParams
  BY <1>3 DEF PushParams, CallGoesOn
<1>4. CASE SetEnabledClears
  BY <1>4 DEF SetEnabledClears, CallGoesOn
<1>5. CASE Acquire \/ TestShutdown \/ PopEvent
  BY <1>5 DEF Acquire, TestShutdown, PopEvent, ProducerStep
<1>6. CASE Handle \/ TakeParams
  BY <1>6 DEF Handle, TakeParams, ProducerStep
<1>7. CASE PopParams
  BY <1>7 DEF PopParams, ProducerStep
<1>8. CASE ProduceSample \/ ProduceDone
  BY <1>8 DEF ProduceSample, ProduceDone, ProducerStep
<1>9. CASE \E max_len \in RequestLengths : readData(max_len)
  BY <1>9 DEF readData, Given
<1>10. CASE stop \/ Join
  BY <1>10 DEF stop, Join
<1>11. CASE UNCHANGED vars
  BY <1>11 DEF vars
<1>12. QED
  BY <1>1, <1>2, <1>3, <1>4, <1>5, <1>6, <1>7, <1>8, <1>9, <1>10, <1>11
     DEF Next, CallGoesOn, ProducerStep

\* A call appends an event or none.
Record(event, channel, before, after) ==
  [event |-> event, channel |-> channel, call |-> calls + 1,
   due |-> promised, before |-> before, after |-> after]

Grown(e) ==
  /\ IsSequence(events_') /\ Len(events_) \in Nat /\ Len(events_') = Len(events_) + 1
  /\ \A i \in 1 .. Len(events_) : events_'[i] = events_[i]
  /\ events_'[Len(events_) + 1] = e

LEMMA EventQueued ==
  ASSUME TypeInv, NEW event, NEW channel, NEW before, NEW after,
         Queued(event, channel, before, after)
  PROVE  Grown(Record(event, channel, before, after))
BY Appended DEF TypeInv, EventsTyped, Queued, Record, Grown

\* The producer takes the first event.
Popped ==
  /\ IsSequence(events_') /\ Len(events_) \in Nat /\ Len(events_) >= 1
  /\ Len(events_') = Len(events_) - 1
  /\ \A i \in 1 .. Len(events_) - 1 : events_'[i] = events_[i + 1]
  /\ handling' = events_[1]

LEMMA EventPopped == TypeInv /\ PopEvent => Popped
BY Tailed DEF TypeInv, EventsTyped, PopEvent, Popped

\* The four kinds of calls, by the event they queue.
LEMMA Calls ==
  ASSUME TypeInv, NewCall
  PROVE  \/ \E channel \in Channels, event \in ChannelEvents :
              /\ Decrement(event, channel)
              /\ Grown(Record(event, channel, expected[channel],
                              Handled(event, expected[channel])))
         \/ \E params \in ParamChoices, event \in UpdateEvents :
              /\ update_parameters(event, params)
              /\ params.channel \in Channels
              /\ Grown(Record(event, params.channel, expected[params.channel],
                              reload(expected[params.channel], params)))
         \/ step /\ Grown(Record("Step", "Square_Pulse_1", NoStream, NoStream))
         \/ \E channel \in Channels, enabled \in BOOLEAN :
              SetEnabled(channel, enabled) /\ UNCHANGED events_
<1>1. ASSUME NEW channel \in Channels, NEW event \in ChannelEvents, Decrement(event, channel)
      PROVE  Grown(Record(event, channel, expected[channel], Handled(event, expected[channel])))
  BY <1>1, EventQueued DEF Decrement
<1>2. ASSUME NEW params \in ParamChoices, NEW event \in UpdateEvents,
             update_parameters(event, params)
      PROVE  /\ params.channel \in Channels
             /\ Grown(Record(event, params.channel, expected[params.channel],
                             reload(expected[params.channel], params)))
  BY <1>2, ParamsAssumption, EventQueued DEF update_parameters
<1>3. ASSUME step
      PROVE  Grown(Record("Step", "Square_Pulse_1", NoStream, NoStream))
  BY <1>3, EventQueued DEF step
<1>4. ASSUME NEW channel \in Channels, NEW enabled \in BOOLEAN, SetEnabled(channel, enabled)
      PROVE  UNCHANGED events_
  BY <1>4 DEF SetEnabled, queueVars
<1>5. QED
  BY <1>1, <1>2, <1>3, <1>4 DEF NewCall

\* What a call appends is an event.
LEMMA GrownTyped ==
  ASSUME TypeInv, NEW e, IsEvent(e), Grown(e)
  PROVE  EventsTyped'
BY DEF TypeInv, EventsTyped, Grown

LEMMA EventsStep == TypeInv /\ [Next]_vars => EventsTyped'
<1> SUFFICES ASSUME TypeInv, [Next]_vars
             PROVE  EventsTyped'
  OBVIOUS
<1>1. calls \in Nat /\ promised \in Nat
  BY DEF TypeInv, CountersTyped
<1>2. \A event \in ChannelEvents \cup UpdateEvents, channel \in Channels : \A before, after :
        IsEvent(Record(event, channel, before, after))
  BY <1>1 DEF IsEvent, Record, ChannelEvents, UpdateEvents
<1>3. IsEvent(Record("Step", "Square_Pulse_1", NoStream, NoStream))
  BY <1>1 DEF IsEvent, Record
<1>4. CASE NewCall
  BY <1>2, <1>3, <1>4, Calls, GrownTyped DEF TypeInv, EventsTyped
<1>5. CASE PopEvent
  BY <1>5, EventPopped DEF TypeInv, EventsTyped, Popped
<1>6. CASE UNCHANGED events_
  BY <1>6 DEF TypeInv, EventsTyped
<1>7. QED
  BY <1>4, <1>5, <1>6, NextMoves DEF Moves

LEMMA ParamsStep == TypeInv /\ [Next]_vars => ParamsTyped'
<1> SUFFICES ASSUME TypeInv, [Next]_vars
             PROVE  ParamsTyped'
  OBVIOUS
<1>1. ParamsTyped /\ IsSequence(param_updates_)
  BY DEF TypeInv, ParamsTyped
<1>2. CASE PushParams
  <2> DEFINE pushed == Append(param_updates_, [params |-> vm.params, call |-> calls])
  <2>1. vm.params \in ParamChoices /\ calls \in Nat
    BY <1>2 DEF PushParams, TypeInv, VmTyped, CountersTyped
  <2>2. /\ IsSequence(pushed) /\ Len(param_updates_) \in Nat
        /\ Len(pushed) = Len(param_updates_) + 1
        /\ \A i \in 1 .. Len(param_updates_) : pushed[i] = param_updates_[i]
        /\ pushed[Len(param_updates_) + 1] = [params |-> vm.params, call |-> calls]
    BY <1>1, Appended
  <2>3. param_updates_' = pushed \/ param_updates_' = param_updates_
    BY <1>2 DEF PushParams
  <2> HIDE DEF pushed
  <2>4. QED
    BY <1>1, <2>1, <2>2, <2>3 DEF ParamsTyped
<1>3. CASE PopParams
  <2>1. CASE param_updates_ = <<>>
    BY <1>1, <1>3, <2>1 DEF PopParams, ParamsTyped
  <2>2. CASE param_updates_ # <<>>
    <3> DEFINE popped == Tail(param_updates_)
    <3>1. param_updates_' = popped \/ UNCHANGED param_updates_
      BY <1>3, <2>2 DEF PopParams
    <3>2. /\ IsSequence(popped) /\ Len(param_updates_) \in Nat
          /\ Len(popped) = Len(param_updates_) - 1
          /\ \A i \in 1 .. Len(param_updates_) - 1 : popped[i] = param_updates_[i + 1]
      BY <1>1, <2>2, Tailed
    <3> HIDE DEF popped
    <3>3. QED
      BY <1>1, <3>1, <3>2 DEF ParamsTyped
  <2>3. QED
    BY <2>1, <2>2
<1>4. CASE UNCHANGED param_updates_
  BY <1>1, <1>4 DEF ParamsTyped
<1>5. QED
  BY <1>2, <1>3, <1>4, NextMoves DEF Moves

\* What every call does to the counters and to the machine's thread.
CallEffect ==
  /\ vm = Idle /\ vm.at = "idle"
  /\ calls' = calls + 1
  /\ promised' \in {promised, promised + SamplesPerStep}
  /\ sema_' \in {sema_, sema_ + 1}
  /\ UNCHANGED <<param_updates_, producer, handling, samples_produced, raced, produced,
                 output_buffer_, heard, overrun>>
  /\ VmTyped'

LEMMA CallMade == NewCall => CallEffect
<1> USE DEF CallEffect, Call, Idle, VmTyped, VmPlaces, queueVars, producerVars, outputVars
<1>1. ASSUME NEW channel \in Channels, NEW event \in ChannelEvents, Decrement(event, channel)
      PROVE  CallEffect
  BY <1>1 DEF Decrement
<1>2. ASSUME NEW channel \in Channels, NEW enabled \in BOOLEAN, SetEnabled(channel, enabled)
      PROVE  CallEffect
  BY <1>2 DEF SetEnabled
<1>3. ASSUME NEW params \in ParamChoices, NEW event \in UpdateEvents,
             update_parameters(event, params)
      PROVE  CallEffect
  BY <1>3, ParamsAssumption DEF update_parameters
<1>4. CASE step
  BY <1>4 DEF step
<1>5. QED
  BY <1>1, <1>2, <1>3, <1>4 DEF NewCall

\* What the call's second half does to it.
LEMMA CallEnded ==
  CallGoesOn => /\ vm.at # "idle" /\ vm' = Idle /\ vm'.at = "idle"
                /\ UNCHANGED <<events_, calls, promised, produced, producer, handling,
                               samples_produced, expected, bypassed, heard, output_buffer_,
                               overrun>>
<1> USE DEF Idle, queueVars, producerVars, ghostVars, outputVars
<1>1. CASE StepRelease
  BY <1>1 DEF StepRelease
<1>2. CASE PushParams
  BY <1>2 DEF PushParams
<1>3. CASE SetEnabledClears
  BY <1>3 DEF SetEnabledClears
<1>4. QED
  BY <1>1, <1>2, <1>3 DEF CallGoesOn

LEMMA CountersStep == TypeInv /\ [Next]_vars => CountersTyped'
<1> SUFFICES ASSUME TypeInv, [Next]_vars
             PROVE  CountersTyped'
  OBVIOUS
<1> USE SamplesAssumption DEF CountersTyped
<1>1. CountersTyped
  BY DEF TypeInv
<1>2. CASE NewCall
  BY <1>1, <1>2, CallMade DEF CallEffect
<1>3. CASE CallGoesOn
  <2>1. sema_' \in {sema_, sema_ + 1}
    BY <1>3 DEF CallGoesOn, StepRelease, PushParams, SetEnabledClears, queueVars
  <2>2. QED
    BY <1>1, <1>3, <2>1, CallEnded
<1>4. CASE Acquire
  BY <1>1, <1>4 DEF Acquire, ghostVars
<1>5. CASE TestShutdown \/ PopEvent
  BY <1>1, <1>5 DEF TestShutdown, PopEvent, queueVars, ghostVars
<1>6. CASE Handle \/ TakeParams \/ PopParams
  BY <1>1, <1>6 DEF Handle, TakeParams, PopParams, queueVars, ghostVars
<1>7. CASE ProduceSample
  BY <1>1, <1>7 DEF ProduceSample, Enough, queueVars
<1>8. CASE ProduceDone
  BY <1>1, <1>8 DEF ProduceDone, queueVars, ghostVars
<1>9. CASE \E max_len \in RequestLengths : readData(max_len)
  BY <1>1, <1>9 DEF readData, Given, queueVars, producerVars, ghostVars
<1>10. CASE stop \/ Join
  BY <1>1, <1>10 DEF stop, Join, queueVars, producerVars, ghostVars
<1>11. CASE UNCHANGED vars
  BY <1>1, <1>11 DEF vars
<1>12. QED
  BY <1>2, <1>3, <1>4, <1>5, <1>6, <1>7, <1>8, <1>9, <1>10, <1>11 DEF Next, ProducerStep

LEMMA VmStep == TypeInv /\ [Next]_vars => VmTyped'
<1> SUFFICES ASSUME TypeInv, [Next]_vars
             PROVE  VmTyped'
  OBVIOUS
<1>1. CASE NewCall
  BY <1>1, CallMade DEF CallEffect
<1>2. CASE CallGoesOn
  BY <1>2, CallEnded DEF VmTyped, VmPlaces
<1>3. CASE UNCHANGED vm
  BY <1>3 DEF TypeInv, VmTyped
<1>4. QED
  BY <1>1, <1>2, <1>3, NextMoves DEF Moves

LEMMA HandlingStep == TypeInv /\ [Next]_vars => HandlingFits'
<1> SUFFICES ASSUME TypeInv, [Next]_vars
             PROVE  HandlingFits'
  OBVIOUS
<1> USE DEF HandlingFits, ProducerPlaces
<1>1. HandlingFits
  BY DEF TypeInv
<1>2. CASE Acquire \/ TestShutdown
  BY <1>1, <1>2 DEF Acquire, TestShutdown
<1>3. CASE PopEvent
  <2>1. Popped /\ EventsTyped
    BY <1>3, EventPopped DEF TypeInv
  <2>2. IsEvent(events_[1]) /\ handling' = events_[1]
    BY <2>1 DEF EventsTyped, Popped
  <2>3. IsEvent(handling')
    BY <2>2
  <2>4. /\ producer' = AfterPop(handling')
        /\ producer = "pop" /\ samples_produced' = samples_produced
    BY <1>3 DEF PopEvent
  <2>5. QED
    BY <1>1, <2>3, <2>4 DEF AfterPop, IsEvent, IsUpdate, ChannelEvents, UpdateEvents
<1>4. CASE Handle \/ PopParams
  BY <1>1, <1>4 DEF Handle, PopParams, HandlerDone
<1>5. CASE TakeParams
  BY <1>1, <1>5 DEF TakeParams
<1>6. CASE ProduceSample \/ ProduceDone
  BY <1>1, <1>6 DEF ProduceSample, ProduceDone, HandlerDone
<1>7. CASE UNCHANGED producerVars
  BY <1>1, <1>7 DEF producerVars
<1>8. QED
  BY <1>2, <1>3, <1>4, <1>5, <1>6, <1>7, NextMoves DEF Moves, ProducerStep

LEMMA StreamsTypedStep == TypeInv /\ [Next]_vars => StreamsTyped'
<1> SUFFICES ASSUME TypeInv, [Next]_vars
             PROVE  StreamsTyped'
  OBVIOUS
<1> USE DEF StreamsTyped
<1>1. StreamsTyped
  BY DEF TypeInv
<1>2. CASE NewCall
  <2>1. ASSUME NEW channel \in Channels, NEW event \in ChannelEvents, Decrement(event, channel)
        PROVE  StreamsTyped'
    BY <1>1, <2>1 DEF Decrement
  <2>2. ASSUME NEW channel \in Channels, NEW enabled \in BOOLEAN, SetEnabled(channel, enabled)
        PROVE  StreamsTyped'
    BY <1>1, <2>2 DEF SetEnabled
  <2>3. ASSUME NEW params \in ParamChoices, NEW event \in UpdateEvents,
               update_parameters(event, params)
        PROVE  StreamsTyped'
    BY <1>1, <2>3 DEF update_parameters
  <2>4. CASE step
    BY <1>1, <2>4 DEF step
  <2>5. QED
    BY <1>2, <2>1, <2>2, <2>3, <2>4 DEF NewCall
<1>3. CASE SetEnabledClears
  BY <1>1, <1>3 DEF SetEnabledClears, ghostVars
<1>4. CASE Handle \/ TakeParams
  BY <1>1, <1>4 DEF Handle, TakeParams, ghostVars
<1>5. CASE UNCHANGED <<streams_, expected>>
  BY <1>1, <1>5
<1>6. QED
  BY <1>2, <1>3, <1>4, <1>5, NextMoves DEF Moves

LEMMA TypeStep == TypeInv /\ [Next]_vars => TypeInv'
BY EventsStep, ParamsStep, CountersStep, VmStep, HandlingStep, StreamsTypedStep DEF TypeInv

LEMMA Typed == Spec => []TypeInv
BY TypeInit, TypeStep, PTL DEF Spec

-----------------------------------------------------------------------------
(***************************************************************************)
(* The semaphore                                                           *)
(***************************************************************************)

\* The event the producer has acquired and not popped, and the one queued and not
\* released.
Popping == IF producer = "pop" THEN 1 ELSE 0
Announced == IF vm.at \in {"release", "push_params"} THEN 1 ELSE 0

\* A step changes the two sides alike.
Counted(queued, released, popping, announced) ==
  /\ Len(events_') = Len(events_) + queued
  /\ sema_' = sema_ + released
  /\ Popping' = Popping + popping
  /\ Announced' = Announced + announced

LEMMA CountedStep ==
  ASSUME TypeInv, SemaphoreCountsEvents,
         NEW queued \in Int, NEW released \in Int, NEW popping \in Int, NEW announced \in Int,
         Counted(queued, released, popping, announced),
         queued = released + popping + announced
  PROVE  SemaphoreCountsEvents'
<1>1. Len(events_) \in Nat /\ sema_ \in Nat /\ Popping \in Nat /\ Announced \in Nat
  BY SequenceLength DEF TypeInv, EventsTyped, CountersTyped, Popping, Announced
<1>2. Len(events_) = sema_ + Popping + Announced
  BY DEF SemaphoreCountsEvents, Popping, Announced
<1>3. Len(events_') = sema_' + Popping' + Announced'
  BY <1>1, <1>2 DEF Counted
<1>4. QED
  BY <1>3 DEF SemaphoreCountsEvents, Popping, Announced

LEMMA SemaphoreStep == TypeInv /\ SemaphoreCountsEvents /\ [Next]_vars => SemaphoreCountsEvents'
<1> SUFFICES ASSUME TypeInv, SemaphoreCountsEvents, [Next]_vars
             PROVE  SemaphoreCountsEvents'
  OBVIOUS
<1>1. Len(events_) \in Nat /\ sema_ \in Nat /\ Popping \in Nat /\ Announced \in Nat
  BY SequenceLength DEF TypeInv, EventsTyped, CountersTyped, Popping, Announced
<1>2. CASE UNCHANGED <<events_, sema_, producer, vm>>
  BY <1>2 DEF SemaphoreCountsEvents
<1>3. CASE NewCall
  <2>1. vm.at = "idle" /\ Announced = 0 /\ Popping' = Popping
    BY <1>3, CallMade DEF CallEffect, Announced, Popping
  <2>2. ASSUME NEW channel \in Channels, NEW event \in ChannelEvents, NEW e,
               Decrement(event, channel), Grown(e)
        PROVE  SemaphoreCountsEvents'
    <3>1. sema_' = sema_ + 1 /\ Announced' = 0
      BY <2>1, <2>2 DEF Decrement, Announced
    <3>2. Counted(1, 1, 0, 0)
      BY <1>1, <2>1, <2>2, <3>1 DEF Counted, Grown
    <3>3. QED
      BY <3>2, CountedStep
  <2>3. ASSUME NEW params \in ParamChoices, NEW event \in UpdateEvents, NEW e,
               update_parameters(event, params), Grown(e)
        PROVE  SemaphoreCountsEvents'
    <3>1. sema_' = sema_ /\ Announced' = 1
      BY <2>3 DEF update_parameters, Announced
    <3>2. Counted(1, 0, 0, 1)
      BY <1>1, <2>1, <2>3, <3>1 DEF Counted, Grown
    <3>3. QED
      BY <3>2, CountedStep
  <2>4. ASSUME NEW e, step, Grown(e)
        PROVE  SemaphoreCountsEvents'
    <3>1. sema_' = sema_ /\ Announced' = 1
      BY <2>4 DEF step, Announced, Idle
    <3>2. Counted(1, 0, 0, 1)
      BY <1>1, <2>1, <2>4, <3>1 DEF Counted, Grown
    <3>3. QED
      BY <3>2, CountedStep
  <2>5. ASSUME NEW channel \in Channels, NEW enabled \in BOOLEAN, SetEnabled(channel, enabled)
        PROVE  SemaphoreCountsEvents'
    <3>1. UNCHANGED <<sema_, events_>> /\ Announced' = 0
      BY <2>5 DEF SetEnabled, queueVars, Idle, Announced
    <3>2. Counted(0, 0, 0, 0)
      BY <1>1, <2>1, <3>1 DEF Counted
    <3>3. QED
      BY <3>2, CountedStep
  <2>6. QED
    BY <1>3, <2>2, <2>3, <2>4, <2>5, Calls
<1>4. CASE StepRelease \/ PushParams
  <2>1. Announced = 1 /\ sema_' = sema_ + 1
    BY <1>4 DEF StepRelease, PushParams, Announced
  <2>2. Announced' = 0 /\ UNCHANGED <<events_, producer>>
    BY <1>4, CallEnded DEF CallGoesOn, Announced
  <2>3. Counted(0, 1, 0, -1)
    BY <1>1, <2>1, <2>2 DEF Counted, Popping
  <2>4. QED
    BY <2>3, CountedStep
<1>5. CASE SetEnabledClears
  <2>1. Announced = 0 /\ sema_' = sema_
    BY <1>5 DEF SetEnabledClears, Announced, queueVars
  <2>2. Announced' = 0 /\ UNCHANGED <<events_, producer>>
    BY <1>5, CallEnded DEF CallGoesOn, Announced
  <2>3. Counted(0, 0, 0, 0)
    BY <1>1, <2>1, <2>2 DEF Counted, Popping
  <2>4. QED
    BY <2>3, CountedStep
<1>6. CASE PopEvent
  <2>1. Len(events_') = Len(events_) - 1 /\ Popping = 1 /\ UNCHANGED <<sema_, vm>>
    BY <1>6, EventPopped DEF PopEvent, Popped, Popping
  <2>2. Popping' = 0
    BY <1>6 DEF PopEvent, AfterPop, Popping
  <2>3. Counted(-1, 0, -1, 0)
    BY <1>1, <2>1, <2>2 DEF Counted, Announced
  <2>4. QED
    BY <2>3, CountedStep
<1>7. CASE Acquire
  <2>1. Counted(0, -1, 1, 0)
    BY <1>1, <1>7 DEF Counted, Acquire, Popping, Announced
  <2>2. QED
    BY <2>1, CountedStep
<1>8. CASE TestShutdown \/ Handle \/ TakeParams \/ PopParams \/ ProduceSample \/ ProduceDone
  <2>1. UNCHANGED <<events_, sema_, vm>> /\ Popping = 0 /\ Popping' = 0
    BY <1>8 DEF TestShutdown, Handle, TakeParams, PopParams, ProduceSample, ProduceDone,
                HandlerDone, Popping, queueVars
  <2>2. Counted(0, 0, 0, 0)
    BY <1>1, <2>1 DEF Counted, Announced
  <2>3. QED
    BY <2>2, CountedStep
<1>9. CASE \E max_len \in RequestLengths : readData(max_len)
  BY <1>2, <1>9 DEF readData, Given, queueVars, producerVars
<1>10. CASE stop \/ Join
  BY <1>2, <1>10 DEF stop, Join, queueVars, producerVars
<1>11. CASE UNCHANGED vars
  BY <1>2, <1>11 DEF vars
<1>12. QED
  BY <1>3, <1>4, <1>5, <1>6, <1>7, <1>8, <1>9, <1>10, <1>11 DEF Next, CallGoesOn, ProducerStep

\* For any channels, parameters and number of calls: the producer never acquires
\* without finding its event, and no event is left that nobody wakes it for.
THEOREM QueueCounted == Spec => []SemaphoreCountsEvents
<1>1. Init => SemaphoreCountsEvents
  BY EmptySequence DEF Init, SemaphoreCountsEvents, Idle
<1>2. QED
  BY <1>1, Typed, SemaphoreStep, PTL DEF Spec

-----------------------------------------------------------------------------
(***************************************************************************)
(* Samples                                                                 *)
(***************************************************************************)

\* The samples an event stands for.
SamplesOf(e) == IF e.event = "Step" THEN SamplesPerStep ELSE 0

\* What the i-th event leaves due is due to the next one, or to the next call.
DueAfter(i) == IF i < Len(events_) THEN events_[i + 1].due ELSE promised

PromiseInv ==
  /\ \A i \in 1 .. Len(events_) : DueAfter(i) = events_[i].due + SamplesOf(events_[i])
  /\ handling = NoEvent => DueAfter(0) = produced
  /\ handling # NoEvent => /\ produced = handling.due + samples_produced
                           /\ DueAfter(0) = handling.due + SamplesOf(handling)

\* Where the producer holds an event.
LEMMA Holding ==
  ASSUME TypeInv
  PROVE  /\ handling # NoEvent <=> producer \in {"produce", "handle", "take_params", "pop_params"}
         /\ handling # NoEvent => IsEvent(handling)
         /\ handling # NoEvent /\ producer # "produce" => SamplesOf(handling) = 0
<1>1. ASSUME NEW e, IsEvent(e)
      PROVE  e # NoEvent
  BY <1>1 DEF IsEvent, NoEvent, ChannelEvents, UpdateEvents
<1>2. QED
  BY <1>1 DEF TypeInv, HandlingFits, ProducerPlaces, IsUpdate, SamplesOf, ChannelEvents,
              UpdateEvents

LEMMA PromiseInit == Init => PromiseInv
BY EmptySequence DEF Init, PromiseInv, DueAfter

\* An event is queued with what is promised so far as its due.
LEMMA PromiseGrows ==
  ASSUME TypeInv, PromiseInv, NEW e, IsEvent(e), Grown(e), e.due = promised,
         promised' = promised + SamplesOf(e), UNCHANGED <<handling, produced, samples_produced>>
  PROVE  PromiseInv'
<1>1. \A i \in 0 .. Len(events_) : DueAfter(i)' = DueAfter(i)
  <2> SUFFICES ASSUME NEW i \in 0 .. Len(events_)
               PROVE  DueAfter(i)' = DueAfter(i)
    OBVIOUS
  <2>1. CASE i < Len(events_)
    BY <2>1 DEF DueAfter, Grown
  <2>2. CASE i = Len(events_)
    BY <2>2 DEF DueAfter, Grown
  <2>3. QED
    BY <2>1, <2>2 DEF Grown
<1>2. \A i \in {Len(events_) + 1} : DueAfter(i)' = promised'
  BY DEF DueAfter, Grown
<1>3. ASSUME NEW i \in 1 .. Len(events_')
      PROVE  DueAfter(i)' = events_'[i].due + SamplesOf(events_'[i])
  <2>1. CASE i = Len(events_) + 1
    <3>1. events_'[i] = e
      BY <2>1 DEF Grown
    <3>2. QED
      BY <1>2, <2>1, <3>1
  <2>2. CASE i \in 1 .. Len(events_)
    BY <1>1, <2>2 DEF Grown, PromiseInv
  <2>3. QED
    BY <2>1, <2>2 DEF Grown
<1>4. DueAfter(0)' = DueAfter(0)
  BY <1>1 DEF Grown
<1>5. QED
  BY <1>3, <1>4 DEF PromiseInv

LEMMA PromiseStep == TypeInv /\ TypeInv' /\ PromiseInv /\ [Next]_vars => PromiseInv'
<1> SUFFICES ASSUME TypeInv, TypeInv', PromiseInv, [Next]_vars
             PROVE  PromiseInv'
  OBVIOUS
<1>1. /\ promised \in Nat /\ produced \in Nat /\ samples_produced \in 0 .. SamplesPerStep
      /\ Len(events_) \in Nat /\ calls \in Nat
      /\ SamplesPerStep \in Nat
  BY SamplesAssumption, SequenceLength DEF TypeInv, CountersTyped, EventsTyped
<1>2. CASE NewCall
  <2>1. UNCHANGED <<handling, produced, samples_produced>>
    BY <1>2, CallMade DEF CallEffect
  <2>2. ASSUME NEW channel \in Channels, NEW event \in ChannelEvents, NEW before, NEW after,
               Decrement(event, channel), Grown(Record(event, channel, before, after))
        PROVE  PromiseInv'
    <3>1. promised' = promised
      BY <2>2 DEF Decrement
    <3>2. QED
      BY <1>1, <2>1, <2>2, <3>1, PromiseGrows DEF Record, IsEvent, SamplesOf, ChannelEvents
  <2>3. ASSUME NEW params \in ParamChoices, NEW event \in UpdateEvents, NEW before, NEW after,
               update_parameters(event, params), params.channel \in Channels,
               Grown(Record(event, params.channel, before, after))
        PROVE  PromiseInv'
    <3>1. promised' = promised
      BY <2>3 DEF update_parameters
    <3>2. QED
      BY <1>1, <2>1, <2>3, <3>1, PromiseGrows DEF Record, IsEvent, SamplesOf, UpdateEvents
  <2>4. ASSUME step, Grown(Record("Step", "Square_Pulse_1", NoStream, NoStream))
        PROVE  PromiseInv'
    <3>1. promised' = promised + SamplesPerStep
      BY <2>4 DEF step
    <3>2. QED
      BY <1>1, <2>1, <2>4, <3>1, PromiseGrows DEF Record, IsEvent, SamplesOf
  <2>5. ASSUME NEW channel \in Channels, NEW enabled \in BOOLEAN,
               SetEnabled(channel, enabled), UNCHANGED events_
        PROVE  PromiseInv'
    <3>1. UNCHANGED promised
      BY <2>5 DEF SetEnabled
    <3>2. QED
      BY <2>1, <2>5, <3>1 DEF PromiseInv, DueAfter
  <2>6. QED
    BY <1>2, <2>2, <2>3, <2>4, <2>5, Calls
<1>3. CASE PopEvent
  <2>1. /\ Popped /\ UNCHANGED <<promised, produced, samples_produced>>
        /\ producer = "pop"
    BY <1>3, EventPopped DEF PopEvent, ghostVars
  <2>2. handling = NoEvent /\ samples_produced = 0
    BY <2>1 DEF TypeInv, HandlingFits
  <2>3. handling' = events_[1] /\ handling' # NoEvent
    <3>1. IsEvent(events_[1])
      BY <2>1 DEF Popped, TypeInv, EventsTyped
    <3>2. QED
      BY <2>1, <3>1 DEF Popped, IsEvent, NoEvent, ChannelEvents, UpdateEvents
  <2>4. \A i \in 0 .. Len(events_) - 1 : DueAfter(i)' = DueAfter(i + 1)
    BY <1>1, <2>1 DEF Popped, DueAfter
  <2>5. \A i \in 1 .. Len(events_') : DueAfter(i)' = events_'[i].due + SamplesOf(events_'[i])
    BY <1>1, <2>1, <2>4 DEF Popped, PromiseInv
  <2>6. produced = events_[1].due
    BY <2>1, <2>2 DEF Popped, PromiseInv, DueAfter
  <2>7. events_[1].due \in Nat
    BY <2>1 DEF Popped, TypeInv, EventsTyped, IsEvent
  <2>8. DueAfter(0)' = events_[1].due + SamplesOf(events_[1])
    BY <1>1, <2>1, <2>4 DEF Popped, PromiseInv
  <2>9. QED
    BY <2>1, <2>2, <2>3, <2>5, <2>6, <2>7, <2>8 DEF PromiseInv
<1>4. CASE Handle \/ PopParams
  <2>1. /\ producer \in {"handle", "pop_params"} /\ handling' = NoEvent
        /\ UNCHANGED <<events_, promised, produced, samples_produced>>
    BY <1>4 DEF Handle, PopParams, HandlerDone, queueVars, ghostVars
  <2>2. handling # NoEvent /\ SamplesOf(handling) = 0 /\ handling.due \in Nat
    BY <2>1, Holding DEF IsEvent
  <2>3. samples_produced = 0
    BY <2>1 DEF TypeInv, HandlingFits
  <2>4. QED
    BY <2>1, <2>2, <2>3 DEF PromiseInv, DueAfter
<1>5. CASE ProduceSample
  <2>1. /\ producer = "produce"
        /\ samples_produced' = samples_produced + 1 /\ produced' = produced + 1
        /\ UNCHANGED <<events_, promised, handling>>
    BY <1>5 DEF ProduceSample, queueVars
  <2>2. handling # NoEvent /\ handling.due \in Nat
    BY <2>1, Holding DEF IsEvent
  <2>3. QED
    BY <1>1, <2>1, <2>2 DEF PromiseInv, DueAfter
<1>6. CASE ProduceDone
  <2>1. /\ producer = "produce" /\ samples_produced = SamplesPerStep
        /\ samples_produced' = 0 /\ handling' = NoEvent
        /\ UNCHANGED <<events_, promised, produced>>
    BY <1>1, <1>6 DEF ProduceDone, Enough, HandlerDone, queueVars, ghostVars
  <2>2. handling # NoEvent /\ SamplesOf(handling) = SamplesPerStep
    BY <2>1, Holding DEF TypeInv, HandlingFits, SamplesOf
  <2>3. QED
    BY <2>1, <2>2 DEF PromiseInv, DueAfter
<1>7. CASE Acquire \/ TestShutdown \/ TakeParams
  <2>1. UNCHANGED <<events_, promised, handling, produced, samples_produced>>
    BY <1>7 DEF Acquire, TestShutdown, TakeParams, queueVars, ghostVars
  <2>2. QED
    BY <2>1 DEF PromiseInv, DueAfter
<1>8. CASE ~NewCall /\ ~ProducerStep
  <2>1. UNCHANGED <<events_, promised, handling, produced, samples_produced>>
    BY <1>8, NextMoves DEF Moves, ProducerStep, producerVars
  <2>2. QED
    BY <2>1 DEF PromiseInv, DueAfter
<1>9. QED
  BY <1>2, <1>3, <1>4, <1>5, <1>6, <1>7, <1>8 DEF ProducerStep

\* For any number of samples per step: whatever the producer carries out, exactly
\* the samples of the steps called before it are out by then.
THEOREM SamplesRight == Spec => []RightNumberOfSamples
<1>1. TypeInv /\ PromiseInv => RightNumberOfSamples
  <2> SUFFICES ASSUME TypeInv, PromiseInv, producer \in {"handle", "take_params"}
               PROVE  produced = handling.due
    BY DEF RightNumberOfSamples
  <2>1. handling # NoEvent
    BY Holding
  <2>2. handling.due \in Nat
    BY <2>1, Holding DEF IsEvent
  <2>3. samples_produced = 0
    BY DEF TypeInv, HandlingFits
  <2>4. produced = handling.due + samples_produced
    BY <2>1 DEF PromiseInv
  <2>5. QED
    BY <2>2, <2>3, <2>4
<1>2. Spec => []PromiseInv
  BY Typed, PromiseInit, PromiseStep, PTL DEF Spec
<1>3. QED
  BY <1>1, <1>2, Typed, PTL

-----------------------------------------------------------------------------
(***************************************************************************)
(* Updates and their parameters                                            *)
(***************************************************************************)

Taking == producer \in {"take_params", "pop_params"}

\* The parameters of an update are what it was called with.
Belongs(e, params) ==
  e.channel = params.channel /\ e.after = reload(e.before, params)

\* Calls are numbered: the events wait in the order of their calls, behind the one
\* being handled, and so do the parameters.
EventsOrdered ==
  /\ \A i, j \in 1 .. Len(events_) : i < j => events_[i].call < events_[j].call
  /\ \A i \in 1 .. Len(events_) :
       handling.call < events_[i].call /\ events_[i].call <= calls
  /\ handling.call \in Nat /\ handling.call <= calls

ParamsOrdered ==
  /\ \A i, j \in 1 .. Len(param_updates_) :
       i < j => param_updates_[i].call < param_updates_[j].call
  /\ \A i \in 1 .. Len(param_updates_) :
       /\ param_updates_[i].call <= calls
       /\ vm.at = "push_params" => param_updates_[i].call < calls

\* Every update waiting or being taken has its parameters in the queue or on their
\* way, and there are no others.
HasParams(e) ==
  \E k \in 1 .. Len(param_updates_) :
    param_updates_[k].call = e.call /\ Belongs(e, param_updates_[k].params)

LastAnnounced ==
  vm.at = "push_params" =>
    LET e == events_[Len(events_)]
    IN Len(events_) > 0 /\ IsUpdate(e) /\ e.call = calls /\ Belongs(e, vm.params)

EventsPaired ==
  \A i \in 1 .. Len(events_) : IsUpdate(events_[i]) =>
    (vm.at = "push_params" /\ i = Len(events_)) \/ HasParams(events_[i])

TakingPaired == Taking => HasParams(handling)

ParamsPaired ==
  \A k \in 1 .. Len(param_updates_) :
    \/ Taking /\ param_updates_[k].call = handling.call
    \/ \E i \in 1 .. Len(events_) :
         IsUpdate(events_[i]) /\ param_updates_[k].call = events_[i].call

Paired == LastAnnounced /\ EventsPaired /\ TakingPaired /\ ParamsPaired

ParamsInv == EventsOrdered /\ ParamsOrdered /\ (~raced => Paired)

LEMMA ParamsInvInit == Init => ParamsInv
<1> SUFFICES ASSUME Init
             PROVE  ParamsInv
  OBVIOUS
<1>1. Len(events_) = 0 /\ Len(param_updates_) = 0
  BY EmptySequence DEF Init
<1>2. handling.call = 0 /\ calls = 0 /\ producer = "acquire" /\ vm.at = "idle"
  BY DEF Init, NoEvent, Idle
<1>3. EventsOrdered /\ ParamsOrdered
  BY <1>1, <1>2 DEF EventsOrdered, ParamsOrdered
<1>4. LastAnnounced /\ EventsPaired /\ TakingPaired /\ ParamsPaired
  BY <1>1, <1>2 DEF LastAnnounced, EventsPaired, TakingPaired, ParamsPaired, Taking
<1>5. QED
  BY <1>3, <1>4 DEF ParamsInv, Paired

\* The numbers stay in order.
LEMMA EventsOrderedStep == TypeInv /\ EventsOrdered /\ [Next]_vars => EventsOrdered'
<1> SUFFICES ASSUME TypeInv, EventsOrdered, [Next]_vars
             PROVE  EventsOrdered'
  OBVIOUS
<1>1. /\ calls \in Nat /\ Len(events_) \in Nat
      /\ \A i \in 1 .. Len(events_) : events_[i].call \in Nat \ {0}
  BY SequenceLength DEF TypeInv, CountersTyped, EventsTyped, IsEvent
<1>2. CASE NewCall
  <2>1. UNCHANGED handling /\ calls' = calls + 1
    BY <1>2, CallMade DEF CallEffect
  <2>2. CASE UNCHANGED events_
    BY <1>1, <2>1, <2>2 DEF EventsOrdered
  <2>3. ASSUME NEW event, NEW channel, NEW before, NEW after,
               Grown(Record(event, channel, before, after))
        PROVE  EventsOrdered'
    <3>1. events_'[Len(events_) + 1].call = calls + 1
      BY <2>3 DEF Grown, Record
    <3>2. \A i \in 1 .. Len(events_) : events_'[i] = events_[i] /\ events_[i].call <= calls
      BY <2>3 DEF Grown, EventsOrdered
    <3>3. /\ Len(events_') = Len(events_) + 1
          /\ \A i \in 1 .. Len(events_') : i \in 1 .. Len(events_) \/ i = Len(events_) + 1
      BY <1>1, <2>3 DEF Grown
    <3>4. ASSUME NEW i \in 1 .. Len(events_'), NEW j \in 1 .. Len(events_'), i < j
          PROVE  events_'[i].call < events_'[j].call
      <4>1. i \in 1 .. Len(events_)
        BY <1>1, <3>3, <3>4
      <4>2. QED
        BY <1>1, <3>1, <3>2, <3>3, <3>4, <4>1 DEF EventsOrdered
    <3>5. ASSUME NEW i \in 1 .. Len(events_')
          PROVE  handling'.call < events_'[i].call /\ events_'[i].call <= calls'
      BY <1>1, <2>1, <3>1, <3>2, <3>3 DEF EventsOrdered
    <3>6. QED
      BY <1>1, <2>1, <3>4, <3>5 DEF EventsOrdered
  <2>4. QED
    BY <1>2, <2>2, <2>3, Calls
<1>3. CASE PopEvent
  <2>1. Popped /\ UNCHANGED calls
    BY <1>3, EventPopped DEF PopEvent
  <2>2. /\ Len(events_') = Len(events_) - 1 /\ handling' = events_[1] /\ Len(events_) >= 1
        /\ \A i \in 1 .. Len(events_') :
             i + 1 \in 1 .. Len(events_) /\ events_'[i] = events_[i + 1]
    BY <1>1, <2>1 DEF Popped
  <2>3. ASSUME NEW i \in 1 .. Len(events_'), NEW j \in 1 .. Len(events_'), i < j
        PROVE  events_'[i].call < events_'[j].call
    BY <2>2, <2>3 DEF EventsOrdered
  <2>4. ASSUME NEW i \in 1 .. Len(events_')
        PROVE  handling'.call < events_'[i].call /\ events_'[i].call <= calls'
    <3>1. i + 1 \in 1 .. Len(events_) /\ 1 < i + 1 /\ 1 \in 1 .. Len(events_)
      BY <1>1, <2>2
    <3>2. QED
      BY <2>1, <2>2, <3>1 DEF EventsOrdered
  <2>5. handling'.call \in Nat /\ handling'.call <= calls'
    BY <1>1, <2>1, <2>2 DEF EventsOrdered
  <2>6. QED
    BY <2>3, <2>4, <2>5 DEF EventsOrdered
<1>4. CASE UNCHANGED <<events_, calls>> /\ handling' = NoEvent
  <2>1. handling'.call = 0
    BY <1>4 DEF NoEvent
  <2>2. QED
    BY <1>1, <1>4, <2>1 DEF EventsOrdered
<1>5. CASE UNCHANGED <<events_, calls, handling>>
  BY <1>5 DEF EventsOrdered
<1>6. CASE ProducerStep
  BY <1>3, <1>4, <1>5, <1>6
     DEF ProducerStep, Acquire, TestShutdown, Handle, TakeParams, PopParams, ProduceSample,
         ProduceDone, HandlerDone, queueVars
<1>7. QED
  BY <1>2, <1>5, <1>6, NextMoves DEF Moves, ProducerStep, producerVars

LEMMA ParamsOrderedStep == TypeInv /\ ParamsOrdered /\ [Next]_vars => ParamsOrdered'
<1> SUFFICES ASSUME TypeInv, ParamsOrdered, [Next]_vars
             PROVE  ParamsOrdered'
  OBVIOUS
<1>1. /\ calls \in Nat /\ Len(param_updates_) \in Nat
      /\ \A i \in 1 .. Len(param_updates_) : param_updates_[i].call \in Nat
  BY SequenceLength DEF TypeInv, CountersTyped, ParamsTyped
<1>2. CASE NewCall
  BY <1>1, <1>2, CallMade DEF CallEffect, ParamsOrdered
<1>3. CASE PushParams
  <2> DEFINE pushed == Append(param_updates_, [params |-> vm.params, call |-> calls])
  <2>1. /\ Len(pushed) = Len(param_updates_) + 1
        /\ \A i \in 1 .. Len(param_updates_) : pushed[i] = param_updates_[i]
        /\ pushed[Len(param_updates_) + 1].call = calls
    BY Appended DEF TypeInv, ParamsTyped
  <2>2. /\ vm.at = "push_params" /\ calls' = calls /\ vm'.at = "idle"
        /\ param_updates_' = pushed \/ UNCHANGED param_updates_
    BY <1>3 DEF PushParams, Idle
  <2> HIDE DEF pushed
  <2>3. CASE UNCHANGED param_updates_
    BY <2>2, <2>3 DEF ParamsOrdered
  <2>4. CASE param_updates_' = pushed
    <3>1. \A i \in 1 .. Len(param_updates_) : param_updates_[i].call < calls
      BY <2>2 DEF ParamsOrdered
    <3>2. /\ Len(param_updates_') = Len(param_updates_) + 1
          /\ \A i \in 1 .. Len(param_updates_) : param_updates_'[i] = param_updates_[i]
          /\ param_updates_'[Len(param_updates_) + 1].call = calls
      BY <2>1, <2>4
    <3>3. \A i \in 1 .. Len(param_updates_') :
            i \in 1 .. Len(param_updates_) \/ i = Len(param_updates_) + 1
      BY <1>1, <3>2
    <3>4. \A i, j \in 1 .. Len(param_updates_') :
            i < j => param_updates_'[i].call < param_updates_'[j].call
      <4> SUFFICES ASSUME NEW i \in 1 .. Len(param_updates_'),
                          NEW j \in 1 .. Len(param_updates_'), i < j
                   PROVE  param_updates_'[i].call < param_updates_'[j].call
        OBVIOUS
      <4>1. i \in 1 .. Len(param_updates_)
        BY <1>1, <3>2
      <4>2. CASE j \in 1 .. Len(param_updates_)
        BY <3>2, <4>1, <4>2 DEF ParamsOrdered
      <4>3. CASE j = Len(param_updates_) + 1
        BY <3>1, <3>2, <4>1, <4>3
      <4>4. QED
        BY <3>3, <4>2, <4>3
    <3>5. \A i \in 1 .. Len(param_updates_') : param_updates_'[i].call <= calls
      BY <1>1, <3>1, <3>2, <3>3
    <3>6. QED
      BY <2>2, <3>4, <3>5 DEF ParamsOrdered
  <2>5. QED
    BY <2>2, <2>3, <2>4
<1>4. CASE PopParams
  <2>1. UNCHANGED <<calls, vm>>
    BY <1>4 DEF PopParams
  <2>2. CASE UNCHANGED param_updates_
    BY <2>1, <2>2 DEF ParamsOrdered
  <2>3. CASE param_updates_ # <<>> /\ param_updates_' = Tail(param_updates_)
    <3>1. /\ Len(param_updates_') = Len(param_updates_) - 1
          /\ \A i \in 1 .. Len(param_updates_) - 1 : param_updates_'[i] = param_updates_[i + 1]
      BY <2>3, Tailed DEF TypeInv, ParamsTyped
    <3>2. \A i \in 1 .. Len(param_updates_') :
            i + 1 \in 1 .. Len(param_updates_) /\ param_updates_'[i] = param_updates_[i + 1]
      BY <1>1, <3>1
    <3>3. ASSUME NEW i \in 1 .. Len(param_updates_'), NEW j \in 1 .. Len(param_updates_'), i < j
          PROVE  param_updates_'[i].call < param_updates_'[j].call
      <4>1. /\ i + 1 \in 1 .. Len(param_updates_) /\ j + 1 \in 1 .. Len(param_updates_)
            /\ i + 1 < j + 1
        BY <3>2, <3>3
      <4>2. param_updates_[i + 1].call < param_updates_[j + 1].call
        BY <4>1 DEF ParamsOrdered
      <4>3. QED
        BY <3>2, <4>2
    <3>4. QED
      BY <2>1, <3>2, <3>3 DEF ParamsOrdered
  <2>4. QED
    BY <1>4, <2>2, <2>3 DEF PopParams
<1>5. CASE CallGoesOn /\ UNCHANGED param_updates_
  BY <1>5, CallEnded DEF ParamsOrdered
<1>6. CASE UNCHANGED <<param_updates_, vm, calls>>
  BY <1>6 DEF ParamsOrdered
<1>7. QED
  BY <1>2, <1>3, <1>4, <1>5, <1>6, NextMoves DEF Moves

\* The parameters of the update being taken are the first ones.
LEMMA FirstParams ==
  ASSUME TypeInv, EventsOrdered, ParamsOrdered, Paired, Taking
  PROVE  /\ Len(param_updates_) >= 1
         /\ param_updates_ # <<>>
         /\ param_updates_[1].call = handling.call
         /\ Belongs(handling, param_updates_[1].params)
<1>1. /\ IsSequence(param_updates_)
      /\ calls \in Nat /\ Len(param_updates_) \in Nat /\ handling.call \in Nat
      /\ \A i \in 1 .. Len(param_updates_) : param_updates_[i].call \in Nat
      /\ \A i \in 1 .. Len(events_) : events_[i].call \in Nat
  BY SequenceLength
     DEF TypeInv, CountersTyped, ParamsTyped, EventsTyped, IsEvent, EventsOrdered
<1>2. PICK k \in 1 .. Len(param_updates_) :
        param_updates_[k].call = handling.call /\ Belongs(handling, param_updates_[k].params)
  BY DEF Paired, TakingPaired, HasParams
<1>3. param_updates_[1].call <= handling.call
  BY <1>1, <1>2 DEF ParamsOrdered
<1>4. param_updates_[1].call >= handling.call
  BY <1>1, <1>2 DEF Paired, ParamsPaired, EventsOrdered
<1>5. k = 1
  BY <1>1, <1>2, <1>4 DEF ParamsOrdered
<1>6. QED
  BY <1>1, <1>2, <1>5, SequenceLength

\* The parameters queued, whatever the event.
LEMMA SameParams ==
  ASSUME UNCHANGED param_updates_, NEW e
  PROVE  HasParams(e)' <=> HasParams(e)
BY DEF HasParams

\* A call that queues an event: an update announces its parameters.
LEMMA PairedGrows ==
  ASSUME TypeInv, Paired, NEW e, Grown(e), vm.at = "idle",
         UNCHANGED <<param_updates_, producer, handling>>,
         vm'.at = "push_params" => IsUpdate(e) /\ e.call = calls' /\ Belongs(e, vm'.params),
         vm'.at # "push_params" => ~IsUpdate(e)
  PROVE  Paired'
<1>1. /\ Len(events_') = Len(events_) + 1 /\ Len(events_) \in Nat
      /\ events_'[Len(events_) + 1] = e
      /\ \A i \in 1 .. Len(events_) : i \in 1 .. Len(events_') /\ events_'[i] = events_[i]
      /\ \A i \in 1 .. Len(events_') : i \in 1 .. Len(events_) \/ i = Len(events_) + 1
  BY DEF Grown
<1>2. LastAnnounced'
  BY <1>1 DEF LastAnnounced
<1>3. EventsPaired'
  <2> SUFFICES ASSUME NEW i \in 1 .. Len(events_'), IsUpdate(events_'[i])
               PROVE  (vm'.at = "push_params" /\ i = Len(events_')) \/ HasParams(events_[i])'
    BY DEF EventsPaired
  <2>1. CASE i \in 1 .. Len(events_)
    <3>1. HasParams(events_[i])
      BY <1>1, <2>1 DEF Paired, EventsPaired
    <3>2. QED
      BY <1>1, <2>1, <3>1 DEF HasParams
  <2>2. CASE i = Len(events_) + 1
    BY <1>1, <2>2
  <2>3. QED
    BY <1>1, <2>1, <2>2
<1>4. TakingPaired'
  BY DEF Paired, TakingPaired, Taking, HasParams
<1>5. ParamsPaired'
  <2>1. ParamsPaired /\ Taking' = Taking
    BY DEF Paired, Taking
  <2>2. \A i \in 1 .. Len(events_) : i \in 1 .. Len(events_') /\ events_'[i] = events_[i]
    BY <1>1
  <2>3. QED
    BY ZenonT(40), <2>1, <2>2 DEF ParamsPaired
<1>6. QED
  BY <1>2, <1>3, <1>4, <1>5 DEF Paired

LEMMA PairedCall == TypeInv /\ Paired /\ NewCall => Paired'
<1> SUFFICES ASSUME TypeInv, Paired, NewCall
             PROVE  Paired'
  OBVIOUS
<1>1. /\ vm.at = "idle" /\ calls' = calls + 1
      /\ UNCHANGED <<param_updates_, producer, handling>>
  BY CallMade DEF CallEffect
<1>2. ASSUME NEW channel \in Channels, NEW event \in ChannelEvents, NEW before, NEW after,
             Decrement(event, channel), Grown(Record(event, channel, before, after))
      PROVE  Paired'
  <2>1. vm' = vm /\ ~IsUpdate(Record(event, channel, before, after))
    BY <1>2 DEF Decrement, IsUpdate, Record, ChannelEvents, UpdateEvents
  <2>2. QED
    BY <1>1, <1>2, <2>1, PairedGrows
<1>3. ASSUME NEW params \in ParamChoices, NEW event \in UpdateEvents, NEW before,
             update_parameters(event, params),
             Grown(Record(event, params.channel, before, reload(before, params)))
      PROVE  Paired'
  <2> DEFINE e == Record(event, params.channel, before, reload(before, params))
  <2>1. vm'.at = "push_params" /\ vm'.params = params
    BY <1>3 DEF update_parameters
  <2>2. IsUpdate(e) /\ e.call = calls' /\ Belongs(e, vm'.params)
    BY <1>1, <2>1 DEF IsUpdate, Record, Belongs
  <2> HIDE DEF e
  <2>3. Grown(e)
    BY <1>3 DEF e
  <2>4. QED
    BY <1>1, <2>1, <2>2, <2>3, PairedGrows
<1>4. ASSUME step, Grown(Record("Step", "Square_Pulse_1", NoStream, NoStream))
      PROVE  Paired'
  <2>1. vm'.at = "release" /\ ~IsUpdate(Record("Step", "Square_Pulse_1", NoStream, NoStream))
    BY <1>4 DEF step, Idle, IsUpdate, Record, UpdateEvents
  <2>2. QED
    BY <1>1, <1>4, <2>1, PairedGrows
<1>5. ASSUME NEW channel \in Channels, NEW enabled \in BOOLEAN,
             SetEnabled(channel, enabled), UNCHANGED events_
      PROVE  Paired'
  <2>1. vm'.at # "push_params"
    BY <1>5 DEF SetEnabled, Idle
  <2>2. QED
    BY <1>1, <1>5, <2>1
       DEF Paired, LastAnnounced, EventsPaired, TakingPaired, ParamsPaired, HasParams, Taking
<1>6. QED
  BY <1>2, <1>3, <1>4, <1>5, Calls

\* The parameters announced arrive.
LEMMA PairedPush ==
  TypeInv /\ EventsOrdered /\ ParamsOrdered /\ Paired /\ PushParams /\ ~raced' => Paired'
<1> SUFFICES ASSUME TypeInv, EventsOrdered, ParamsOrdered, Paired, PushParams, ~raced'
             PROVE  Paired'
  OBVIOUS
<1> DEFINE n == Len(param_updates_)
           last == [params |-> vm.params, call |-> calls]
<1>1. /\ vm.at = "push_params" /\ vm'.at = "idle"
      /\ param_updates_' = Append(param_updates_, last)
      /\ UNCHANGED <<events_, producer, handling>>
  BY DEF PushParams, Idle, producerVars
<1>2. /\ Len(param_updates_') = n + 1 /\ n \in Nat /\ param_updates_'[n + 1] = last
      /\ \A k \in 1 .. n : param_updates_'[k] = param_updates_[k]
  BY <1>1, Appended DEF TypeInv, ParamsTyped
<1>3. /\ Len(events_) \in Nat /\ Len(events_) > 0 /\ IsUpdate(events_[Len(events_)])
      /\ events_[Len(events_)].call = calls /\ Belongs(events_[Len(events_)], vm.params)
  BY <1>1, SequenceLength DEF Paired, LastAnnounced, TypeInv, EventsTyped
<1>4. \A e : HasParams(e) => HasParams(e)'
  BY <1>2 DEF HasParams
<1>5. HasParams(events_[Len(events_)])'
  BY <1>1, <1>2, <1>3 DEF HasParams
<1>6. EventsPaired'
  BY <1>1, <1>4, <1>5 DEF Paired, EventsPaired
<1>7. TakingPaired'
  BY <1>1, <1>4 DEF Paired, TakingPaired, Taking
<1>8. ParamsPaired'
  <2> SUFFICES ASSUME NEW k \in 1 .. Len(param_updates_')
               PROVE  \/ Taking' /\ param_updates_'[k].call = handling'.call
                      \/ \E i \in 1 .. Len(events_') :
                           IsUpdate(events_'[i]) /\ param_updates_'[k].call = events_'[i].call
    BY DEF ParamsPaired
  <2>1. CASE k \in 1 .. n
    BY <1>1, <1>2, <2>1 DEF Paired, ParamsPaired, Taking
  <2>2. CASE k = n + 1
    <3>1. param_updates_'[k].call = calls
      BY <1>2, <2>2
    <3>2. QED
      BY <1>1, <1>3, <3>1
  <2>3. QED
    BY <1>2, <2>1, <2>2
<1>9. QED
  BY <1>1, <1>6, <1>7, <1>8 DEF Paired, LastAnnounced

\* An update is taken only after its parameters arrived: the semaphore was released
\* after they were pushed.
LEMMA PairedPop ==
  TypeInv /\ SemaphoreCountsEvents /\ EventsOrdered /\ Paired /\ PopEvent => Paired'
<1> SUFFICES ASSUME TypeInv, SemaphoreCountsEvents, EventsOrdered, Paired, PopEvent
             PROVE  Paired'
  OBVIOUS
<1>1. /\ producer = "pop" /\ UNCHANGED <<param_updates_, vm, calls>>
      /\ producer' = AfterPop(handling')
  BY DEF PopEvent
<1>2. /\ Len(events_') = Len(events_) - 1 /\ handling' = events_[1] /\ Len(events_) >= 1
      /\ Len(events_) \in Nat
      /\ \A i \in 1 .. Len(events_') :
           i + 1 \in 1 .. Len(events_) /\ events_'[i] = events_[i + 1]
  BY EventPopped DEF Popped
<1>3. vm.at = "push_params" => Len(events_) >= 2
  <2>1. Popping = 1 /\ (vm.at = "push_params" => Announced = 1) /\ sema_ \in Nat
    BY <1>1 DEF Popping, Announced, TypeInv, CountersTyped
  <2>2. Len(events_) = sema_ + Popping + Announced
    BY DEF SemaphoreCountsEvents, Popping, Announced
  <2>3. QED
    BY <2>1, <2>2
<1>4. LastAnnounced'
  <2> SUFFICES ASSUME vm.at = "push_params"
               PROVE  /\ Len(events_') > 0 /\ events_'[Len(events_')] = events_[Len(events_)]
    BY <1>1 DEF Paired, LastAnnounced
  <2>1. Len(events_') \in 1 .. Len(events_') /\ Len(events_') + 1 = Len(events_)
    BY <1>2, <1>3
  <2>2. QED
    BY <1>2, <2>1
<1>5. EventsPaired'
  <2> SUFFICES ASSUME NEW i \in 1 .. Len(events_'), IsUpdate(events_'[i])
               PROVE  (vm'.at = "push_params" /\ i = Len(events_')) \/ HasParams(events_[i])'
    BY DEF EventsPaired
  <2>1. (vm.at = "push_params" /\ i + 1 = Len(events_)) \/ HasParams(events_[i + 1])
    BY <1>2 DEF Paired, EventsPaired
  <2>2. QED
    BY <1>1, <1>2, <2>1 DEF HasParams
<1>6. TakingPaired'
  <2> SUFFICES ASSUME Taking'
               PROVE  HasParams(handling)'
    BY DEF TakingPaired
  <2>1. IsUpdate(events_[1])
    BY <1>1, <1>2 DEF Taking, AfterPop
  <2>2. HasParams(events_[1])
    BY <1>2, <1>3, <2>1 DEF Paired, EventsPaired
  <2>3. QED
    BY <1>1, <1>2, <2>2 DEF HasParams
<1>7. ParamsPaired'
  <2> SUFFICES ASSUME NEW k \in 1 .. Len(param_updates_)
               PROVE  \/ Taking' /\ param_updates_[k].call = handling'.call
                      \/ \E i \in 1 .. Len(events_') :
                           IsUpdate(events_'[i]) /\ param_updates_[k].call = events_'[i].call
    BY <1>1 DEF ParamsPaired
  <2>1. PICK i \in 1 .. Len(events_) :
          IsUpdate(events_[i]) /\ param_updates_[k].call = events_[i].call
    BY <1>1 DEF Paired, ParamsPaired, Taking
  <2>2. CASE i = 1
    BY <1>1, <1>2, <2>1, <2>2 DEF Taking, AfterPop, IsUpdate, UpdateEvents
  <2>3. CASE i > 1
    <3>1. i - 1 \in 1 .. Len(events_') /\ events_'[i - 1] = events_[i]
      BY <1>2, <2>3
    <3>2. QED
      BY <2>1, <3>1
  <2>4. QED
    BY <2>2, <2>3
<1>8. QED
  BY <1>4, <1>5, <1>6, <1>7 DEF Paired

\* The parameters that leave are those of the update being taken.
LEMMA PairedPopParams ==
  TypeInv /\ EventsOrdered /\ ParamsOrdered /\ Paired /\ PopParams /\ ~raced' => Paired'
<1> SUFFICES ASSUME TypeInv, EventsOrdered, ParamsOrdered, Paired, PopParams, ~raced'
             PROVE  Paired'
  OBVIOUS
<1>1. /\ Taking /\ ~Taking' /\ vm.at # "push_params" /\ UNCHANGED <<events_, vm>>
      /\ param_updates_' = IF param_updates_ = <<>> THEN <<>> ELSE Tail(param_updates_)
  BY DEF PopParams, Taking, HandlerDone
<1>2. param_updates_ # <<>> /\ param_updates_[1].call = handling.call
  BY <1>1, FirstParams
<1>3. /\ Len(param_updates_') = Len(param_updates_) - 1 /\ Len(param_updates_) \in Nat
      /\ \A k \in 1 .. Len(param_updates_) - 1 : param_updates_'[k] = param_updates_[k + 1]
  BY <1>1, <1>2, Tailed DEF TypeInv, ParamsTyped
<1>4. /\ handling.call \in Nat
      /\ \A i \in 1 .. Len(events_) : events_[i].call > handling.call
      /\ \A i \in 1 .. Len(events_) : events_[i].call \in Nat
  BY DEF EventsOrdered, TypeInv, EventsTyped, IsEvent
<1>5. EventsPaired'
  <2> SUFFICES ASSUME NEW i \in 1 .. Len(events_), IsUpdate(events_[i])
               PROVE  HasParams(events_[i])'
    BY <1>1 DEF EventsPaired
  <2>1. PICK k \in 1 .. Len(param_updates_) :
          /\ param_updates_[k].call = events_[i].call
          /\ Belongs(events_[i], param_updates_[k].params)
    BY <1>1 DEF Paired, EventsPaired, HasParams
  <2>2. k # 1
    BY <1>2, <1>4, <2>1
  <2>3. k - 1 \in 1 .. Len(param_updates_') /\ param_updates_'[k - 1] = param_updates_[k]
    BY <1>3, <2>2
  <2>4. QED
    BY <1>1, <2>1, <2>3 DEF HasParams
<1>6. ParamsPaired'
  <2> SUFFICES ASSUME NEW k \in 1 .. Len(param_updates_')
               PROVE  \E i \in 1 .. Len(events_) :
                        IsUpdate(events_[i]) /\ param_updates_'[k].call = events_[i].call
    BY <1>1 DEF ParamsPaired
  <2>1. /\ k + 1 \in 1 .. Len(param_updates_) /\ 1 \in 1 .. Len(param_updates_) /\ 1 < k + 1
        /\ param_updates_'[k] = param_updates_[k + 1]
    BY <1>3
  <2>2. param_updates_[k + 1].call > handling.call /\ param_updates_[k + 1].call \in Nat
    <3>1. param_updates_[1].call < param_updates_[k + 1].call
      BY <2>1 DEF ParamsOrdered
    <3>2. QED
      BY <1>2, <1>4, <2>1, <3>1 DEF TypeInv, ParamsTyped
  <2>3. QED
    BY <1>4, <2>1, <2>2 DEF Paired, ParamsPaired
<1>7. QED
  BY <1>1, <1>5, <1>6 DEF Paired, LastAnnounced, TakingPaired

LEMMA ParamsInvStep ==
  TypeInv /\ SemaphoreCountsEvents /\ ParamsInv /\ [Next]_vars => ParamsInv'
<1> SUFFICES ASSUME TypeInv, SemaphoreCountsEvents, ParamsInv, [Next]_vars
             PROVE  ParamsInv'
  OBVIOUS
<1>1. EventsOrdered /\ ParamsOrdered /\ EventsOrdered' /\ ParamsOrdered'
  BY EventsOrderedStep, ParamsOrderedStep DEF ParamsInv
<1>2. ASSUME ~raced'
      PROVE  Paired'
  <2>1. ~raced
    BY <1>2, NextMoves DEF Moves, PushParams, PopParams
  <2>2. Paired
    BY <2>1 DEF ParamsInv
  <2>3. CASE NewCall
    BY <2>2, <2>3, PairedCall
  <2>4. CASE PushParams
    BY <1>1, <1>2, <2>2, <2>4, PairedPush
  <2>5. CASE PopEvent
    BY <1>1, <2>2, <2>5, PairedPop
  <2>6. CASE PopParams
    BY <1>1, <1>2, <2>2, <2>6, PairedPopParams
  <2>7. ASSUME UNCHANGED <<events_, param_updates_>>, Taking' => Taking /\ UNCHANGED handling,
               Taking => Taking', vm.at = "push_params" => UNCHANGED <<vm, calls>>,
               vm'.at = "push_params" => UNCHANGED <<vm, calls>>
        PROVE  Paired'
    BY <2>2, <2>7
       DEF Paired, LastAnnounced, EventsPaired, TakingPaired, ParamsPaired, HasParams
  <2>8. CASE StepRelease \/ SetEnabledClears
    <3>1. /\ vm.at # "push_params" /\ vm'.at # "push_params"
          /\ UNCHANGED <<events_, param_updates_, producer, handling>>
      BY <2>8, CallEnded DEF StepRelease, SetEnabledClears, CallGoesOn, queueVars, Idle
    <3>2. QED
      BY <2>7, <3>1 DEF Taking
  <2>9. CASE Acquire \/ TestShutdown \/ Handle \/ TakeParams \/ ProduceSample \/ ProduceDone
    <3>1. /\ UNCHANGED <<events_, param_updates_, vm, calls>>
          /\ Taking' = Taking /\ (Taking => UNCHANGED handling)
      BY <2>9 DEF Acquire, TestShutdown, Handle, TakeParams, ProduceSample, ProduceDone,
                  HandlerDone, Taking, queueVars
    <3>2. QED
      BY <2>7, <3>1
  <2>10. CASE ~NewCall /\ ~CallGoesOn /\ ~ProducerStep
    <3>1. UNCHANGED <<events_, param_updates_, vm, calls, producer, handling>>
      BY <2>10, NextMoves DEF Moves, ProducerStep, CallGoesOn, producerVars
    <3>2. QED
      BY <2>7, <3>1 DEF Taking
  <2>11. QED
    BY <2>3, <2>4, <2>5, <2>6, <2>8, <2>9, <2>10 DEF CallGoesOn, ProducerStep
<1>3. QED
  BY <1>1, <1>2 DEF ParamsInv

LEMMA ParamsKept == Spec => []ParamsInv
BY Typed, QueueCounted, ParamsInvInit, ParamsInvStep, PTL DEF Spec

\* For any parameters and number of calls: what the producer is about to take are
\* the parameters of the update it is handling.
THEOREM ParamsMatched == Spec => []ParamsMatchEvents
<1>1. TypeInv /\ ParamsInv => ParamsMatchEvents
  <2> SUFFICES ASSUME TypeInv, ParamsInv, producer = "take_params", ~raced
               PROVE  param_updates_ # <<>> /\ Head(param_updates_).call = handling.call
    BY DEF ParamsMatchEvents
  <2>1. param_updates_ # <<>> /\ param_updates_[1].call = handling.call
    BY FirstParams DEF ParamsInv, Taking
  <2>2. Head(param_updates_) = param_updates_[1]
    BY <2>1, Tailed DEF TypeInv, ParamsTyped
  <2>3. QED
    BY <2>1, <2>2
<1>2. QED
  BY <1>1, Typed, ParamsKept, PTL

-----------------------------------------------------------------------------
(***************************************************************************)
(* Streams                                                                 *)
(***************************************************************************)

\* Event e acts on c's stream.
EventOn(c, e) == e.event # "Step" /\ e.channel = c
On(c, i) == EventOn(c, events_[i])

\* The producer has an action on c that it has not carried out yet.
Holds(c) == producer \in {"handle", "take_params"} /\ handling.channel = c

\* set_enabled() is between its two assignments to c.
Clearing(c) == vm.at = "clear_counter" /\ vm.channel = c

\* The state of the stream once what has begun is completed.
Settled(c) ==
  CASE Holds(c) -> handling.after
    [] ~Holds(c) /\ Clearing(c) -> [streams_[c] EXCEPT !.counter = 0]
    [] ~Holds(c) /\ ~Clearing(c) -> streams_[c]

\* The events on c after the i-th, which leaves the stream as left, go on from there.
GoesOn(c, i, left) ==
  /\ \A j \in i + 1 .. Len(events_) :
       On(c, j) /\ (\A k \in i + 1 .. j - 1 : ~On(c, k)) => events_[j].before = left
  /\ (\A k \in i + 1 .. Len(events_) : ~On(c, k)) => expected[c] = left

\* A decrement or a sweep makes of the stream what its handler does.
Effects(e) == e.event \in ChannelEvents => e.after = Handled(e.event, e.before)

Chained(c) ==
  \A i \in 1 .. Len(events_) :
    On(c, i) => GoesOn(c, i, events_[i].after) /\ Effects(events_[i])

Held(c) == Holds(c) => handling.before = streams_[c] /\ Effects(handling)

StreamInv(c) ==
  Chained(c) /\ GoesOn(c, 0, Settled(c)) /\ Held(c) /\ (Clearing(c) => ~Pending(c))

StreamsInv == ~raced => \A c \in Channels \ bypassed : StreamInv(c)

LEMMA StreamsInit == Init => StreamsInv
<1> SUFFICES ASSUME Init, NEW c \in Channels
             PROVE  StreamInv(c)
  BY DEF StreamsInv
<1>1. Len(events_) = 0 /\ expected = streams_
  BY EmptySequence DEF Init
<1>2. producer = "acquire" /\ vm.at = "idle"
  BY DEF Init, Idle
<1>3. ~Holds(c) /\ ~Clearing(c)
  BY <1>2 DEF Holds, Clearing
<1>4. Settled(c) = streams_[c]
  BY <1>3 DEF Settled
<1>5. QED
  BY <1>1, <1>3, <1>4 DEF StreamInv, Chained, Held, GoesOn

\* Nothing that concerns c's stream changes.
LEMMA StreamSame ==
  ASSUME NEW c, StreamInv(c), UNCHANGED events_, expected'[c] = expected[c],
         Settled(c)' = Settled(c),
         Holds(c)' => Holds(c) /\ UNCHANGED <<handling, streams_[c]>>,
         Clearing(c)' => ~Pending(c)'
  PROVE  StreamInv(c)'
<1>1. \A i, left : GoesOn(c, i, left)' <=> GoesOn(c, i, left)
  BY DEF GoesOn, On
<1>2. Chained(c)'
  BY <1>1 DEF StreamInv, Chained, On
<1>3. GoesOn(c, 0, Settled(c))'
  <2>1. \A left : left = Settled(c) => GoesOn(c, 0, left)
    BY DEF StreamInv
  <2>2. \A left : left = Settled(c) => GoesOn(c, 0, left)'
    BY <1>1, <2>1
  <2>3. QED
    BY <2>2 DEF GoesOn
<1>4. Held(c)'
  BY DEF StreamInv, Held
<1>5. QED
  BY <1>2, <1>3, <1>4 DEF StreamInv

\* A call queues an action that goes on from where the last one on its stream ends.
LEMMA GoesOnGrows ==
  ASSUME NEW c, NEW e, Grown(e), NEW i \in 0 .. Len(events_), NEW left, GoesOn(c, i, left),
         EventOn(c, e) => e.before = expected[c],
         ~EventOn(c, e) => expected'[c] = expected[c]
  PROVE  GoesOn(c, i, left)'
<1>1. /\ Len(events_) \in Nat /\ Len(events_') = Len(events_) + 1
      /\ \A j \in i + 1 .. Len(events_) : j \in 1 .. Len(events_)
      /\ \A j \in 1 .. Len(events_) : events_'[j] = events_[j]
      /\ events_'[Len(events_) + 1] = e
      /\ \A j \in i + 1 .. Len(events_') : j \in i + 1 .. Len(events_) \/ j = Len(events_) + 1
  BY DEF Grown
<1>2. \A j \in i + 1 .. Len(events_) : On(c, j)' <=> On(c, j)
  BY <1>1 DEF On
<1>3. \A j \in {Len(events_) + 1} : On(c, j)' <=> EventOn(c, e)
  BY <1>1 DEF On
<1>4. ASSUME NEW j \in i + 1 .. Len(events_'), On(c, j)',
             \A k \in i + 1 .. j - 1 : ~On(c, k)'
      PROVE  events_'[j].before = left
  <2>1. CASE j \in i + 1 .. Len(events_)
    <3>1. \A k \in i + 1 .. j - 1 : ~On(c, k)
      BY <1>1, <1>2, <1>4, <2>1
    <3>2. On(c, j) /\ events_'[j] = events_[j]
      BY <1>1, <1>2, <1>4, <2>1
    <3>3. QED
      BY <2>1, <3>1, <3>2 DEF GoesOn
  <2>2. CASE j = Len(events_) + 1
    <3>1. \A k \in i + 1 .. Len(events_) : ~On(c, k)
      BY <1>1, <1>2, <1>4, <2>2
    <3>2. EventOn(c, e) /\ events_'[j] = e
      BY <1>1, <1>3, <1>4, <2>2
    <3>3. QED
      BY <3>1, <3>2 DEF GoesOn
  <2>3. QED
    BY <1>1, <2>1, <2>2
<1>5. ASSUME \A k \in i + 1 .. Len(events_') : ~On(c, k)'
      PROVE  expected'[c] = left
  <2>1. \A k \in i + 1 .. Len(events_) : ~On(c, k)
    BY <1>1, <1>2, <1>5
  <2>2. Len(events_) + 1 \in i + 1 .. Len(events_')
    BY <1>1
  <2>3. ~EventOn(c, e)
    BY <1>3, <1>5, <2>2
  <2>4. QED
    BY <2>1, <2>3 DEF GoesOn
<1>6. QED
  BY <1>4, <1>5 DEF GoesOn

LEMMA StreamGrows ==
  ASSUME NEW c, StreamInv(c), NEW e, Grown(e), UNCHANGED <<streams_, producer, handling>>,
         vm.at = "idle", vm'.at # "clear_counter", Effects(e),
         EventOn(c, e) => e.before = expected[c] /\ expected'[c] = e.after,
         ~EventOn(c, e) => expected'[c] = expected[c]
  PROVE  StreamInv(c)'
<1>1. /\ Len(events_) \in Nat /\ Len(events_') = Len(events_) + 1
      /\ \A i \in 1 .. Len(events_) : events_'[i] = events_[i]
      /\ events_'[Len(events_) + 1] = e
      /\ \A i \in 1 .. Len(events_') : i \in 1 .. Len(events_) \/ i = Len(events_) + 1
  BY DEF Grown
<1>2. \A i \in 0 .. Len(events_) : \A left : GoesOn(c, i, left) => GoesOn(c, i, left)'
  BY GoesOnGrows
<1>3. ~Clearing(c) /\ ~Clearing(c)' /\ Holds(c)' = Holds(c) /\ Settled(c)' = Settled(c)
  BY DEF Clearing, Holds, Settled
<1>4. Chained(c)'
  <2> SUFFICES ASSUME NEW i \in 1 .. Len(events_'), On(c, i)'
               PROVE  GoesOn(c, i, events_[i].after)' /\ Effects(events_[i])'
    BY DEF Chained
  <2>1. CASE i \in 1 .. Len(events_)
    <3>1. events_'[i] = events_[i] /\ On(c, i)
      BY <1>1, <2>1 DEF On
    <3>2. GoesOn(c, i, events_[i].after) /\ Effects(events_[i])
      BY <2>1, <3>1 DEF StreamInv, Chained
    <3>3. \A left : left = events_[i].after => GoesOn(c, i, left)'
      BY <1>2, <2>1, <3>2
    <3>4. QED
      BY <3>1, <3>2, <3>3 DEF GoesOn, Effects
  <2>2. CASE i = Len(events_) + 1
    <3>1. events_'[i] = e /\ EventOn(c, e)
      BY <1>1, <2>2 DEF On
    <3>2. \A j \in i + 1 .. Len(events_') : FALSE
      BY <1>1, <2>2
    <3>3. QED
      BY <3>1, <3>2 DEF GoesOn, Effects
  <2>3. QED
    BY <1>1, <2>1, <2>2
<1>5. GoesOn(c, 0, Settled(c))'
  <2>1. \A left : left = Settled(c) => GoesOn(c, 0, left)'
    BY <1>1, <1>2 DEF StreamInv
  <2>2. QED
    BY <1>3, <2>1 DEF GoesOn
<1>6. Held(c)'
  BY <1>3 DEF StreamInv, Held
<1>7. QED
  BY <1>3, <1>4, <1>5, <1>6 DEF StreamInv

\* The events on c, as the properties see them.
LEMMA PendingOn ==
  ASSUME TypeInv, NEW c
  PROVE  /\ (\E i \in 1 .. Len(events_) : On(c, i)) => Pending(c)
         /\ Holds(c) => Pending(c)
         /\ Pending(c) => (\E i \in 1 .. Len(events_) : On(c, i)) \/ handling # NoEvent
<1>1. DOMAIN events_ = 1 .. Len(events_)
  BY SequenceLength DEF TypeInv, EventsTyped
<1>2. Holds(c) => handling.event \in ChannelEvents \cup UpdateEvents /\ handling.channel = c
  BY DEF Holds, TypeInv, HandlingFits, IsUpdate
<1>3. handling.event # "none" => handling # NoEvent
  BY DEF NoEvent
<1>4. QED
  BY <1>1, <1>2, <1>3 DEF Pending, On, EventOn, ChannelEvents, UpdateEvents

\* set_enabled() writes to the stream directly: a channel whose actions it overtakes
\* is bypassed.
LEMMA StreamDisabled ==
  ASSUME TypeInv, NEW c \in Channels, StreamInv(c), c \notin bypassed',
         NEW channel \in Channels, NEW enabled \in BOOLEAN,
         SetEnabled(channel, enabled), UNCHANGED events_
  PROVE  StreamInv(c)'
<1>1. /\ vm.at = "idle" /\ UNCHANGED <<producer, handling>>
      /\ streams_' = [streams_ EXCEPT ![channel].enabled = enabled]
      /\ expected' = [expected EXCEPT ![channel] = set_enabled(@, enabled)]
      /\ vm'.at = IF enabled THEN "idle" ELSE "clear_counter"
      /\ ~enabled => vm'.channel = channel
  BY DEF SetEnabled, Call, Idle, producerVars
<1>2. streams_ = [d \in Channels |-> streams_[d]] /\ expected = [d \in Channels |-> expected[d]]
  BY DEF TypeInv, StreamsTyped
<1>3. ~Clearing(c) /\ Holds(c)' = Holds(c)
  BY <1>1 DEF Clearing, Holds
<1>4. CASE c # channel
  <2>1. UNCHANGED <<streams_[c], expected[c]>> /\ ~Clearing(c)'
    BY <1>1, <1>2, <1>4 DEF Clearing
  <2>2. Settled(c)' = Settled(c)
    BY <1>1, <1>3, <2>1 DEF Settled
  <2>3. QED
    BY <1>1, <1>3, <2>1, <2>2, StreamSame
<1>5. CASE c = channel
  <2>1. ~Pending(c)
    BY <1>5 DEF SetEnabled
  <2>2. ~Holds(c) /\ \A i \in 1 .. Len(events_) : ~On(c, i)
    BY <2>1, PendingOn
  <2>3. expected[c] = streams_[c]
    BY <1>3, <2>2 DEF StreamInv, GoesOn, Settled
  <2>4. /\ streams_'[c] = [streams_[c] EXCEPT !.enabled = enabled]
        /\ expected'[c] = set_enabled(streams_[c], enabled)
    BY <1>1, <1>2, <1>5, <2>3
  <2>5. Settled(c)' = expected'[c]
    <3>1. CASE enabled
      <4>1. ~Clearing(c)' /\ ~Holds(c)'
        BY <1>1, <1>3, <2>2, <3>1 DEF Clearing
      <4>2. Settled(c)' = streams_'[c]
        BY <4>1 DEF Settled
      <4>3. [streams_[c] EXCEPT !.enabled = TRUE] = set_enabled(streams_[c], TRUE)
        BY DEF set_enabled
      <4>4. QED
        BY <2>4, <3>1, <4>2, <4>3
    <3>2. CASE ~enabled
      <4>1. Clearing(c)' /\ ~Holds(c)'
        BY <1>1, <1>3, <1>5, <2>2, <3>2 DEF Clearing
      <4>2. Settled(c)' = [streams_'[c] EXCEPT !.counter = 0]
        BY <4>1 DEF Settled
      <4>3. [[streams_[c] EXCEPT !.enabled = FALSE] EXCEPT !.counter = 0]
              = set_enabled(streams_[c], FALSE)
        BY DEF set_enabled
      <4>4. QED
        BY <2>4, <3>2, <4>2, <4>3
    <3>3. QED
      BY <3>1, <3>2
  <2>6. \A i \in 1 .. Len(events_') : ~On(c, i)'
    BY <2>2 DEF On
  <2>7. ~Pending(c)'
    BY <1>1, <2>1 DEF Pending
  <2>8. QED
    BY <1>3, <2>2, <2>5, <2>6, <2>7 DEF StreamInv, Chained, GoesOn, Held
<1>6. QED
  BY <1>4, <1>5

LEMMA StreamCall ==
  ASSUME TypeInv, NEW c \in Channels, StreamInv(c), c \notin bypassed', NewCall
  PROVE  StreamInv(c)'
<1>1. vm.at = "idle" /\ UNCHANGED <<producer, handling>>
  BY CallMade DEF CallEffect
<1>2. expected = [d \in Channels |-> expected[d]]
  BY DEF TypeInv, StreamsTyped
<1>3. ASSUME NEW channel \in Channels, NEW event \in ChannelEvents, Decrement(event, channel),
             Grown(Record(event, channel, expected[channel], Handled(event, expected[channel])))
      PROVE  StreamInv(c)'
  <2> DEFINE after == Handled(event, expected[channel])
             e == Record(event, channel, expected[channel], after)
  <2>1. /\ expected' = [expected EXCEPT ![channel] = after]
        /\ UNCHANGED <<streams_, vm>>
    BY <1>3 DEF Decrement
  <2>2. /\ e.event = event /\ e.channel = channel
        /\ e.before = expected[channel] /\ e.after = after
    BY DEF Record
  <2>3. Effects(e)
    BY <2>2 DEF Effects
  <2>4. Grown(e)
    BY <1>3
  <2> HIDE DEF e, after
  <2>5. /\ EventOn(c, e) => e.before = expected[c] /\ expected'[c] = e.after
        /\ ~EventOn(c, e) => expected'[c] = expected[c]
    BY <1>2, <1>3, <2>1, <2>2 DEF EventOn, ChannelEvents
  <2>6. QED
    BY <1>1, <2>1, <2>3, <2>4, <2>5, StreamGrows
<1>4. ASSUME NEW params \in ParamChoices, NEW event \in UpdateEvents,
             update_parameters(event, params), params.channel \in Channels,
             Grown(Record(event, params.channel, expected[params.channel],
                          reload(expected[params.channel], params)))
      PROVE  StreamInv(c)'
  <2> DEFINE after == reload(expected[params.channel], params)
             e == Record(event, params.channel, expected[params.channel], after)
  <2>1. /\ expected' = [expected EXCEPT ![params.channel] = after]
        /\ vm'.at = "push_params" /\ UNCHANGED streams_
    BY <1>4 DEF update_parameters
  <2>2. /\ e.event = event /\ e.channel = params.channel
        /\ e.before = expected[params.channel] /\ e.after = after
    BY DEF Record
  <2>3. Effects(e)
    BY <2>2 DEF Effects, UpdateEvents, ChannelEvents
  <2>4. Grown(e)
    BY <1>4
  <2> HIDE DEF e, after
  <2>5. /\ EventOn(c, e) => e.before = expected[c] /\ expected'[c] = e.after
        /\ ~EventOn(c, e) => expected'[c] = expected[c]
    BY <1>2, <1>4, <2>1, <2>2 DEF EventOn, UpdateEvents
  <2>6. QED
    BY <1>1, <2>1, <2>3, <2>4, <2>5, StreamGrows
<1>5. ASSUME step, Grown(Record("Step", "Square_Pulse_1", NoStream, NoStream))
      PROVE  StreamInv(c)'
  <2> DEFINE e == Record("Step", "Square_Pulse_1", NoStream, NoStream)
  <2>1. vm'.at = "release" /\ UNCHANGED <<streams_, expected>>
    BY <1>5 DEF step, Idle
  <2>2. ~EventOn(c, e) /\ Effects(e)
    BY DEF Record, EventOn, Effects, ChannelEvents
  <2>3. Grown(e)
    BY <1>5
  <2> HIDE DEF e
  <2>4. QED
    BY <1>1, <2>1, <2>2, <2>3, StreamGrows
<1>6. ASSUME NEW channel \in Channels, NEW enabled \in BOOLEAN,
             SetEnabled(channel, enabled), UNCHANGED events_
      PROVE  StreamInv(c)'
  BY <1>6, StreamDisabled
<1>7. QED
  BY <1>3, <1>4, <1>5, <1>6, Calls

\* What goes on from an event goes on from the same event one place nearer.
LEMMA GoesOnShifts ==
  ASSUME NEW c, Popped, expected'[c] = expected[c], NEW i \in Nat, NEW left,
         GoesOn(c, i + 1, left)
  PROVE  GoesOn(c, i, left)'
<1>1. /\ Len(events_) \in Nat /\ Len(events_') = Len(events_) - 1
      /\ \A j \in 1 .. Len(events_') :
           j + 1 \in 1 .. Len(events_) /\ events_'[j] = events_[j + 1]
  BY DEF Popped
<1>2. \A j \in i + 1 .. Len(events_') :
        /\ j + 1 \in i + 2 .. Len(events_) /\ events_'[j] = events_[j + 1]
        /\ On(c, j)' <=> On(c, j + 1)
  BY <1>1 DEF On
<1>3. \A k \in i + 2 .. Len(events_) : k - 1 \in i + 1 .. Len(events_') /\ k - 1 + 1 = k
  BY <1>1
<1>4. ASSUME NEW j \in i + 1 .. Len(events_'), On(c, j)',
             \A k \in i + 1 .. j - 1 : ~On(c, k)'
      PROVE  events_'[j].before = left
  <2>1. On(c, j + 1) /\ j + 1 \in (i + 1) + 1 .. Len(events_)
    BY <1>2, <1>4
  <2>2. \A k \in (i + 1) + 1 .. (j + 1) - 1 : ~On(c, k)
    <3> SUFFICES ASSUME NEW k \in (i + 1) + 1 .. (j + 1) - 1
                 PROVE  ~On(c, k)
      OBVIOUS
    <3>1. k - 1 \in i + 1 .. j - 1 /\ k - 1 \in i + 1 .. Len(events_') /\ (k - 1) + 1 = k
      BY <1>1, <1>4
    <3>2. On(c, (k - 1) + 1) => \E m \in {k - 1} : On(c, m)'
      BY <1>2, <3>1
    <3>3. QED
      BY <1>4, <3>1, <3>2
  <2>3. events_[j + 1].before = left
    BY <2>1, <2>2 DEF GoesOn
  <2>4. QED
    BY <1>2, <2>3
<1>5. ASSUME \A k \in i + 1 .. Len(events_') : ~On(c, k)'
      PROVE  expected'[c] = left
  <2>1. \A k \in (i + 1) + 1 .. Len(events_) : ~On(c, k)
    <3> SUFFICES ASSUME NEW k \in (i + 1) + 1 .. Len(events_)
                 PROVE  ~On(c, k)
      OBVIOUS
    <3>1. k - 1 \in i + 1 .. Len(events_') /\ (k - 1) + 1 = k
      BY <1>1
    <3>2. On(c, (k - 1) + 1) => \E m \in {k - 1} : On(c, m)'
      BY <1>2, <3>1
    <3>3. QED
      BY <1>5, <3>1, <3>2
  <2>2. QED
    BY <2>1 DEF GoesOn
<1>6. QED
  BY <1>4, <1>5 DEF GoesOn

\* The next event on c finds the stream as the last action leaves it.
LEMMA GoesOnFirst ==
  ASSUME NEW c, NEW left, Len(events_) \in Nat, Len(events_) >= 1, GoesOn(c, 0, left)
  PROVE  /\ On(c, 1) => events_[1].before = left
         /\ ~On(c, 1) => GoesOn(c, 1, left)
<1>1. ASSUME On(c, 1)
      PROVE  events_[1].before = left
  <2>1. 1 \in 0 + 1 .. Len(events_) /\ \A k \in 0 + 1 .. 1 - 1 : FALSE
    OBVIOUS
  <2>2. QED
    BY <1>1, <2>1 DEF GoesOn
<1>2. ASSUME ~On(c, 1)
      PROVE  GoesOn(c, 1, left)
  <2>1. \A j \in 1 + 1 .. Len(events_) :
          /\ j \in 0 + 1 .. Len(events_)
          /\ \A k \in 0 + 1 .. j - 1 : k = 1 \/ k \in 1 + 1 .. j - 1
    OBVIOUS
  <2>2. \A k \in 0 + 1 .. Len(events_) : k = 1 \/ k \in 1 + 1 .. Len(events_)
    OBVIOUS
  <2>3. QED
    BY <1>2, <2>1, <2>2 DEF GoesOn
<1>3. QED
  BY <1>1, <1>2

\* Taking the first action on c begins what the stream goes on from.
LEMMA StreamPops ==
  ASSUME TypeInv, TypeInv', NEW c \in Channels, StreamInv(c), PopEvent
  PROVE  StreamInv(c)'
<1>1. /\ Popped /\ Len(events_') = Len(events_) - 1 /\ Len(events_) >= 1 /\ Len(events_) \in Nat
      /\ handling' = events_[1] /\ IsEvent(events_[1])
      /\ \A i \in 1 .. Len(events_') :
           /\ i + 1 \in 1 .. Len(events_) /\ events_'[i] = events_[i + 1]
           /\ On(c, i)' <=> On(c, i + 1)
  BY EventPopped DEF Popped, TypeInv, EventsTyped, On
<1>2. /\ producer = "pop" /\ producer' = AfterPop(handling') /\ UNCHANGED <<streams_, vm, expected>>
      /\ handling = NoEvent
  BY DEF PopEvent, ghostVars, TypeInv, HandlingFits
<1>3. ~Holds(c) /\ (Holds(c)' <=> On(c, 1)) /\ Clearing(c)' = Clearing(c)
  <2>1. ~Holds(c) /\ Clearing(c)' = Clearing(c)
    BY <1>2 DEF Holds, Clearing
  <2>2. producer' = AfterPop(events_[1])
    BY <1>1, <1>2
  <2>3. producer' \in {"handle", "take_params"} <=> events_[1].event # "Step"
    BY <2>2 DEF AfterPop, IsUpdate, UpdateEvents
  <2>4. QED
    BY <1>1, <2>1, <2>3 DEF Holds, On, EventOn
<1>4. Chained(c)'
  <2> SUFFICES ASSUME NEW i \in 1 .. Len(events_'), On(c, i)'
               PROVE  GoesOn(c, i, events_[i].after)' /\ Effects(events_[i])'
    BY DEF Chained
  <2>1. GoesOn(c, i + 1, events_[i + 1].after) /\ Effects(events_[i + 1])
    BY <1>1 DEF StreamInv, Chained
  <2>2. \A left : left = events_[i + 1].after => GoesOn(c, i, left)'
    BY <1>1, <1>2, <2>1, GoesOnShifts
  <2>3. QED
    BY <1>1, <2>1, <2>2 DEF GoesOn, Effects
<1>5. Clearing(c) => ~Pending(c)
  BY DEF StreamInv
<1>6. CASE On(c, 1)
  <2>1. Pending(c)
    BY <1>1, <1>6, PendingOn
  <2>2. ~Clearing(c) /\ Settled(c) = streams_[c]
    BY <1>3, <1>5, <2>1 DEF Settled
  <2>3. events_[1].before = streams_[c]
    BY <1>1, <1>6, <2>2, GoesOnFirst DEF StreamInv
  <2>4. GoesOn(c, 1, events_[1].after) /\ Effects(events_[1])
    BY <1>1, <1>6 DEF StreamInv, Chained
  <2>5. Settled(c)' = events_[1].after
    BY <1>1, <1>3, <1>6 DEF Settled
  <2>6. \A left : left = events_[1].after => GoesOn(c, 0, left)'
    BY <1>1, <1>2, <2>4, GoesOnShifts
  <2>7. GoesOn(c, 0, Settled(c))'
    BY <2>5, <2>6 DEF GoesOn
  <2>8. Held(c)'
    BY <1>1, <1>2, <2>3, <2>4 DEF Held, Effects
  <2>9. QED
    BY <1>3, <1>4, <2>2, <2>7, <2>8 DEF StreamInv
<1>7. CASE ~On(c, 1)
  <2>1. Settled(c)' = Settled(c)
    BY <1>2, <1>3, <1>7 DEF Settled
  <2>2. \A left : left = Settled(c) => GoesOn(c, 1, left)
    BY <1>1, <1>7, GoesOnFirst DEF StreamInv
  <2>3. \A left : left = Settled(c) => GoesOn(c, 0, left)'
    BY <1>1, <1>2, <2>2, GoesOnShifts
  <2>4. GoesOn(c, 0, Settled(c))'
    BY <2>1, <2>3 DEF GoesOn
  <2>5. Held(c)'
    BY <1>3, <1>7 DEF Held
  <2>6. Pending(c)' => Pending(c)
    BY <1>1, <1>7, SequenceLength DEF Pending, On, EventOn, TypeInv, EventsTyped
  <2>7. QED
    BY <1>3, <1>4, <1>5, <2>4, <2>5, <2>6 DEF StreamInv
<1>8. QED
  BY <1>6, <1>7

\* Carrying out an action makes of the stream what the call did.
LEMMA StreamHandles ==
  ASSUME TypeInv, ParamsInv, ~raced, NEW c \in Channels, StreamInv(c), Handle \/ TakeParams
  PROVE  StreamInv(c)'
<1>1. /\ UNCHANGED <<events_, vm, expected>> /\ producer' \in {"loop", "pop_params"}
      /\ producer \in {"handle", "take_params"}
      /\ handling' \in {handling, NoEvent}
  BY DEF Handle, TakeParams, HandlerDone, queueVars, ghostVars
<1>2. ~Holds(c)' /\ Clearing(c)' = Clearing(c)
  BY <1>1 DEF Holds, Clearing
<1>3. streams_ = [d \in Channels |-> streams_[d]] /\ handling.channel \in Channels
  BY <1>1 DEF TypeInv, StreamsTyped, HandlingFits, IsEvent, IsUpdate, ChannelEvents, UpdateEvents
<1>4. \E after : /\ streams_' = [streams_ EXCEPT ![handling.channel] = after]
                 /\ Holds(c) => after = handling.after
  <2>1. CASE Handle
    <3>1. /\ streams_' = [streams_ EXCEPT ![handling.channel]
                            = Handled(handling.event, streams_[handling.channel])]
          /\ producer = "handle"
      BY <2>1 DEF Handle
    <3>2. Holds(c) => handling.after = Handled(handling.event, streams_[handling.channel])
      BY <3>1 DEF StreamInv, Held, Holds, Effects, TypeInv, HandlingFits
    <3>3. QED
      BY <3>1, <3>2
  <2>2. CASE TakeParams
    <3> DEFINE params == param_updates_[1].params
    <3>1. Paired /\ Taking
      BY <2>2 DEF ParamsInv, TakeParams, Taking
    <3>2. param_updates_ # <<>> /\ Belongs(handling, params)
      BY <3>1, FirstParams DEF ParamsInv
    <3>3. Head(param_updates_) = param_updates_[1]
      BY <3>2, Tailed DEF TypeInv, ParamsTyped
    <3>4. streams_' = [streams_ EXCEPT ![params.channel]
                         = reload(streams_[params.channel], params)]
      BY <2>2, <3>2, <3>3 DEF TakeParams
    <3>5. handling.channel = params.channel /\ handling.after = reload(handling.before, params)
      BY <3>2 DEF Belongs
    <3>6. Holds(c) => handling.after = reload(streams_[params.channel], params)
      BY <3>5 DEF StreamInv, Held, Holds
    <3> HIDE DEF params
    <3>7. QED
      BY <3>4, <3>5, <3>6
  <2>3. QED
    BY <2>1, <2>2
<1>5. ASSUME Clearing(c)
      PROVE  ~Pending(c) /\ ~Pending(c)' /\ ~Holds(c)
  <2>1. ~Pending(c)
    BY <1>5 DEF StreamInv
  <2>2. QED
    BY <1>1, <2>1, PendingOn DEF Pending, NoEvent
<1>6. Settled(c)' = Settled(c)
  <2>1. CASE Holds(c)
    <3>1. ~Clearing(c)' /\ streams_'[c] = handling.after
      BY <1>2, <1>3, <1>4, <1>5, <2>1 DEF Holds
    <3>2. QED
      BY <1>2, <2>1, <3>1 DEF Settled
  <2>2. CASE ~Holds(c)
    <3>1. streams_'[c] = streams_[c]
      BY <1>1, <1>3, <1>4, <2>2 DEF Holds
    <3>2. QED
      BY <1>2, <2>2, <3>1 DEF Settled
  <2>3. QED
    BY <2>1, <2>2
<1>7. QED
  BY <1>1, <1>2, <1>5, <1>6, StreamSame

\* set_enabled() comes to its second assignment.
LEMMA StreamCleared ==
  ASSUME TypeInv, NEW c \in Channels, StreamInv(c), CallGoesOn
  PROVE  StreamInv(c)'
<1>1. UNCHANGED <<events_, producer, handling, expected>> /\ vm'.at = "idle"
  BY CallEnded
<1>2. ~Clearing(c)' /\ Holds(c)' = Holds(c)
  BY <1>1 DEF Clearing, Holds
<1>3. CASE Clearing(c)
  <2>1. streams_' = [streams_ EXCEPT ![c].counter = 0]
    BY <1>3 DEF CallGoesOn, StepRelease, PushParams, SetEnabledClears, Clearing
  <2>2. ~Holds(c)
    BY <1>3, PendingOn DEF StreamInv
  <2>3. streams_'[c] = [streams_[c] EXCEPT !.counter = 0]
    BY <2>1 DEF TypeInv, StreamsTyped
  <2>4. Settled(c)' = Settled(c)
    BY <1>2, <1>3, <2>2, <2>3 DEF Settled
  <2>5. QED
    BY <1>1, <1>2, <2>2, <2>4, StreamSame
<1>4. CASE ~Clearing(c)
  <2>1. streams_'[c] = streams_[c]
    BY <1>4 DEF CallGoesOn, StepRelease, PushParams, SetEnabledClears, Clearing, TypeInv,
                StreamsTyped
  <2>2. Settled(c)' = Settled(c)
    BY <1>1, <1>2, <1>4, <2>1 DEF Settled
  <2>3. QED
    BY <1>1, <1>2, <2>1, <2>2, StreamSame
<1>5. QED
  BY <1>3, <1>4

LEMMA StreamsInvStep ==
  TypeInv /\ TypeInv' /\ ParamsInv /\ StreamsInv /\ [Next]_vars => StreamsInv'
<1> SUFFICES ASSUME TypeInv, TypeInv', ParamsInv, StreamsInv, [Next]_vars, ~raced',
                    NEW c \in Channels, c \notin bypassed'
             PROVE  StreamInv(c)'
  BY DEF StreamsInv
<1>1. ~raced
  BY NextMoves DEF Moves, PushParams, PopParams
<1>2. c \notin bypassed
  <2>1. CASE NewCall
    BY <2>1 DEF NewCall, Decrement, SetEnabled, update_parameters, step
  <2>2. QED
    BY <2>1, NextMoves DEF Moves
<1>3. StreamInv(c)
  BY <1>1, <1>2 DEF StreamsInv
<1>4. CASE NewCall
  BY <1>3, <1>4, StreamCall
<1>5. CASE CallGoesOn
  BY <1>3, <1>5, StreamCleared
<1>6. CASE PopEvent
  BY <1>3, <1>6, StreamPops
<1>7. CASE Handle \/ TakeParams
  BY <1>1, <1>3, <1>7, StreamHandles
<1>8. ASSUME UNCHANGED <<events_, streams_, vm, expected>>, ~Holds(c), ~Holds(c)',
             handling' \in {handling, NoEvent}
      PROVE  StreamInv(c)'
  <2>1. Settled(c)' = Settled(c) /\ Clearing(c)' = Clearing(c)
    BY <1>8 DEF Settled, Clearing
  <2>2. Pending(c)' => Pending(c)
    BY <1>8 DEF Pending, NoEvent
  <2>3. Clearing(c) => ~Pending(c)
    BY <1>3 DEF StreamInv
  <2>4. QED
    BY <1>3, <1>8, <2>1, <2>2, <2>3, StreamSame
<1>9. CASE Acquire \/ TestShutdown \/ PopParams \/ ProduceSample \/ ProduceDone
  <2>1. /\ UNCHANGED <<events_, streams_, vm, expected>>
        /\ producer \notin {"handle", "take_params"} /\ producer' \notin {"handle", "take_params"}
        /\ handling' \in {handling, NoEvent}
    BY <1>9 DEF Acquire, TestShutdown, PopParams, ProduceSample, ProduceDone, HandlerDone,
                queueVars, ghostVars
  <2>2. QED
    BY <1>8, <2>1 DEF Holds
<1>10. CASE ~NewCall /\ ~CallGoesOn /\ ~ProducerStep
  <2>1. UNCHANGED <<events_, streams_, vm, expected, producer, handling>>
    BY <1>10, NextMoves DEF Moves, ProducerStep, CallGoesOn, producerVars
  <2>2. /\ Settled(c)' = Settled(c) /\ Clearing(c)' = Clearing(c) /\ Holds(c)' = Holds(c)
        /\ Pending(c)' = Pending(c)
    BY <2>1 DEF Settled, Clearing, Holds, Pending
  <2>3. Clearing(c) => ~Pending(c)
    BY <1>3 DEF StreamInv
  <2>4. QED
    BY <1>3, <2>1, <2>2, <2>3, StreamSame
<1>11. QED
  BY <1>4, <1>5, <1>6, <1>7, <1>9, <1>10 DEF ProducerStep

\* For any channels, parameters and number of calls: as long as no push of parameters
\* has overlapped a pop (raced), once everything queued is handled, each stream that
\* set_enabled() has not hit past its queued actions (bypassed) is what the calls made
\* of it, in their order.
THEOREM AppliedInOrder == Spec => []DrainedInOrder
<1>1. TypeInv /\ StreamsInv => DrainedInOrder
  <2> SUFFICES ASSUME TypeInv, StreamsInv, Drained, ~raced, NEW c \in Channels \ bypassed
               PROVE  streams_[c] = expected[c]
    BY DEF DrainedInOrder
  <2>1. StreamInv(c)
    BY DEF StreamsInv
  <2>2. Len(events_) = 0 /\ vm.at = "idle"
    BY EmptySequence DEF Drained, Idle
  <2>3. ~Holds(c) /\ ~Clearing(c)
    BY <2>2, Holding DEF Drained, Holds, Clearing
  <2>4. Settled(c) = streams_[c]
    BY <2>3 DEF Settled
  <2>5. QED
    BY <2>1, <2>2, <2>4 DEF StreamInv, GoesOn
<1>2. Spec => []StreamsInv
  BY Typed, ParamsKept, StreamsInit, StreamsInvStep, PTL DEF Spec
<1>3. QED
  BY <1>1, <1>2, Typed, PTL

-----------------------------------------------------------------------------
(***************************************************************************)
(* The output                                                              *)
(***************************************************************************)

\* The samples given and those waiting rise, each is one that was produced, and no
\* other is missing than those that were overwritten.
Rising(s) == \A i, j \in 1 .. Len(s) : i < j => s[i] < s[j]

OutputInv ==
  /\ IsSequence(heard) /\ IsSequence(output_buffer_)
  /\ \A i \in 1 .. Len(heard) : heard[i] \in 1 .. produced
  /\ \A i \in 1 .. Len(output_buffer_) : output_buffer_[i] \in 1 .. produced
  /\ Rising(heard) /\ Rising(output_buffer_)
  /\ \A i \in 1 .. Len(heard), j \in 1 .. Len(output_buffer_) : heard[i] < output_buffer_[j]
  /\ overrun \in Nat /\ Len(heard) + Len(output_buffer_) + overrun = produced

LEMMA OutputInit == Init => OutputInv
BY EmptySequence DEF Init, OutputInv, Rising

LEMMA Joined ==
  ASSUME NEW s, NEW t, IsSequence(s), IsSequence(t)
  PROVE  /\ IsSequence(s \o t) /\ Len(s) \in Nat /\ Len(t) \in Nat
         /\ Len(s \o t) = Len(s) + Len(t)
         /\ \A i \in 1 .. Len(s) : (s \o t)[i] = s[i]
         /\ \A i \in Len(s) + 1 .. Len(s) + Len(t) : (s \o t)[i] = t[i - Len(s)]
<1> DEFINE S == {s[i] : i \in DOMAIN s} \cup {t[i] : i \in DOMAIN t}
           u == s \o t
<1>1. s \in Seq(S) /\ t \in Seq(S)
  BY DEF IsSequence
<1>2. /\ u \in Seq(S) /\ Len(s) \in Nat /\ Len(t) \in Nat
      /\ Len(u) = Len(s) + Len(t)
      /\ \A i \in 1 .. Len(s) : u[i] = s[i]
      /\ \A i \in Len(s) + 1 .. Len(s) + Len(t) : u[i] = t[i - Len(s)]
  BY <1>1
<1>3. IsSequence(u)
  BY <1>2, IsOne
<1>4. QED
  BY <1>2, <1>3

LEMMA Cut ==
  ASSUME NEW s, IsSequence(s), NEW m \in 1 .. Len(s) + 1, NEW n \in m - 1 .. Len(s)
  PROVE  /\ IsSequence(SubSeq(s, m, n))
         /\ Len(SubSeq(s, m, n)) = n - m + 1
         /\ \A i \in 1 .. n - m + 1 : SubSeq(s, m, n)[i] = s[i + m - 1]
<1> DEFINE S == {s[i] : i \in DOMAIN s}
           u == SubSeq(s, m, n)
<1>1. s \in Seq(S) /\ Len(s) \in Nat
  BY DEF IsSequence
<1>2. /\ u \in Seq(S) /\ Len(u) = n - m + 1
      /\ \A i \in 1 .. n - m + 1 : u[i] = s[i + m - 1]
  BY SMTT(30), <1>1
<1>3. IsSequence(u)
  BY <1>2, IsOne
<1>4. QED
  BY <1>2, <1>3

LEMMA SmallerOfTwo ==
  ASSUME NEW m \in Nat, NEW n \in Nat
  PROVE  Min({m, n}) \in Nat /\ Min({m, n}) <= m /\ Min({m, n}) <= n
<1>1. \E x \in {m, n} : \A y \in {m, n} : x <= y
  OBVIOUS
<1>2. QED
  BY <1>1 DEF Min

\* A sample is appended, or takes the place of the oldest.
LEMMA OutputProduced ==
  ASSUME TypeInv, OutputInv, ProduceSample
  PROVE  OutputInv'
<1>1. /\ produced \in Nat /\ produced' = produced + 1 /\ UNCHANGED heard
      /\ Len(heard) \in Nat /\ Len(output_buffer_) \in Nat
  BY SequenceLength DEF ProduceSample, TypeInv, CountersTyped, OutputInv
<1>2. overrun \in Nat /\ Len(heard) + Len(output_buffer_) + overrun = produced
  BY DEF OutputInv
<1>3. CASE output_buffer_' = Append(output_buffer_, produced') /\ UNCHANGED overrun
  <2>1. /\ IsSequence(output_buffer_') /\ Len(output_buffer_') = Len(output_buffer_) + 1
        /\ \A i \in 1 .. Len(output_buffer_) : output_buffer_'[i] = output_buffer_[i]
        /\ output_buffer_'[Len(output_buffer_) + 1] = produced + 1
    BY <1>1, <1>3, Appended DEF OutputInv
  <2>2. \A i \in 1 .. Len(output_buffer_') :
          i \in 1 .. Len(output_buffer_) \/ i = Len(output_buffer_) + 1
    BY <1>1, <2>1
  <2>3. \A i \in 1 .. Len(output_buffer_') : output_buffer_'[i] \in 1 .. produced + 1
    BY <1>1, <2>1, <2>2 DEF OutputInv
  <2>4. Rising(output_buffer_')
    <3> SUFFICES ASSUME NEW i \in 1 .. Len(output_buffer_'), NEW j \in 1 .. Len(output_buffer_'),
                        i < j
                 PROVE  output_buffer_'[i] < output_buffer_'[j]
      BY DEF Rising
    <3>1. i \in 1 .. Len(output_buffer_)
      BY <1>1, <2>1
    <3>2. output_buffer_[i] \in 1 .. produced
      BY <3>1 DEF OutputInv
    <3>3. QED
      BY <1>1, <2>1, <2>2, <3>1, <3>2 DEF OutputInv, Rising
  <2>5. \A i \in 1 .. Len(heard), j \in 1 .. Len(output_buffer_') : heard[i] < output_buffer_'[j]
    BY SMTT(30), <1>1, <2>1, <2>2 DEF OutputInv
  <2>6. \A i \in 1 .. Len(heard) : heard[i] \in 1 .. produced + 1
    BY <1>1 DEF OutputInv
  <2>7. overrun' \in Nat /\ Len(heard) + Len(output_buffer_') + overrun' = produced + 1
    BY <1>1, <1>3, <1>2, <2>1
  <2>8. Rising(heard) /\ IsSequence(heard)
    BY DEF OutputInv
  <2>9. QED
    BY <1>1, <2>1, <2>3, <2>4, <2>5, <2>6, <2>7, <2>8 DEF OutputInv, Rising
<1>4. CASE /\ Len(output_buffer_) = OutputCapacity /\ overrun' = overrun + 1
           /\ output_buffer_' = Append(Tail(output_buffer_), produced')
  <2> DEFINE rest == Tail(output_buffer_)
  <2>1. output_buffer_ # <<>>
    BY <1>4, OutputAssumption, SequenceLength DEF OutputInv
  <2>2. /\ IsSequence(rest) /\ Len(rest) = Len(output_buffer_) - 1 /\ Len(rest) \in Nat
        /\ \A i \in 1 .. Len(rest) :
             i + 1 \in 1 .. Len(output_buffer_) /\ rest[i] = output_buffer_[i + 1]
    BY <1>1, <2>1, Tailed DEF OutputInv
  <2>3. /\ IsSequence(output_buffer_') /\ Len(output_buffer_') = Len(rest) + 1
        /\ \A i \in 1 .. Len(rest) : output_buffer_'[i] = rest[i]
        /\ output_buffer_'[Len(rest) + 1] = produced + 1
    BY <1>1, <1>4, <2>2, Appended
  <2> HIDE DEF rest
  <2>4. \A i \in 1 .. Len(rest) : rest[i] \in 1 .. produced
    BY <2>2 DEF OutputInv
  <2>5. \A i, j \in 1 .. Len(rest) : i < j => rest[i] < rest[j]
    <3> SUFFICES ASSUME NEW i \in 1 .. Len(rest), NEW j \in 1 .. Len(rest), i < j
                 PROVE  rest[i] < rest[j]
      OBVIOUS
    <3>1. i + 1 \in 1 .. Len(output_buffer_) /\ j + 1 \in 1 .. Len(output_buffer_) /\ i + 1 < j + 1
      BY <2>2
    <3>2. output_buffer_[i + 1] < output_buffer_[j + 1]
      BY <3>1 DEF OutputInv, Rising
    <3>3. QED
      BY <2>2, <3>2
  <2>6. \A i \in 1 .. Len(heard), j \in 1 .. Len(rest) : heard[i] < rest[j]
    BY <2>2 DEF OutputInv
  <2>7. \A i \in 1 .. Len(output_buffer_') : i \in 1 .. Len(rest) \/ i = Len(rest) + 1
    BY <2>2, <2>3
  <2>8. Rising(output_buffer_')
    <3> SUFFICES ASSUME NEW i \in 1 .. Len(output_buffer_'), NEW j \in 1 .. Len(output_buffer_'),
                        i < j
                 PROVE  output_buffer_'[i] < output_buffer_'[j]
      BY DEF Rising
    <3>1. i \in 1 .. Len(rest)
      BY <2>2, <2>3
    <3>2. rest[i] \in 1 .. produced
      BY <2>4, <3>1
    <3>3. output_buffer_'[i] = rest[i]
      BY <2>3, <3>1
    <3>4. CASE j \in 1 .. Len(rest)
      BY <2>3, <2>5, <3>1, <3>3, <3>4
    <3>5. CASE j = Len(rest) + 1
      BY <1>1, <2>3, <3>2, <3>3, <3>5
    <3>6. QED
      BY <2>7, <3>4, <3>5
  <2>9. \A i \in 1 .. Len(heard), j \in 1 .. Len(output_buffer_') : heard[i] < output_buffer_'[j]
    <3> SUFFICES ASSUME NEW i \in 1 .. Len(heard), NEW j \in 1 .. Len(output_buffer_')
                 PROVE  heard[i] < output_buffer_'[j]
      OBVIOUS
    <3>1. CASE j \in 1 .. Len(rest)
      BY <2>3, <2>6, <3>1
    <3>2. CASE j = Len(rest) + 1
      <4>1. heard[i] \in 1 .. produced
        BY DEF OutputInv
      <4>2. QED
        BY <1>1, <2>3, <3>2, <4>1
    <3>3. QED
      BY <2>7, <3>1, <3>2
  <2>10. \A i \in 1 .. Len(output_buffer_') : output_buffer_'[i] \in 1 .. produced + 1
    BY <1>1, <2>2, <2>3, <2>4, <2>7
  <2>11. \A i \in 1 .. Len(heard) : heard[i] \in 1 .. produced + 1
    BY <1>1 DEF OutputInv
  <2>12. overrun' \in Nat /\ Len(heard) + Len(output_buffer_') + overrun' = produced + 1
    <3>1. /\ Len(output_buffer_') = Len(rest) + 1 /\ Len(rest) = Len(output_buffer_) - 1
          /\ Len(heard) \in Nat /\ Len(output_buffer_) \in Nat /\ overrun' = overrun + 1
      BY <1>1, <1>4, <2>2, <2>3
    <3>2. QED
      BY <1>2, <3>1
  <2>13. Rising(heard) /\ IsSequence(heard)
    BY DEF OutputInv
  <2>14. QED
    BY <1>1, <2>3, <2>8, <2>9, <2>10, <2>11, <2>12, <2>13 DEF OutputInv, Rising
<1>5. QED
  BY <1>3, <1>4 DEF ProduceSample, Output!Enqueue, Output!Overwrite

\* The oldest samples go over to the device.
LEMMA OutputGiven ==
  ASSUME TypeInv, OutputInv, NEW max_len \in RequestLengths, readData(max_len)
  PROVE  OutputInv'
<1> DEFINE taken == Taken(max_len)
           given == SubSeq(output_buffer_, 1, taken)
           n == Len(output_buffer_)
<1>1. /\ n \in Nat /\ Len(heard) \in Nat /\ produced \in Nat
      /\ UNCHANGED <<produced, overrun>>
      /\ heard' = heard \o given
      /\ output_buffer_' = SubSeq(output_buffer_, taken + 1, n)
  BY SequenceLength
     DEF readData, Given, OutputInv, TypeInv, CountersTyped, ghostVars
<1>2. taken \in 0 .. n
  <2>1. Fitting(max_len) \in Nat
    BY OutputAssumption DEF Fitting
  <2>2. Min({n, Fitting(max_len)}) \in Nat /\ Min({n, Fitting(max_len)}) <= n
    BY <1>1, <2>1, SmallerOfTwo
  <2>3. QED
    BY <1>1, <2>2 DEF Taken
<1> HIDE DEF taken
<1>3. /\ IsSequence(given) /\ Len(given) = taken
      /\ \A i \in 1 .. taken : given[i] = output_buffer_[i]
  <2>1. 1 \in 1 .. n + 1 /\ taken \in 1 - 1 .. n
    BY <1>1, <1>2
  <2>2. /\ IsSequence(given) /\ Len(given) = taken - 1 + 1
        /\ \A i \in 1 .. taken - 1 + 1 : given[i] = output_buffer_[i + 1 - 1]
    BY <2>1, Cut DEF OutputInv
  <2>3. taken - 1 + 1 = taken /\ \A i \in 1 .. taken : i + 1 - 1 = i
    BY <1>2
  <2>4. QED
    BY <2>2, <2>3
<1>4. /\ IsSequence(output_buffer_') /\ Len(output_buffer_') = n - taken
      /\ \A i \in 1 .. n - taken : output_buffer_'[i] = output_buffer_[i + taken]
  <2> DEFINE left == SubSeq(output_buffer_, taken + 1, n)
  <2>1. taken + 1 \in 1 .. n + 1 /\ n \in (taken + 1) - 1 .. n
    BY <1>1, <1>2
  <2>2. /\ IsSequence(left) /\ Len(left) = n - (taken + 1) + 1
        /\ \A i \in 1 .. n - (taken + 1) + 1 : left[i] = output_buffer_[i + (taken + 1) - 1]
    BY <2>1, Cut DEF OutputInv
  <2>3. n - (taken + 1) + 1 = n - taken /\ \A i \in 1 .. n - taken : i + (taken + 1) - 1 = i + taken
    BY <1>1, <1>2
  <2>4. QED
    BY <1>1, <2>2, <2>3
<1> HIDE DEF given
<1>5. /\ IsSequence(heard') /\ Len(heard') = Len(heard) + taken
      /\ \A i \in 1 .. Len(heard) : heard'[i] = heard[i]
      /\ \A i \in Len(heard) + 1 .. Len(heard) + taken :
           /\ i - Len(heard) \in 1 .. taken
           /\ heard'[i] = output_buffer_[i - Len(heard)]
  <2>1. IsSequence(heard)
    BY DEF OutputInv
  <2>2. /\ IsSequence(heard \o given) /\ Len(heard \o given) = Len(heard) + taken
        /\ \A i \in 1 .. Len(heard) : (heard \o given)[i] = heard[i]
        /\ \A i \in Len(heard) + 1 .. Len(heard) + taken :
             (heard \o given)[i] = given[i - Len(heard)]
    BY <1>3, <2>1, Joined
  <2>3. \A i \in Len(heard) + 1 .. Len(heard) + taken : i - Len(heard) \in 1 .. taken
    BY <1>1, <1>2
  <2>4. QED
    BY <1>1, <1>3, <2>2, <2>3
<1>6. \A i \in 1 .. n - taken : i + taken \in 1 .. n
  BY <1>1, <1>2
<1>7. \A i \in 1 .. Len(heard') : heard'[i] \in 1 .. produced
  <2> SUFFICES ASSUME NEW i \in 1 .. Len(heard')
               PROVE  heard'[i] \in 1 .. produced
    OBVIOUS
  <2>1. CASE i \in 1 .. Len(heard)
    BY <1>5, <2>1 DEF OutputInv
  <2>2. CASE i \in Len(heard) + 1 .. Len(heard) + taken
    <3>1. i - Len(heard) \in 1 .. n
      BY <1>1, <1>2, <1>5, <2>2
    <3>2. heard'[i] = output_buffer_[i - Len(heard)]
      BY <1>5, <2>2
    <3>3. QED
      BY <3>1, <3>2 DEF OutputInv
  <2>3. i \in 1 .. Len(heard) \/ i \in Len(heard) + 1 .. Len(heard) + taken
    BY <1>1, <1>2, <1>5
  <2>4. QED
    BY <2>1, <2>2, <2>3
<1>8. \A i \in 1 .. Len(output_buffer_') : output_buffer_'[i] \in 1 .. produced
  BY <1>4, <1>6 DEF OutputInv
<1>9. Rising(heard')
  <2> SUFFICES ASSUME NEW i \in 1 .. Len(heard'), NEW j \in 1 .. Len(heard'), i < j
               PROVE  heard'[i] < heard'[j]
    BY DEF Rising
  <2>1. CASE j \in 1 .. Len(heard)
    BY <1>1, <1>5, <2>1 DEF OutputInv, Rising
  <2>2. CASE i \in 1 .. Len(heard) /\ j \in Len(heard) + 1 .. Len(heard) + taken
    <3>1. j - Len(heard) \in 1 .. n
      BY <1>1, <1>2, <2>2
    <3>2. QED
      BY <1>5, <2>2, <3>1 DEF OutputInv
  <2>3. CASE i \in Len(heard) + 1 .. Len(heard) + taken
    <3>1. /\ i - Len(heard) \in 1 .. n /\ j - Len(heard) \in 1 .. n
          /\ i - Len(heard) < j - Len(heard) /\ j \in Len(heard) + 1 .. Len(heard) + taken
      BY <1>1, <1>2, <1>5, <2>3
    <3>2. output_buffer_[i - Len(heard)] < output_buffer_[j - Len(heard)]
      BY <3>1 DEF OutputInv, Rising
    <3>3. QED
      BY <1>5, <2>3, <3>1, <3>2
  <2>4. QED
    BY <1>1, <1>2, <1>5, <2>1, <2>2, <2>3
<1>10. Rising(output_buffer_')
  <2> SUFFICES ASSUME NEW i \in 1 .. n - taken, NEW j \in 1 .. n - taken, i < j
               PROVE  output_buffer_'[i] < output_buffer_'[j]
    BY <1>4 DEF Rising
  <2>1. i + taken \in 1 .. n /\ j + taken \in 1 .. n /\ i + taken < j + taken
    BY <1>1, <1>2, <1>6
  <2>2. output_buffer_[i + taken] < output_buffer_[j + taken]
    BY <2>1 DEF OutputInv, Rising
  <2>3. QED
    BY <1>4, <2>2
<1>11. ASSUME NEW i \in 1 .. Len(heard'), NEW j \in 1 .. n - taken
       PROVE  heard'[i] < output_buffer_'[j]
  <2>1. CASE i \in 1 .. Len(heard)
    BY <1>4, <1>5, <1>6, <2>1 DEF OutputInv
  <2>2. CASE i \in Len(heard) + 1 .. Len(heard) + taken
    <3>1. i - Len(heard) \in 1 .. n /\ j + taken \in 1 .. n /\ i - Len(heard) < j + taken
      BY <1>1, <1>2, <1>5, <1>6, <2>2
    <3>2. output_buffer_[i - Len(heard)] < output_buffer_[j + taken]
      BY <3>1 DEF OutputInv, Rising
    <3>3. QED
      BY <1>4, <1>5, <2>2, <3>2
  <2>3. QED
    BY <1>1, <1>2, <1>5, <2>1, <2>2
<1>12. overrun' \in Nat /\ Len(heard') + Len(output_buffer_') + overrun' = produced'
  <2>1. overrun \in Nat /\ Len(heard) + n + overrun = produced
    BY DEF OutputInv
  <2>2. /\ Len(heard') = Len(heard) + taken /\ Len(output_buffer_') = n - taken
        /\ overrun' = overrun /\ produced' = produced
        /\ Len(heard) \in Nat /\ n \in Nat /\ taken \in Nat
    BY <1>1, <1>2, <1>4, <1>5
  <2> HIDE DEF n
  <2>3. QED
    BY <2>1, <2>2
<1>13. QED
  BY <1>1, <1>4, <1>5, <1>7, <1>8, <1>9, <1>10, <1>11, <1>12 DEF OutputInv, Rising

\* For any capacity and requests: the device is given the samples in their order,
\* and none is missing but those overwritten.
THEOREM HeardRight == Spec => []HeardInOrder
<1>1. TypeInv /\ OutputInv /\ [Next]_vars => OutputInv'
  <2> SUFFICES ASSUME TypeInv, OutputInv, [Next]_vars
               PROVE  OutputInv'
    OBVIOUS
  <2>1. CASE UNCHANGED outputVars /\ UNCHANGED produced
    BY <2>1 DEF outputVars, OutputInv, Rising
  <2>2. QED
    BY <2>1, NextMoves, OutputProduced, OutputGiven DEF Moves
<1>2. TypeInv /\ OutputInv => HeardInOrder
  <2> SUFFICES ASSUME TypeInv, OutputInv
               PROVE  HeardInOrder
    OBVIOUS
  <2> DEFINE known == heard \o output_buffer_
             h == Len(heard)
             n == Len(output_buffer_)
  <2>1. /\ IsSequence(known) /\ h \in Nat /\ n \in Nat /\ Len(known) = h + n
        /\ \A i \in 1 .. h : known[i] = heard[i]
        /\ \A i \in h + 1 .. h + n : known[i] = output_buffer_[i - h]
    BY Joined DEF OutputInv
  <2>2. DOMAIN known = 1 .. h + n
    BY <2>1, SequenceLength
  <2> HIDE DEF known
  <2>3. ASSUME NEW i \in 1 .. h + n, NEW j \in 1 .. h + n, i < j
        PROVE  known[i] < known[j]
    <3>1. CASE j \in 1 .. h
      BY <2>1, <2>3, <3>1 DEF OutputInv, Rising
    <3>2. CASE i \in 1 .. h /\ j \in h + 1 .. h + n
      <4>1. j - h \in 1 .. n
        BY <2>1, <3>2
      <4>2. QED
        BY <2>1, <3>2, <4>1 DEF OutputInv
    <3>3. CASE i \in h + 1 .. h + n
      <4>1. i - h \in 1 .. n /\ j - h \in 1 .. n /\ i - h < j - h /\ j \in h + 1 .. h + n
        BY <2>1, <2>3, <3>3
      <4>2. output_buffer_[i - h] < output_buffer_[j - h]
        BY <4>1 DEF OutputInv, Rising
      <4>3. QED
        BY <2>1, <3>3, <4>1, <4>2
    <3>4. QED
      BY <2>1, <3>1, <3>2, <3>3
  <2>4. Len(known) + overrun = produced
    BY <2>1 DEF OutputInv
  <2>5. QED
    BY <2>2, <2>3, <2>4 DEF HeardInOrder, known
<1>3. QED
  BY <1>1, <1>2, Typed, OutputInit, PTL DEF Spec

=============================================================================
