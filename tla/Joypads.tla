------------------------------- MODULE Joypads -------------------------------
(***************************************************************************)
(* The joypad port: while the program holds the strobe up, the buttons are *)
(* sampled again at every cycle of the processor; once it is down, a read  *)
(* hands out one sample.  The buttons change at any time, also while they  *)
(* are being sampled.                                                      *)
(***************************************************************************)
EXTENDS Integers, Sequences

CONSTANT ButtonStates    \* the sets of buttons that may be down together

Button == <<"A", "B", "Select", "Start", "Up", "Down", "Left", "Right">>

\* How many reads are told apart: all buttons and two more.
MaxReads == Len(Button) + 2

VARIABLES
  joypad_1_data_,      \* what the program stored at JOYPAD1
  strobe_bit_,
  joypad_1_snapshot_,  \* the samples that were not read
  pressed,             \* the buttons that is_button_pressed() finds down
  held,                \* history: the sets of buttons down while the strobe was up
  returned             \* history: what was read since the strobe was raised

joypad_vars ==
  <<joypad_1_data_, strobe_bit_, joypad_1_snapshot_, pressed, held, returned>>

is_button_pressed(button, down) == button \in down

JoypadsInit ==
  /\ joypad_1_data_ = 0
  /\ strobe_bit_ = FALSE
  /\ joypad_1_snapshot_ = <<>>
  /\ pressed \in ButtonStates
  /\ held = {}
  /\ returned = <<>>

\* The player, or an agent, presses and releases.
Press ==
  /\ pressed' \in ButtonStates
  /\ held' = IF joypad_1_data_ # 0 THEN held \cup {pressed'} ELSE held
  /\ UNCHANGED <<joypad_1_data_, strobe_bit_, joypad_1_snapshot_, returned>>

\* The first buttons are asked before a change, the others after it.
Sampled(asked, before, after) ==
  [k \in DOMAIN Button |-> is_button_pressed(Button[k], IF k <= asked THEN before ELSE after)]

\* Defect: the old samples stay in the queue.
SampleKeepsOld ==
  \E asked \in 0 .. Len(Button), now \in ButtonStates :
    /\ joypad_1_snapshot_' = SubSeq(joypad_1_snapshot_ \o Sampled(asked, pressed, now), 1, 8)
    /\ pressed' = now
    /\ held' = held \cup {now}

Sample ==
  \E asked \in 0 .. Len(Button), now \in ButtonStates :
    /\ joypad_1_snapshot_' = Sampled(asked, pressed, now)
    /\ pressed' = now
    /\ held' = held \cup {now}

\* Joypads::step(), before each step of the processor.
step ==
  /\ strobe_bit_' = (joypad_1_data_ # 0)
  /\ \/ joypad_1_data_ # 0 /\ Sample
     \/ joypad_1_data_ = 0 /\ UNCHANGED <<joypad_1_snapshot_, pressed, held>>
  /\ UNCHANGED <<joypad_1_data_, returned>>

\* The data line while the strobe is up is the state of A; nothing is taken.
ReadLive ==
  /\ strobe_bit_
  /\ UNCHANGED joypad_vars

ReadSample ==
  /\ ~strobe_bit_
  /\ joypad_1_snapshot_ # <<>>
  /\ joypad_1_snapshot_' = Tail(joypad_1_snapshot_)
  /\ returned' = Append(returned, Head(joypad_1_snapshot_))
  /\ UNCHANGED <<joypad_1_data_, strobe_bit_, pressed, held>>

ReadEmpty ==
  /\ ~strobe_bit_
  /\ joypad_1_snapshot_ = <<>>
  /\ returned' = Append(returned, TRUE)
  /\ UNCHANGED <<joypad_1_data_, strobe_bit_, joypad_1_snapshot_, pressed, held>>

read_joypad_1_callback ==
  /\ Len(returned) < MaxReads
  /\ ReadLive \/ ReadSample \/ ReadEmpty

write_joypad(v) ==
  /\ joypad_1_data_' = v
  /\ IF joypad_1_data_ = 0 /\ v # 0
     THEN held' = {pressed} /\ returned' = <<>>
     ELSE UNCHANGED <<held, returned>>
  /\ UNCHANGED <<strobe_bit_, joypad_1_snapshot_, pressed>>

-----------------------------------------------------------------------------
\* Once the strobe is down, the k-th read tells a state that the k-th button had
\* while the strobe was up, however the buttons change and however long the strobe
\* takes, and from the ninth read on one ("the order the buttons are returned",
\* joypads.hpp:13).  Before the first strobe every read tells one.
ReadsInButtonOrder ==
  \A k \in DOMAIN returned :
    IF k > Len(Button) \/ held = {} THEN returned[k]
    ELSE \E down \in held : returned[k] = is_button_pressed(Button[k], down)
=============================================================================
