--------------------------- MODULE CircularBuffer ---------------------------
(***************************************************************************)
(* CircularBuffer<T> of lib/utils.hpp: a vector of Size slots, the index   *)
(* of the oldest value, the index of the slot to write next, and a flag    *)
(* that tells apart the two meanings of "the indices are equal".  Push     *)
(* raises the flag when the indices meet and then moves head_ on, so that  *)
(* with two slots or more a full buffer is one slot short of Size.         *)
(***************************************************************************)
EXTENDS Naturals, Sequences

CONSTANTS
  Size,      \* buffer_.size()
  Values,    \* the values of T
  NoValue    \* a slot never written; the outcome of the pop that throws

ASSUME SizeAssumption == Size \in Nat \ {0}
ASSUME NoValueAssumption == NoValue \notin Values

VARIABLES
  buffer_,   \* the slots
  head_,     \* index of the oldest value
  tail_,     \* index of the slot the next push writes
  full_,     \* the latest push made the indices meet, and nothing was popped since
  result     \* what the latest pop() returned, NoValue if it threw

vars == <<buffer_, head_, tail_, full_, result>>

Slots == 0 .. Size - 1

Following(index) == (index + 1) % Size

Init ==
  /\ buffer_ = [slot \in Slots |-> NoValue]
  /\ head_ = 0
  /\ tail_ = 0
  /\ full_ = FALSE
  /\ result = NoValue

is_empty == ~full_ /\ head_ = tail_

\* Defect: the index is moved before the slot is written.
pushPastTail(value) ==
  /\ buffer_' = [buffer_ EXCEPT ![Following(tail_)] = value]
  /\ tail_' = Following(tail_)
  /\ full_' = (tail_' = head_)
  /\ head_' = IF full_' THEN Following(head_) ELSE head_
  /\ UNCHANGED result

push(value) ==
  /\ buffer_' = [buffer_ EXCEPT ![tail_] = value]
  /\ tail_' = Following(tail_)
  /\ full_' = (tail_' = head_)
  /\ head_' = IF full_' THEN Following(head_) ELSE head_
  /\ UNCHANGED result

\* Defect: a pop leaves the flag as it was.
popKeepsFull ==
  /\ ~is_empty
  /\ result' = buffer_[head_]
  /\ head_' = Following(head_)
  /\ UNCHANGED <<buffer_, tail_, full_>>

\* Defect: a pop takes the newest value.
popNewest ==
  /\ ~is_empty
  /\ result' = buffer_[IF tail_ = 0 THEN Size - 1 ELSE tail_ - 1]
  /\ head_' = Following(head_)
  /\ full_' = FALSE
  /\ UNCHANGED <<buffer_, tail_>>

pop ==
  /\ ~is_empty
  /\ result' = buffer_[head_]
  /\ head_' = Following(head_)
  /\ full_' = FALSE
  /\ UNCHANGED <<buffer_, tail_>>

\* pop() of an empty buffer throws before it changes anything.
popThrows ==
  /\ is_empty
  /\ result' = NoValue
  /\ UNCHANGED <<buffer_, head_, tail_, full_>>

Next ==
  \/ \E value \in Values : push(value)
  \/ pop
  \/ popThrows

Spec == Init /\ [][Next]_vars

-----------------------------------------------------------------------------
(* How many values the buffer holds, and which. *)

Count ==
  IF Size = 1
  THEN IF full_ THEN 1 ELSE 0
  ELSE IF head_ <= tail_ THEN tail_ - head_ ELSE tail_ + Size - head_

Slot(i) == IF head_ + i - 1 < Size THEN head_ + i - 1 ELSE head_ + i - 1 - Size

Contents == [i \in 1 .. Count |-> buffer_[Slot(i)]]

\* One slot is lost to the "full" encoding, unless there is only one.
Capacity == IF Size = 1 THEN 1 ELSE Size - 1

-----------------------------------------------------------------------------
(* Properties. *)

\* Every variable stays in its range: the indices never leave the vector.
TypeOK ==
  /\ buffer_ \in [Slots -> Values \cup {NoValue}]
  /\ head_ \in Slots
  /\ tail_ \in Slots
  /\ full_ \in BOOLEAN
  /\ result \in Values \cup {NoValue}

\* push() and pop() never expose a slot nobody wrote: every slot from head_ up
\* to tail_ was pushed, so readData never plays the vector's initial zeros.
LiveSlotsWritten == \A i \in 1 .. Count : buffer_[Slot(i)] \in Values

FlagRaisedAtCapacity == full_ => Count = Capacity

\* The flag and the two indices together say how many values the buffer holds:
\* push() raises the flag only at capacity, and is_empty(), on which pop()
\* throws, is true exactly when no value is held.  (The flag is not raised by
\* the push that fills the last slot without head_ meeting tail_.)
FullIsAtCapacity == FlagRaisedAtCapacity /\ (is_empty <=> Count = 0)

\* The class implements "overwrite the oldest data" (lib/utils.hpp:47): every
\* pop returns the oldest value not yet popped or overwritten, in the order
\* of the pushes, and a value is overwritten only when Capacity are held.
Promise == INSTANCE DropOldestQueue WITH queue <- Contents
ImplementsDropOldest == Promise!Spec
=============================================================================
