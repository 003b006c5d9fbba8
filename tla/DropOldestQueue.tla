--------------------------- MODULE DropOldestQueue ---------------------------
(***************************************************************************)
(* What lib/utils.hpp's CircularBuffer promises to its two users (the      *)
(* audio producer thread pushes, the Qt audio thread pops): a FIFO of at   *)
(* most Capacity values in which a push into a full queue drops the oldest *)
(* value and a pop of an empty queue fails and changes nothing.            *)
(***************************************************************************)
EXTENDS Naturals, Sequences

CONSTANTS
  Capacity,  \* how many values the queue holds
  Values,    \* what can be pushed
  NoValue    \* the outcome of a failed pop

VARIABLES
  queue,     \* the values pushed, not yet popped and not dropped, oldest first
  result     \* the outcome of the latest pop

vars == <<queue, result>>

Init ==
  /\ queue = <<>>
  /\ result = NoValue

\* push(value) while there is room.
Enqueue(value) ==
  /\ Len(queue) < Capacity
  /\ queue' = Append(queue, value)
  /\ UNCHANGED result

\* push(value) into a full queue: the oldest value gives its place.
Overwrite(value) ==
  /\ Len(queue) = Capacity
  /\ queue' = Append(Tail(queue), value)
  /\ UNCHANGED result

\* pop() of a queue that holds something.
Dequeue ==
  /\ queue # <<>>
  /\ result' = Head(queue)
  /\ queue' = Tail(queue)

\* pop() of an empty queue.
Fail ==
  /\ queue = <<>>
  /\ result' = NoValue
  /\ UNCHANGED queue

Next ==
  \/ \E value \in Values : Enqueue(value) \/ Overwrite(value)
  \/ Dequeue
  \/ Fail

Spec == Init /\ [][Next]_vars
=============================================================================
