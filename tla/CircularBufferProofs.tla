------------------------ MODULE CircularBufferProofs ------------------------
(***************************************************************************)
(* CircularBuffer keeps its slots and its flag straight, and implements    *)
(* DropOldestQueue, for every number of slots and every set of values.     *)
(* The argument rests on how push and pop move the window of live slots:   *)
(* Slot(i) is the place of the i-th oldest value.                          *)
(***************************************************************************)
EXTENDS CircularBuffer, SequenceTheorems, TLAPS

\* The index arithmetic of push() and pop(): one up, and from the last slot
\* back to the first.
LEMMA FollowingIndex ==
  ASSUME NEW index \in Slots
  PROVE  /\ Following(index) = IF index = Size - 1 THEN 0 ELSE index + 1
         /\ Following(index) \in Slots
<1>1. CASE index = Size - 1
  <2>1. (index + 1) % Size = Size % Size
    BY <1>1, SizeAssumption
  <2>2. Size % Size = 0
    BY SizeAssumption
  <2>3. QED
    BY <1>1, <2>1, <2>2, SizeAssumption DEF Following, Slots
<1>2. CASE index # Size - 1
  <2>1. index + 1 \in 0 .. Size - 1
    BY <1>2, SizeAssumption DEF Slots
  <2>2. (index + 1) % Size = index + 1
    BY <2>1, SizeAssumption
  <2>3. QED
    BY <1>2, <2>1, <2>2 DEF Following, Slots
<1>3. QED
  BY <1>1, <1>2

\* Every variable of the buffer stays in its range (TypeOK).
THEOREM TypeCorrect == Spec => []TypeOK
<1>1. Init => TypeOK
  <2> SUFFICES ASSUME Init
               PROVE  TypeOK
    OBVIOUS
  <2>1. 0 \in Slots
    BY SizeAssumption DEF Slots
  <2>2. QED
    BY <2>1 DEF Init, TypeOK
<1>2. TypeOK /\ [Next]_vars => TypeOK'
  <2> SUFFICES ASSUME TypeOK, [Next]_vars
               PROVE  TypeOK'
    OBVIOUS
  <2>1. ASSUME NEW value \in Values, push(value)
        PROVE  TypeOK'
    <3>1. Following(tail_) \in Slots /\ Following(head_) \in Slots
      BY FollowingIndex DEF TypeOK
    <3>2. QED
      BY <2>1, <3>1 DEF TypeOK, push
  <2>2. CASE pop
    <3>1. Following(head_) \in Slots
      BY FollowingIndex DEF TypeOK
    <3>2. QED
      BY <2>2, <3>1 DEF TypeOK, pop
  <2>3. CASE popThrows
    BY <2>3 DEF TypeOK, popThrows
  <2>4. CASE UNCHANGED vars
    BY <2>4 DEF TypeOK, vars
  <2>5. QED
    BY <2>1, <2>2, <2>3, <2>4 DEF Next
<1>3. QED
  BY <1>1, <1>2, PTL DEF Spec

-----------------------------------------------------------------------------
(* The window of live slots. *)

\* The window fits: its size is within the capacity, its slots are slots, no
\* two of its places share one, and an empty window is what is_empty() says.
LEMMA Window ==
  ASSUME TypeOK, FlagRaisedAtCapacity
  PROVE  /\ Count \in 0 .. Capacity
         /\ \A i \in 1 .. Count : Slot(i) \in Slots
         /\ is_empty <=> Count = 0
         /\ Count > 0 => Slot(1) = head_
<1> USE SizeAssumption DEF TypeOK, FlagRaisedAtCapacity, Count, Capacity, Slot, Slots, is_empty
<1>1. CASE Size = 1
  BY <1>1
<1>2. CASE Size # 1
  BY <1>2
<1>3. QED
  BY <1>1, <1>2

\* A push below capacity adds the slot it writes at the young end.
LEMMA PushAdds ==
  ASSUME TypeOK, FlagRaisedAtCapacity, NEW value \in Values, push(value),
         Count < Capacity
  PROVE  /\ Count' = Count + 1
         /\ head_' = head_ \/ Size = 1
         /\ \A i \in 1 .. Count : Slot(i)' = Slot(i) /\ Slot(i) # tail_
         /\ Slot(Count)' = tail_
<1>1. /\ tail_' = IF tail_ = Size - 1 THEN 0 ELSE tail_ + 1
      /\ head_' = IF tail_' = head_
                  THEN IF head_ = Size - 1 THEN 0 ELSE head_ + 1
                  ELSE head_
      /\ full_' = (tail_' = head_) /\ full_ \in BOOLEAN
      /\ head_ \in 0 .. Size - 1 /\ tail_ \in 0 .. Size - 1
  BY FollowingIndex DEF push, TypeOK, Slots
<1> USE SizeAssumption, <1>1 DEF FlagRaisedAtCapacity, Count, Capacity, Slot
<1>2. CASE Size = 1
  <2>1. tail_ = 0 /\ head_ = 0 /\ tail_' = 0
    BY <1>2
  <2>2. ~full_
    BY <1>2
  <2>3. full_'
    BY <2>1
  <2>4. QED
    BY <1>2, <2>1, <2>2, <2>3
<1>3. CASE Size # 1
  <2>1. Count = Size - 1 <=> tail_' = head_
    BY <1>3
  <2>2. tail_' # head_ /\ head_' = head_
    BY <1>3, <2>1
  <2>3. Count' = Count + 1
    BY <1>3, <2>2
  <2>4. \A i \in 1 .. Count : Slot(i)' = Slot(i) /\ Slot(i) # tail_
    BY <1>3, <2>2
  <2>5. Slot(Count)' = tail_
    BY <1>3, <2>2
  <2>6. QED
    BY <2>2, <2>3, <2>4, <2>5
<1>4. QED
  BY <1>2, <1>3

\* A push at capacity moves the whole window on by one slot.
LEMMA PushShifts ==
  ASSUME TypeOK, FlagRaisedAtCapacity, NEW value \in Values, push(value),
         Count = Capacity
  PROVE  /\ Count' = Count
         /\ \A i \in 1 .. Count - 1 : Slot(i)' = Slot(i + 1) /\ Slot(i + 1) # tail_
         /\ Slot(Count)' = tail_
<1>1. /\ tail_' = IF tail_ = Size - 1 THEN 0 ELSE tail_ + 1
      /\ head_' = IF tail_' = head_
                  THEN IF head_ = Size - 1 THEN 0 ELSE head_ + 1
                  ELSE head_
      /\ full_' = (tail_' = head_) /\ full_ \in BOOLEAN
      /\ head_ \in 0 .. Size - 1 /\ tail_ \in 0 .. Size - 1
  BY FollowingIndex DEF push, TypeOK, Slots
<1> USE SizeAssumption, <1>1 DEF FlagRaisedAtCapacity, Count, Capacity, Slot
<1>2. CASE Size = 1
  <2>1. full_' = TRUE
    BY <1>2
  <2>2. QED
    BY <1>2, <2>1
<1>3. CASE Size # 1
  <2>1. Count = Size - 1 <=> tail_' = head_
    BY <1>3
  <2>2. tail_' = head_ /\ head_' = IF head_ = Size - 1 THEN 0 ELSE head_ + 1
    BY <1>3, <2>1
  <2>3. Count' = Count
    BY <1>3, <2>2
  <2>4. \A i \in 1 .. Count - 1 : Slot(i)' = Slot(i + 1) /\ Slot(i + 1) # tail_
    BY <1>3, <2>2
  <2>5. Slot(Count)' = tail_
    BY <1>3, <2>2
  <2>6. QED
    BY <2>3, <2>4, <2>5
<1>4. QED
  BY <1>2, <1>3

\* A pop takes the old end of the window away.
LEMMA PopRemoves ==
  ASSUME TypeOK, FlagRaisedAtCapacity, pop
  PROVE  /\ Count > 0
         /\ Count' = Count - 1
         /\ \A i \in 1 .. Count - 1 : Slot(i)' = Slot(i + 1)
<1>1. /\ head_' = IF head_ = Size - 1 THEN 0 ELSE head_ + 1
      /\ full_' = FALSE
      /\ tail_' = tail_
      /\ head_ \in 0 .. Size - 1 /\ tail_ \in 0 .. Size - 1
      /\ ~is_empty
  BY FollowingIndex DEF pop, TypeOK, Slots
<1> USE SizeAssumption, <1>1 DEF FlagRaisedAtCapacity, Count, Capacity, Slot, is_empty
<1>2. CASE Size = 1
  BY <1>2
<1>3. CASE Size # 1
  BY <1>3
<1>4. QED
  BY <1>2, <1>3

-----------------------------------------------------------------------------
(* The flag and the live slots. *)

\* The flag is raised only on a buffer at capacity.
LEMMA FlagRaised == Spec => []FlagRaisedAtCapacity
<1>1. Init => FlagRaisedAtCapacity
  BY DEF Init, FlagRaisedAtCapacity
<1>2. TypeOK /\ FlagRaisedAtCapacity /\ [Next]_vars => FlagRaisedAtCapacity'
  <2> SUFFICES ASSUME TypeOK, FlagRaisedAtCapacity, [Next]_vars
               PROVE  FlagRaisedAtCapacity'
    OBVIOUS
  <2>1. ASSUME NEW value \in Values, push(value)
        PROVE  FlagRaisedAtCapacity'
    <3>1. /\ tail_' = IF tail_ = Size - 1 THEN 0 ELSE tail_ + 1
          /\ head_' = IF tail_' = head_
                      THEN IF head_ = Size - 1 THEN 0 ELSE head_ + 1
                      ELSE head_
          /\ full_' <=> tail_' = head_
          /\ head_ \in 0 .. Size - 1 /\ tail_ \in 0 .. Size - 1
      BY <2>1, FollowingIndex DEF push, TypeOK, Slots
    <3>2. QED
      BY <3>1, SizeAssumption DEF FlagRaisedAtCapacity, Count, Capacity
  <2>2. CASE pop
    BY <2>2 DEF pop, FlagRaisedAtCapacity
  <2>3. CASE popThrows
    BY <2>3 DEF popThrows, FlagRaisedAtCapacity, Count, Capacity
  <2>4. CASE UNCHANGED vars
    BY <2>4 DEF vars, FlagRaisedAtCapacity, Count, Capacity
  <2>5. QED
    BY <2>1, <2>2, <2>3, <2>4 DEF Next
<1>3. QED
  BY <1>1, <1>2, TypeCorrect, PTL DEF Spec

\* The flag is raised only on a buffer at capacity, and is_empty() tells an
\* empty buffer from every other, full ones included (FullIsAtCapacity).
THEOREM FlagCorrect == Spec => []FullIsAtCapacity
<1>1. TypeOK /\ FlagRaisedAtCapacity => FullIsAtCapacity
  BY Window DEF FullIsAtCapacity
<1>2. QED
  BY <1>1, TypeCorrect, FlagRaised, PTL

\* Every slot push() and pop() treat as live was pushed (LiveSlotsWritten).
THEOREM LiveSlotsCorrect == Spec => []LiveSlotsWritten
<1>1. Init => LiveSlotsWritten
  BY SizeAssumption DEF Init, LiveSlotsWritten, Count
<1>2. TypeOK /\ FlagRaisedAtCapacity /\ LiveSlotsWritten /\ [Next]_vars => LiveSlotsWritten'
  <2> SUFFICES ASSUME TypeOK, FlagRaisedAtCapacity, LiveSlotsWritten, [Next]_vars
               PROVE  LiveSlotsWritten'
    OBVIOUS
  <2>0. /\ Count \in 0 .. Capacity
        /\ \A i \in 1 .. Count : Slot(i) \in Slots /\ buffer_[Slot(i)] \in Values
        /\ Capacity \in Nat
    BY Window, SizeAssumption DEF LiveSlotsWritten, Capacity
  <2>1. ASSUME NEW value \in Values, push(value)
        PROVE  LiveSlotsWritten'
    <3>1. /\ buffer_' = [buffer_ EXCEPT ![tail_] = value]
          /\ buffer_ \in [Slots -> Values \cup {NoValue}]
          /\ tail_ \in Slots
      BY <2>1 DEF push, TypeOK
    <3>2. CASE Count < Capacity
      <4>1. /\ Count' = Count + 1
            /\ \A i \in 1 .. Count : Slot(i)' = Slot(i) /\ Slot(i) # tail_
            /\ Slot(Count)' = tail_
        BY <2>1, <3>2, PushAdds
      <4> SUFFICES ASSUME NEW i \in 1 .. Count'
                   PROVE  buffer_'[Slot(i)'] \in Values
        BY DEF LiveSlotsWritten
      <4>2. CASE i = Count'
        BY <3>1, <4>1, <4>2
      <4>3. CASE i # Count'
        <5>1. i \in 1 .. Count
          BY <2>0, <4>1, <4>3
        <5>2. QED
          BY <2>0, <3>1, <4>1, <5>1
      <4>4. QED
        BY <4>2, <4>3
    <3>3. CASE Count = Capacity
      <4>1. /\ Count' = Count
            /\ \A i \in 1 .. Count - 1 : Slot(i)' = Slot(i + 1) /\ Slot(i + 1) # tail_
            /\ Slot(Count)' = tail_
        BY <2>1, <3>3, PushShifts
      <4> SUFFICES ASSUME NEW i \in 1 .. Count'
                   PROVE  buffer_'[Slot(i)'] \in Values
        BY DEF LiveSlotsWritten
      <4>2. CASE i = Count'
        BY <3>1, <4>1, <4>2
      <4>3. CASE i # Count'
        <5>1. i \in 1 .. Count - 1 /\ i + 1 \in 1 .. Count
          BY <2>0, <4>1, <4>3
        <5>2. QED
          BY <2>0, <3>1, <4>1, <5>1
      <4>4. QED
        BY <4>2, <4>3
    <3>4. QED
      BY <2>0, <3>2, <3>3
  <2>2. CASE pop
    <3>1. /\ Count' = Count - 1
          /\ \A i \in 1 .. Count - 1 : Slot(i)' = Slot(i + 1)
          /\ buffer_' = buffer_
      BY <2>2, PopRemoves DEF pop
    <3>2. \A i \in 1 .. Count - 1 : i + 1 \in 1 .. Count
      BY <2>0
    <3>3. QED
      BY <2>0, <3>1, <3>2 DEF LiveSlotsWritten
  <2>3. CASE popThrows
    BY <2>3 DEF popThrows, LiveSlotsWritten, Count, Slot
  <2>4. CASE UNCHANGED vars
    BY <2>4 DEF vars, LiveSlotsWritten, Count, Slot
  <2>5. QED
    BY <2>1, <2>2, <2>3, <2>4 DEF Next
<1>3. QED
  BY <1>1, <1>2, TypeCorrect, FlagRaised, PTL DEF Spec

-----------------------------------------------------------------------------
(* The refinement. *)

\* What the proof of the refinement needs of a state.
Inv == TypeOK /\ FlagRaisedAtCapacity /\ LiveSlotsWritten

\* The abstract queue is a sequence of values, Count long.
ContentsTyped ==
  /\ Contents \in Seq(Values)
  /\ Len(Contents) = Count
  /\ Count \in 0 .. Capacity
  /\ \A i \in 1 .. Count : Contents[i] = buffer_[Slot(i)]

\* Every state of the buffer represents a queue of DropOldestQueue.
LEMMA ContentsType == Inv => ContentsTyped
<1> SUFFICES ASSUME Inv
             PROVE  ContentsTyped
  OBVIOUS
<1>1. Count \in 0 .. Capacity /\ Capacity \in Nat
  BY Window, SizeAssumption DEF Inv, Capacity
<1>2. Contents \in [1 .. Count -> Values]
  BY DEF Contents, Inv, LiveSlotsWritten
<1>3. Contents \in Seq(Values) /\ Len(Contents) = Count
  BY <1>1, <1>2
<1>4. QED
  BY <1>1, <1>3 DEF Contents, ContentsTyped

\* push() appends its value, after dropping the oldest one at capacity.
LEMMA PushRefines ==
  ASSUME Inv, ContentsTyped, ContentsTyped', NEW value \in Values, push(value)
  PROVE  Promise!Enqueue(value) \/ Promise!Overwrite(value)
<1>1. /\ buffer_' = [buffer_ EXCEPT ![tail_] = value]
      /\ buffer_ \in [Slots -> Values \cup {NoValue}]
      /\ tail_ \in Slots
      /\ result' = result
      /\ \A i \in 1 .. Count : Slot(i) \in Slots
      /\ Capacity \in Nat \ {0}
  BY Window, SizeAssumption DEF push, Inv, TypeOK, Capacity
<1>2. CASE Count < Capacity
  <2>1. /\ Count' = Count + 1
        /\ \A i \in 1 .. Count : Slot(i)' = Slot(i) /\ Slot(i) # tail_
        /\ Slot(Count)' = tail_
    BY <1>2, PushAdds DEF Inv
  <2>2. /\ Append(Contents, value) \in Seq(Values)
        /\ Len(Append(Contents, value)) = Count + 1
        /\ Append(Contents, value)[Count + 1] = value
        /\ \A i \in 1 .. Count : Append(Contents, value)[i] = Contents[i]
    BY DEF ContentsTyped
  <2>3. ASSUME NEW i \in 1 .. Count'
        PROVE  Contents'[i] = Append(Contents, value)[i]
    <3>1. Contents'[i] = buffer_'[Slot(i)']
      BY <2>3 DEF ContentsTyped
    <3>2. CASE i = Count'
      BY <1>1, <2>1, <2>2, <3>1, <3>2
    <3>3. CASE i # Count'
      <4>1. i \in 1 .. Count
        BY <2>1, <3>3 DEF ContentsTyped
      <4>2. Contents[i] = buffer_[Slot(i)]
        BY <4>1 DEF ContentsTyped
      <4>3. QED
        BY <1>1, <2>1, <2>2, <3>1, <4>1, <4>2
    <3>4. QED
      BY <3>2, <3>3
  <2>4. Contents' = Append(Contents, value)
    BY <2>1, <2>2, <2>3, SeqEqual DEF ContentsTyped
  <2>5. QED
    BY <1>1, <1>2, <2>4 DEF Promise!Enqueue, ContentsTyped
<1>3. CASE Count = Capacity
  <2>1. /\ Count' = Count
        /\ \A i \in 1 .. Count - 1 : Slot(i)' = Slot(i + 1) /\ Slot(i + 1) # tail_
        /\ Slot(Count)' = tail_
    BY <1>3, PushShifts DEF Inv
  <2>2. /\ Tail(Contents) \in Seq(Values)
        /\ Len(Tail(Contents)) = Count - 1
        /\ \A i \in 1 .. Count - 1 : Tail(Contents)[i] = Contents[i + 1]
    BY <1>1, <1>3, HeadTailProperties DEF ContentsTyped
  <2>3. /\ Append(Tail(Contents), value) \in Seq(Values)
        /\ Len(Append(Tail(Contents), value)) = Count
        /\ Append(Tail(Contents), value)[Count] = value
        /\ \A i \in 1 .. Count - 1 : Append(Tail(Contents), value)[i] = Contents[i + 1]
    BY <1>1, <1>3, <2>2
  <2>4. ASSUME NEW i \in 1 .. Count'
        PROVE  Contents'[i] = Append(Tail(Contents), value)[i]
    <3>1. Contents'[i] = buffer_'[Slot(i)']
      BY <2>4 DEF ContentsTyped
    <3>2. CASE i = Count'
      BY <1>1, <2>1, <2>3, <3>1, <3>2
    <3>3. CASE i # Count'
      <4>1. i \in 1 .. Count - 1 /\ i + 1 \in 1 .. Count
        BY <2>1, <3>3 DEF ContentsTyped
      <4>2. Contents[i + 1] = buffer_[Slot(i + 1)]
        BY <4>1 DEF ContentsTyped
      <4>3. QED
        BY <1>1, <2>1, <2>3, <3>1, <4>1, <4>2
    <3>4. QED
      BY <3>2, <3>3
  <2>5. Contents' = Append(Tail(Contents), value)
    BY <2>1, <2>3, <2>4, SeqEqual DEF ContentsTyped
  <2>6. QED
    BY <1>1, <1>3, <2>5 DEF Promise!Overwrite, ContentsTyped
<1>4. QED
  BY <1>1, <1>2, <1>3 DEF ContentsTyped

\* pop() hands out the oldest value and keeps the others in order.
LEMMA PopRefines ==
  ASSUME Inv, ContentsTyped, ContentsTyped', pop
  PROVE  Promise!Dequeue
<1>1. /\ Count > 0
      /\ Count' = Count - 1
      /\ \A i \in 1 .. Count - 1 : Slot(i)' = Slot(i + 1)
      /\ Slot(1) = head_
      /\ buffer_' = buffer_
      /\ result' = buffer_[head_]
  BY PopRemoves, Window DEF Inv, pop
<1>2. /\ Contents # <<>>
      /\ Head(Contents) = Contents[1]
      /\ Tail(Contents) \in Seq(Values)
      /\ Len(Tail(Contents)) = Count - 1
      /\ \A i \in 1 .. Count - 1 : Tail(Contents)[i] = Contents[i + 1]
  BY <1>1, HeadTailProperties DEF ContentsTyped
<1>3. ASSUME NEW i \in 1 .. Count'
      PROVE  Contents'[i] = Tail(Contents)[i]
  <2>1. i \in 1 .. Count - 1 /\ i + 1 \in 1 .. Count
    BY <1>1 DEF ContentsTyped
  <2>2. Contents'[i] = buffer_'[Slot(i)'] /\ Contents[i + 1] = buffer_[Slot(i + 1)]
    BY <2>1 DEF ContentsTyped
  <2>3. QED
    BY <1>1, <1>2, <2>1, <2>2
<1>4. Contents' = Tail(Contents)
  BY <1>1, <1>2, <1>3, SeqEqual DEF ContentsTyped
<1>5. result' = Head(Contents)
  BY <1>1, <1>2 DEF ContentsTyped
<1>6. QED
  BY <1>2, <1>4, <1>5 DEF Promise!Dequeue

\* The class implements "overwrite the oldest data": CircularBuffer's Spec
\* implements DropOldestQueue's (ImplementsDropOldest), whatever the size.
THEOREM Refinement == Spec => ImplementsDropOldest
<1>1. Init => Promise!Init
  <2> SUFFICES ASSUME Init
               PROVE  Promise!Init
    OBVIOUS
  <2>1. Count = 0
    BY DEF Init, Count
  <2>2. Contents = <<>>
    BY <2>1 DEF Contents
  <2>3. QED
    BY <2>2 DEF Init, Promise!Init
<1>2. Inv /\ ContentsTyped /\ ContentsTyped' /\ [Next]_vars => [Promise!Next]_(Promise!vars)
  <2> SUFFICES ASSUME Inv, ContentsTyped, ContentsTyped', [Next]_vars
               PROVE  [Promise!Next]_(Promise!vars)
    OBVIOUS
  <2>1. ASSUME NEW value \in Values, push(value)
        PROVE  Promise!Next
    BY <2>1, PushRefines DEF Promise!Next
  <2>2. CASE pop
    BY <2>2, PopRefines DEF Promise!Next
  <2>3. CASE popThrows
    <3>1. Contents' = Contents
      BY <2>3 DEF popThrows, Contents, Count, Slot
    <3>2. Count = 0
      BY <2>3, Window DEF Inv, popThrows
    <3>3. Contents = <<>>
      BY <3>2 DEF ContentsTyped
    <3>4. QED
      BY <2>3, <3>1, <3>3 DEF popThrows, Promise!Next, Promise!Fail
  <2>4. CASE UNCHANGED vars
    <3>1. Contents' = Contents
      BY <2>4 DEF vars, Contents, Count, Slot
    <3>2. QED
      BY <2>4, <3>1 DEF vars, Promise!vars
  <2>5. QED
    BY <2>1, <2>2, <2>3, <2>4 DEF Next
<1>3. Spec => []Inv
  BY TypeCorrect, FlagRaised, LiveSlotsCorrect, PTL DEF Inv
<1>4. QED
  BY <1>1, <1>2, <1>3, ContentsType, PTL DEF Spec, ImplementsDropOldest, Promise!Spec
=============================================================================
