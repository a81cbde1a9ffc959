----------------------------- MODULE EventRing -----------------------------
(***************************************************************************)
(* libsensors (InputEventReader.cpp): InputEventCircularReader, the ring   *)
(* between read() on an input device and a sensor's readEvents().  The     *)
(* array is twice the ring: read() may run past the ring's end, and what   *)
(* it wrote there is then copied to the start.  A ring is a record of the  *)
(* array, its size (mBufferEnd - mBuffer) and the three members that move; *)
(* pointers are indices, from 0.                                           *)
(***************************************************************************)
EXTENDS Integers, Sequences

CONSTANTS Events, NoEvent

Slot == Events \cup {NoEvent}

Rings(n) ==
  [size : {n}, buf : [0 .. 2 * n - 1 -> Slot], head : 0 .. 2 * n,
   curr : 0 .. n - 1, free : 0 .. n]

\* InputEventCircularReader(numEvents)
NewRing(n) ==
  [size |-> n, buf |-> [i \in 0 .. 2 * n - 1 |-> NoEvent],
   head |-> 0, curr |-> 0, free |-> n]

\* readEvent(): is there one, and which.
Available(r) == r.size - r.free > 0
Event(r) == r.buf[r.curr]

\* next().  A slot that has been read is forgotten.
Advanced(r) ==
  [size |-> r.size, buf |-> [r.buf EXCEPT ![r.curr] = NoEvent],
   head |-> r.head,
   curr |-> IF r.curr + 1 >= r.size THEN 0 ELSE r.curr + 1,
   free |-> r.free + 1]

\* fill(): read() writes the events es at mHead.
Written(r, es) ==
  [i \in 0 .. 2 * r.size - 1 |->
     IF i \in r.head .. r.head + Len(es) - 1 THEN es[i - r.head + 1] ELSE r.buf[i]]

\* Mutant of Wrapped: the copy to the start is forgotten.
WrappedNever(r, es) == Written(r, es)

\* fill(): what lies past the ring's end moves to its start.
Wrapped(r, es) ==
  [i \in 0 .. 2 * r.size - 1 |->
     IF i < r.head + Len(es) - r.size THEN Written(r, es)[r.size + i]
     ELSE IF i < r.size THEN Written(r, es)[i] ELSE NoEvent]

\* Mutant of Filled: the head wraps at the end of the array.
FilledLate(r, es) ==
  [size |-> r.size, buf |-> Wrapped(r, es),
   head |-> IF r.head + Len(es) > 2 * r.size THEN r.head + Len(es) - 2 * r.size
            ELSE r.head + Len(es),
   curr |-> r.curr, free |-> r.free - Len(es)]

\* fill(), when read() has answered with es, at most mFreeSpace events.
Filled(r, es) ==
  [size |-> r.size, buf |-> Wrapped(r, es),
   head |-> IF r.head + Len(es) > r.size THEN r.head + Len(es) - r.size
            ELSE r.head + Len(es),
   curr |-> r.curr, free |-> r.free - Len(es)]

-----------------------------------------------------------------------------
(* What the ring stands for.                                               *)

Used(r) == r.size - r.free

\* The slot k places after mCurr.
SlotOf(r, k) == IF r.curr + k < r.size THEN r.curr + k ELSE r.curr + k - r.size

\* The unread events, oldest first.
Contents(r) == [j \in 1 .. Used(r) |-> r.buf[SlotOf(r, j - 1)]]

\* head is used places after curr, where the end of the ring and its start are
\* one place.
InStep(size, head, curr, used) ==
  \/ head = curr + used
  \/ head = curr + used - size
  \/ head = curr + used + size

Sound(r) ==
  /\ r \in Rings(r.size)
  /\ r.head <= r.size
  /\ InStep(r.size, r.head, r.curr, Used(r))

=============================================================================
