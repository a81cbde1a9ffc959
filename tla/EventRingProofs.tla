-------------------------- MODULE EventRingProofs ---------------------------
(***************************************************************************)
(* Proofs about EventRing, for rings of every size: fill() and next() keep *)
(* the pointers of a ring in step, and what the ring stands for is a       *)
(* queue: fill() appends what read() returned, next() drops the oldest.    *)
(***************************************************************************)
EXTENDS EventRing, SequenceTheorems, TLAPS

\* A new ring is sound, and empty.
LEMMA NewRingSound ==
  ASSUME NEW n \in Nat \ {0}
  PROVE  Sound(NewRing(n)) /\ Contents(NewRing(n)) = <<>>
<1>1. NewRing(n) \in Rings(n)
  BY DEF NewRing, Rings, Slot
<1>2. Sound(NewRing(n))
  BY <1>1 DEF Sound, NewRing, Used, InStep
<1>3. Contents(NewRing(n)) = <<>>
  BY DEF Contents, NewRing, Used
<1> QED BY <1>2, <1>3

-----------------------------------------------------------------------------
(* The pointers                                                            *)

\* What a sound ring is made of.
LEMMA SoundParts ==
  ASSUME NEW r, Sound(r), r.size \in Nat \ {0}
  PROVE  /\ r.curr \in 0 .. r.size - 1 /\ r.free \in 0 .. r.size
         /\ r.head \in 0 .. r.size
         /\ r.buf \in [0 .. 2 * r.size - 1 -> Slot]
         /\ InStep(r.size, r.head, r.curr, r.size - r.free)
<1>1. r \in Rings(r.size)
  BY DEF Sound
<1>2. /\ r.curr \in 0 .. r.size - 1 /\ r.free \in 0 .. r.size
      /\ r.head \in 0 .. 2 * r.size
      /\ r.buf \in [0 .. 2 * r.size - 1 -> Slot]
  BY <1>1 DEF Rings
<1> QED BY <1>2 DEF Sound, Used

\* next()'s arithmetic.
LEMMA NextInStep ==
  ASSUME NEW size \in Nat \ {0}, NEW head \in 0 .. size, NEW curr \in 0 .. size - 1,
         NEW used \in 1 .. size, InStep(size, head, curr, used)
  PROVE  LET next == IF curr + 1 >= size THEN 0 ELSE curr + 1
         IN  /\ next \in 0 .. size - 1
             /\ InStep(size, head, next, used - 1)
BY DEF InStep

\* fill()'s arithmetic.
LEMMA FillInStep ==
  ASSUME NEW size \in Nat \ {0}, NEW head \in 0 .. size, NEW curr \in 0 .. size - 1,
         NEW used \in 0 .. size, NEW n \in 0 .. size - used,
         InStep(size, head, curr, used)
  PROVE  LET next == IF head + n > size THEN head + n - size ELSE head + n
         IN  /\ next \in 0 .. size
             /\ InStep(size, next, curr, used + n)
BY DEF InStep

\* The slots fill() writes and copies.
LEMMA FillSlots ==
  ASSUME NEW size \in Nat \ {0}, NEW head \in 0 .. size, NEW n \in 0 .. size,
         NEW i \in Int
  PROVE  /\ i \in head .. head + n - 1 => i - head + 1 \in 1 .. n
         /\ 0 <= i /\ i < head + n - size => size + i \in 0 .. 2 * size - 1
OBVIOUS

\* next() keeps a ring sound.
LEMMA AdvancedSound ==
  ASSUME NEW r, Sound(r), r.size \in Nat \ {0}, Available(r)
  PROVE  Sound(Advanced(r)) /\ Advanced(r).size = r.size
<1> DEFINE a == Advanced(r)
           next == IF r.curr + 1 >= r.size THEN 0 ELSE r.curr + 1
<1>1. /\ a.size = r.size /\ a.head = r.head /\ a.free = r.free + 1
      /\ a.curr = next
  BY DEF Advanced
<1>2. /\ r.size \in Nat \ {0} /\ r.head \in 0 .. r.size
      /\ r.curr \in 0 .. r.size - 1 /\ r.size - r.free \in 1 .. r.size
      /\ InStep(r.size, r.head, r.curr, r.size - r.free)
      /\ r.buf \in [0 .. 2 * r.size - 1 -> Slot]
      /\ r.free \in 0 .. r.size - 1
  BY SoundParts DEF Available
<1>3. /\ next \in 0 .. r.size - 1
      /\ InStep(r.size, r.head, next, r.size - r.free - 1)
  BY <1>2, NextInStep
<1>4. [r.buf EXCEPT ![r.curr] = NoEvent] \in [0 .. 2 * r.size - 1 -> Slot]
  BY <1>2 DEF Slot
<1>5. a \in Rings(r.size)
  <2>1. r.free + 1 \in 0 .. r.size
    BY <1>2
  <2>2. 0 .. r.size \subseteq 0 .. 2 * r.size
    BY <1>2
  <2> QED BY <1>2, <1>3, <1>4, <2>1, <2>2 DEF Rings, Advanced
<1>6. Used(a) = r.size - r.free - 1
  BY <1>1, <1>2 DEF Used
<1> QED BY <1>1, <1>2, <1>3, <1>5, <1>6 DEF Sound

\* fill() keeps a ring sound when read() keeps to the free space.
LEMMA FilledSound ==
  ASSUME NEW r, Sound(r), r.size \in Nat \ {0},
         NEW es \in Seq(Events), Len(es) <= r.free
  PROVE  Sound(Filled(r, es)) /\ Filled(r, es).size = r.size
<1> DEFINE f == Filled(r, es)
           next == IF r.head + Len(es) > r.size THEN r.head + Len(es) - r.size
                   ELSE r.head + Len(es)
<1> HIDE DEF next
<1>1. /\ f.size = r.size /\ f.head = next /\ f.free = r.free - Len(es)
      /\ f.curr = r.curr
  <2>1. f = [size |-> r.size, buf |-> Wrapped(r, es), head |-> next,
             curr |-> r.curr, free |-> r.free - Len(es)]
    BY Zenon DEF Filled, next
  <2> HIDE DEF f
  <2> QED BY <2>1
<1>2. /\ r.size \in Nat \ {0} /\ r.head \in 0 .. r.size
      /\ r.curr \in 0 .. r.size - 1 /\ r.free \in 0 .. r.size
      /\ r.size - r.free \in 0 .. r.size
  BY SoundParts
<1>a. /\ r.buf \in [0 .. 2 * r.size - 1 -> Slot]
      /\ InStep(r.size, r.head, r.curr, r.size - r.free)
  BY SoundParts
<1>3. /\ Len(es) \in Nat /\ Len(es) \in 0 .. r.size
      /\ Len(es) \in 0 .. r.size - (r.size - r.free)
  BY <1>2
<1>4. /\ next \in 0 .. r.size
      /\ InStep(r.size, next, r.curr, (r.size - r.free) + Len(es))
  BY <1>2, <1>a, <1>3, FillInStep DEF next
<1>5. ASSUME NEW i \in 0 .. 2 * r.size - 1
      PROVE  Written(r, es)[i] \in Slot
  <2>1. CASE i \in r.head .. r.head + Len(es) - 1
    <3>0. i \in Int
      OBVIOUS
    <3>1. i - r.head + 1 \in 1 .. Len(es)
      BY <3>0, <2>1, <1>2, <1>3, FillSlots
    <3>2. es[i - r.head + 1] \in Events
      BY <3>1
    <3> QED BY <3>2, <2>1 DEF Written, Slot
  <2>2. CASE i \notin r.head .. r.head + Len(es) - 1
    BY <2>2, <1>a DEF Written
  <2> QED BY <2>1, <2>2
<1>6. Wrapped(r, es) \in [0 .. 2 * r.size - 1 -> Slot]
  <2> SUFFICES ASSUME NEW i \in 0 .. 2 * r.size - 1
               PROVE  Wrapped(r, es)[i] \in Slot
    BY DEF Wrapped
  <2>1. CASE i < r.head + Len(es) - r.size
    <3>0. i \in Int /\ 0 <= i
      OBVIOUS
    <3>1. r.size + i \in 0 .. 2 * r.size - 1
      BY <3>0, <2>1, <1>2, <1>3, FillSlots
    <3>2. Wrapped(r, es)[i] = Written(r, es)[r.size + i]
      BY <2>1 DEF Wrapped
    <3> QED BY <3>1, <3>2, <1>5
  <2>2. CASE ~(i < r.head + Len(es) - r.size)
    BY <2>2, <1>5 DEF Wrapped, Slot
  <2> QED BY <2>1, <2>2
<1>7. f \in Rings(r.size)
  <2>1. r.free - Len(es) \in 0 .. r.size
    BY <1>2, <1>3
  <2>2. 0 .. r.size \subseteq 0 .. 2 * r.size
    BY <1>2
  <2>3. next \in 0 .. 2 * r.size
    BY <1>4, <2>2
  <2>4. f = [size |-> r.size, buf |-> Wrapped(r, es), head |-> next,
             curr |-> r.curr, free |-> r.free - Len(es)]
    BY Zenon DEF Filled, next
  <2> HIDE DEF f
  <2> QED BY <1>2, <1>6, <2>1, <2>3, <2>4 DEF Rings
<1>8. Used(f) = (r.size - r.free) + Len(es)
  BY <1>1, <1>2, <1>3 DEF Used
<1> QED BY <1>1, <1>4, <1>7, <1>8 DEF Sound

-----------------------------------------------------------------------------
(* What the ring stands for                                                *)

\* The slot k places after curr.
Place(size, curr, k) == IF curr + k < size THEN curr + k ELSE curr + k - size

\* next() moves every place by one, and gives up the place of curr only.
LEMMA NextPlace ==
  ASSUME NEW size \in Nat \ {0}, NEW curr \in 0 .. size - 1,
         NEW next, next = IF curr + 1 >= size THEN 0 ELSE curr + 1,
         NEW k \in 1 .. size - 1
  PROVE  /\ Place(size, next, k - 1) = Place(size, curr, k)
         /\ Place(size, curr, k) # curr
         /\ Place(size, curr, k) \in 0 .. size - 1
BY DEF Place

\* fill() writes no slot that holds an unread event.
LEMMA OldPlace ==
  ASSUME NEW size \in Nat \ {0}, NEW head \in 0 .. size, NEW curr \in 0 .. size - 1,
         NEW used \in 0 .. size, NEW n \in 0 .. size - used,
         InStep(size, head, curr, used), NEW k \in 0 .. used - 1
  PROVE  /\ Place(size, curr, k) \in 0 .. size - 1
         /\ ~(Place(size, curr, k) < head + n - size)
         /\ Place(size, curr, k) \notin head .. head + n - 1
BY DEF Place, InStep

\* fill() writes or copies its m-th event to the next free slot.
LEMMA NewPlace ==
  ASSUME NEW size \in Nat \ {0}, NEW head \in 0 .. size, NEW curr \in 0 .. size - 1,
         NEW used \in 0 .. size, NEW n \in 0 .. size - used,
         InStep(size, head, curr, used), NEW m \in 1 .. n
  PROVE  /\ Place(size, curr, used + m - 1) \in 0 .. size - 1
         /\ Place(size, curr, used + m - 1) < head + n - size
              => size + Place(size, curr, used + m - 1) = head + m - 1
         /\ ~(Place(size, curr, used + m - 1) < head + n - size)
              => Place(size, curr, used + m - 1) = head + m - 1
BY DEF Place, InStep

\* SlotOf() in terms of Place().
LEMMA SlotIsPlace ==
  ASSUME NEW r, NEW k
  PROVE  SlotOf(r, k) = Place(r.size, r.curr, k)
BY DEF SlotOf, Place

\* What the contents of a sound ring are made of.
LEMMA ContentsParts ==
  ASSUME NEW r, Sound(r), r.size \in Nat \ {0}
  PROVE  /\ Used(r) \in Nat /\ Used(r) \in 0 .. r.size
         /\ Used(r) = r.size - r.free /\ r.free = r.size - Used(r)
         /\ Contents(r) \in Seq(Slot)
         /\ Len(Contents(r)) = Used(r)
         /\ \A j \in 1 .. Used(r) : /\ Contents(r)[j] = r.buf[SlotOf(r, j - 1)]
                                   /\ SlotOf(r, j - 1) \in 0 .. r.size - 1
<1>1. r.curr \in 0 .. r.size - 1 /\ r.free \in 0 .. r.size
  BY SoundParts
<1>2. /\ Used(r) \in Nat /\ Used(r) \in 0 .. r.size
      /\ Used(r) = r.size - r.free /\ r.free = r.size - Used(r)
  BY <1>1 DEF Used
<1>3. ASSUME NEW j \in 1 .. Used(r)
      PROVE  SlotOf(r, j - 1) \in 0 .. r.size - 1 /\ r.buf[SlotOf(r, j - 1)] \in Slot
  <2>1. SlotOf(r, j - 1) \in 0 .. r.size - 1
    BY <1>1, <1>2 DEF SlotOf
  <2>2. 0 .. r.size - 1 \subseteq 0 .. 2 * r.size - 1
    BY <1>1
  <2> QED BY <2>1, <2>2, SoundParts
<1>4. Contents(r) \in [1 .. Used(r) -> Slot]
  BY <1>3 DEF Contents
<1>5. Contents(r) \in Seq(Slot) /\ Len(Contents(r)) = Used(r)
  BY <1>2, <1>4
<1> QED BY <1>2, <1>3, <1>5 DEF Contents

\* readEvent() and next() take the oldest event and drop it.
THEOREM AdvancedContents ==
  ASSUME NEW r, Sound(r), r.size \in Nat \ {0}, Available(r)
  PROVE  /\ Contents(r) # <<>> /\ Event(r) = Head(Contents(r))
         /\ Contents(Advanced(r)) = Tail(Contents(r))
<1> DEFINE a == Advanced(r)
           next == IF r.curr + 1 >= r.size THEN 0 ELSE r.curr + 1
<1>1. /\ a.size = r.size /\ a.free = r.free + 1 /\ a.curr = next
      /\ a.buf = [r.buf EXCEPT ![r.curr] = NoEvent]
  BY DEF Advanced
<1> HIDE DEF next, a
<1>2. /\ r.size \in Nat \ {0} /\ r.curr \in 0 .. r.size - 1
      /\ Used(r) \in Nat \ {0} /\ Used(r) \in 1 .. r.size
      /\ Used(r) = r.size - r.free /\ r.free = r.size - Used(r)
  BY SoundParts, ContentsParts DEF Available
<1>3. r.buf \in [0 .. 2 * r.size - 1 -> Slot] /\ r.curr \in DOMAIN r.buf
  BY SoundParts
<1>4. /\ Contents(r) \in Seq(Slot) /\ Len(Contents(r)) = Used(r)
      /\ \A j \in 1 .. Used(r) : /\ Contents(r)[j] = r.buf[SlotOf(r, j - 1)]
                                /\ SlotOf(r, j - 1) \in 0 .. r.size - 1
  BY ContentsParts
<1>5. Used(a) = Used(r) - 1
  BY <1>1, <1>2 DEF Used
<1>6. SlotOf(r, 0) = r.curr
  BY <1>2 DEF SlotOf
<1>7. Contents(r) # <<>> /\ Event(r) = Head(Contents(r))
  BY <1>2, <1>4, <1>6 DEF Event
<1>8. ASSUME NEW j \in 1 .. Used(r) - 1
      PROVE  Contents(a)[j] = Contents(r)[j + 1]
  <2>1. j - 1 \in 0 .. r.size - 2 /\ (j - 1) + 1 = j /\ (j + 1) - 1 = j
        /\ j + 1 \in 1 .. Used(r)
    BY <1>2
  <2>2. /\ Place(r.size, next, j - 1) = Place(r.size, r.curr, j)
        /\ Place(r.size, r.curr, j) # r.curr
        /\ Place(r.size, r.curr, j) \in 0 .. r.size - 1
    <3>1. j \in 1 .. r.size - 1
      BY <1>2
    <3>2. next = IF r.curr + 1 >= r.size THEN 0 ELSE r.curr + 1
      BY DEF next
    <3>3. r.size \in Nat \ {0} /\ r.curr \in 0 .. r.size - 1
      BY <1>2
    <3> QED BY <3>1, <3>2, <3>3, NextPlace
  <2>3. SlotOf(a, j - 1) = SlotOf(r, j) /\ SlotOf(r, j) # r.curr
    BY <1>1, <2>2, SlotIsPlace
  <2>4. SlotOf(r, j) \in DOMAIN r.buf
    <3>1. 0 .. r.size - 1 \subseteq 0 .. 2 * r.size - 1
      BY <1>2
    <3> QED BY <1>3, <2>2, <3>1, SlotIsPlace
  <2>5. a.buf[SlotOf(a, j - 1)] = r.buf[SlotOf(r, j)]
    BY <1>1, <1>3, <2>3, <2>4
  <2>6. Contents(a)[j] = a.buf[SlotOf(a, j - 1)]
    BY <1>5 DEF Contents
  <2> QED BY <1>4, <2>1, <2>5, <2>6
<1>9. Contents(a) \in Seq(Slot) /\ Len(Contents(a)) = Used(r) - 1
  BY <1>1, <1>5, AdvancedSound, ContentsParts DEF a
<1>10. /\ Tail(Contents(r)) \in Seq(Slot) /\ Len(Tail(Contents(r))) = Used(r) - 1
       /\ \A j \in 1 .. Used(r) - 1 : Tail(Contents(r))[j] = Contents(r)[j + 1]
  BY <1>4, <1>7, HeadTailProperties
<1>11. Contents(a) = Tail(Contents(r))
  BY <1>8, <1>9, <1>10, SeqEqual
<1> QED BY <1>7, <1>11 DEF a

\* Where read() puts its m-th event.
LEMMA NewSlot ==
  ASSUME NEW size \in Nat \ {0}, NEW head \in 0 .. size, NEW n \in 0 .. size,
         NEW m \in 1 .. n
  PROVE  /\ head + m - 1 \in 0 .. 2 * size - 1
         /\ head + m - 1 \in head .. head + n - 1
         /\ (head + m - 1) - head + 1 = m
OBVIOUS

\* fill() appends what read() has returned.
THEOREM FilledContents ==
  ASSUME NEW r, Sound(r), r.size \in Nat \ {0},
         NEW es \in Seq(Events), Len(es) <= r.free
  PROVE  Contents(Filled(r, es)) = Contents(r) \o es
<1> DEFINE f == Filled(r, es)
<1> USE DEF Place
<1>1. /\ f.size = r.size /\ f.curr = r.curr /\ f.free = r.free - Len(es)
      /\ f.buf = Wrapped(r, es)
  BY DEF Filled
<1> HIDE DEF f, Place
<1>2. /\ r.size \in Nat \ {0} /\ r.head \in 0 .. r.size
      /\ r.curr \in 0 .. r.size - 1 /\ Used(r) \in 0 .. r.size
      /\ Used(r) = r.size - r.free /\ r.free = r.size - Used(r)
  BY SoundParts, ContentsParts
<1>3. InStep(r.size, r.head, r.curr, Used(r))
  BY <1>2, SoundParts
<1>4. Len(es) \in Nat /\ Len(es) \in 0 .. r.size - Used(r)
  BY <1>2
<1>5. Used(f) = Used(r) + Len(es)
  BY <1>1, <1>2, <1>4 DEF Used
<1>6. /\ Contents(r) \in Seq(Slot) /\ Len(Contents(r)) = Used(r)
      /\ \A j \in 1 .. Used(r) : Contents(r)[j] = r.buf[SlotOf(r, j - 1)]
  BY ContentsParts
<1>7. /\ Contents(f) \in Seq(Slot) /\ Len(Contents(f)) = Used(r) + Len(es)
      /\ \A j \in 1 .. Used(r) + Len(es) : Contents(f)[j] = f.buf[SlotOf(f, j - 1)]
  BY <1>1, <1>5, FilledSound, ContentsParts DEF f
<1>8. es \in Seq(Slot)
  BY DEF Slot
<1>9. /\ Contents(r) \o es \in Seq(Slot)
      /\ Len(Contents(r) \o es) = Used(r) + Len(es)
      /\ \A j \in 1 .. Used(r) + Len(es) :
           (Contents(r) \o es)[j] = IF j <= Used(r) THEN Contents(r)[j] ELSE es[j - Used(r)]
  <2>1. /\ Contents(r) \o es \in Seq(Slot)
        /\ Len(Contents(r) \o es) = Len(Contents(r)) + Len(es)
        /\ \A j \in 1 .. Len(Contents(r)) + Len(es) :
             (Contents(r) \o es)[j] =
               IF j <= Len(Contents(r)) THEN Contents(r)[j] ELSE es[j - Len(Contents(r))]
    BY <1>6, <1>8, ConcatProperties
  <2>2. Len(Contents(r)) = Used(r)
    BY <1>6
  <2> QED BY <2>1, <2>2, Zenon
<1>10. \A i \in 0 .. r.size - 1 :
         f.buf[i] = IF i < r.head + Len(es) - r.size THEN Written(r, es)[r.size + i]
                    ELSE Written(r, es)[i]
  <2> SUFFICES ASSUME NEW i \in 0 .. r.size - 1
               PROVE  f.buf[i] = IF i < r.head + Len(es) - r.size
                                 THEN Written(r, es)[r.size + i] ELSE Written(r, es)[i]
    OBVIOUS
  <2>1. i \in 0 .. 2 * r.size - 1 /\ i < r.size
    BY <1>2
  <2> QED BY <1>1, <2>1 DEF Wrapped
<1>11. \A i \in 0 .. 2 * r.size - 1 :
         Written(r, es)[i] = IF i \in r.head .. r.head + Len(es) - 1
                             THEN es[i - r.head + 1] ELSE r.buf[i]
  BY DEF Written
<1>12. \A k \in Int : SlotOf(f, k) = Place(r.size, r.curr, k)
                      /\ SlotOf(r, k) = Place(r.size, r.curr, k)
  BY <1>1, SlotIsPlace
<1>13. ASSUME NEW j \in 1 .. Used(r) + Len(es)
       PROVE  Contents(f)[j] = (Contents(r) \o es)[j]
  <2> DEFINE p == Place(r.size, r.curr, j - 1)
  <2>1. Contents(f)[j] = f.buf[p]
    BY <1>7, <1>12
  <2>2. CASE j <= Used(r)
    <3>1. j - 1 \in 0 .. Used(r) - 1 /\ j \in 1 .. Used(r)
      BY <2>2, <1>2, <1>4
    <3>2. /\ p \in 0 .. r.size - 1
          /\ ~(p < r.head + Len(es) - r.size)
          /\ p \notin r.head .. r.head + Len(es) - 1
      BY <1>2, <1>3, <1>4, <3>1, OldPlace
    <3> HIDE DEF p
    <3>3. p \in 0 .. 2 * r.size - 1
      BY <1>2, <3>2
    <3>4. f.buf[p] = r.buf[p]
      BY <1>10, <1>11, <3>2, <3>3
    <3>5. Contents(r)[j] = r.buf[p]
      BY <1>6, <1>12, <3>1 DEF p
    <3> QED BY <1>9, <2>1, <2>2, <3>4, <3>5
  <2>3. CASE ~(j <= Used(r))
    <3> DEFINE m == j - Used(r)
    <3>1. m \in 1 .. Len(es) /\ Used(r) + m - 1 = j - 1
      BY <2>3, <1>2, <1>4
    <3>2. /\ p \in 0 .. r.size - 1
          /\ p < r.head + Len(es) - r.size => r.size + p = r.head + m - 1
          /\ ~(p < r.head + Len(es) - r.size) => p = r.head + m - 1
      <4> HIDE DEF m
      <4>1. p = Place(r.size, r.curr, Used(r) + m - 1)
        BY <3>1
      <4> HIDE DEF p
      <4>2. /\ r.size \in Nat \ {0} /\ r.head \in 0 .. r.size
            /\ r.curr \in 0 .. r.size - 1 /\ Used(r) \in 0 .. r.size
            /\ Len(es) \in 0 .. r.size - Used(r) /\ m \in 1 .. Len(es)
        BY <1>2, <1>4, <3>1
      <4>3. /\ Place(r.size, r.curr, Used(r) + m - 1) \in 0 .. r.size - 1
            /\ Place(r.size, r.curr, Used(r) + m - 1) < r.head + Len(es) - r.size
                 => r.size + Place(r.size, r.curr, Used(r) + m - 1) = r.head + m - 1
            /\ ~(Place(r.size, r.curr, Used(r) + m - 1) < r.head + Len(es) - r.size)
                 => Place(r.size, r.curr, Used(r) + m - 1) = r.head + m - 1
        BY <4>2, <1>3, NewPlace
      <4> QED BY <4>1, <4>3
    <3> HIDE DEF p, m
    <3>3. r.head + m - 1 \in 0 .. 2 * r.size - 1
          /\ r.head + m - 1 \in r.head .. r.head + Len(es) - 1
          /\ (r.head + m - 1) - r.head + 1 = m
      <4>1. r.size \in Nat \ {0} /\ r.head \in 0 .. r.size /\ Len(es) \in 0 .. r.size
        BY <1>2, <1>4
      <4> QED BY <4>1, <3>1, NewSlot
    <3>4. Written(r, es)[r.head + m - 1] = es[m]
      BY <1>11, <3>3
    <3>5. f.buf[p] = es[m]
      BY <1>10, <3>2, <3>4
    <3> QED BY <1>9, <2>1, <2>3, <3>5 DEF m
  <2> QED BY <2>2, <2>3
<1>14. Contents(f) = Contents(r) \o es
  BY <1>7, <1>9, <1>13, SeqEqual
<1> QED BY <1>14 DEF f

=============================================================================
