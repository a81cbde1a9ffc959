------------------------- MODULE SensorsPollProofs --------------------------
(***************************************************************************)
(* Proofs about SensorsPoll, for every set of drivers, size of the rings   *)
(* and of the caller's array: the variables keep their types and the rings *)
(* stay sound, whatever the two threads and the devices do; and the        *)
(* reports in the rings and the devices are a stream that pollEvents()     *)
(* delivers from its front, as SensorStream has it.                        *)
(***************************************************************************)
EXTENDS SensorsPoll, EventRingProofs

\* A sensor whose device is being read is one of Drivers.
AtSensor == pc \in {"fill", "events"} => at <= Len(Drivers)

IInv == TypeOK /\ RingsSound /\ AtSensor

LEMMA InitIInv == Init => IInv
<1> SUFFICES ASSUME Init PROVE IInv
  OBVIOUS
<1> USE ParamsAssumption
<1>1. \A s \in Sensors : Sound(ring[s]) /\ ring[s] \in Rings(RingSize[s])
  <2> TAKE s \in Sensors
  <2>1. ring[s] = NewRing(RingSize[s]) /\ RingSize[s] \in Nat \ {0}
    BY DEF Init
  <2>2. Sound(NewRing(RingSize[s])) /\ NewRing(RingSize[s]).size = RingSize[s]
    BY <2>1, NewRingSound DEF NewRing
  <2> QED BY <2>1, <2>2 DEF Sound
<1>2. ring = [s \in Sensors |-> ring[s]]
  BY <1>1 DEF Init
<1>3. /\ dev \in [Sensors -> Values]
      /\ told \in [Sensors -> Level \cup {"nothing"}]
      /\ known \in [Sensors -> Level \cup {"nothing"}]
  BY DEF Init
<1>7. last \in [Sensors -> Level] /\ pending \in [Sensors -> BOOLEAN]
  <2>1. PICK found \in [Sensors -> BOOLEAN] :
          /\ last = [s \in Sensors |-> IF found[s] THEN Sampled(s) ELSE "unset"]
          /\ pending = [s \in Sensors |-> found[s] /\ s \in Reporting]
    BY DEF Init
  <2>2. \A s \in Sensors : Sampled(s) \in Level
    BY <1>3 DEF Sampled, Level
  <2> QED BY <2>1, <2>2 DEF Level
<1>4. /\ on \in [Sensors -> BOOLEAN]
      /\ enabled \in [Sensors -> BOOLEAN] /\ revents \in [Sensors -> BOOLEAN]
  BY DEF Init
<1>5. /\ queue \in [Sensors -> Seq(Events)]
      /\ \A s \in Sensors : Len(queue[s]) <= QueueRoom[s]
  BY DEF Init
<1>6. /\ pipe \in 0 .. PipeRoom /\ got \in -1 .. Count
      /\ at \in 1 .. Len(Drivers) + 1 /\ pc = "caller" /\ act \in Acts
  BY DEF Init, Acts
<1> QED BY <1>1, <1>2, <1>3, <1>4, <1>5, <1>6, <1>7 DEF IInv, TypeOK, RingsSound, AtSensor

\* A ring that is replaced by a sound one of its size.
LEMMA RingStep ==
  ASSUME TypeOK, RingsSound, NEW s \in Sensors, NEW x, Sound(x),
         x.size = RingSize[s], ring' = [ring EXCEPT ![s] = x]
  PROVE  /\ ring' = [u \in Sensors |-> ring'[u]]
         /\ \A u \in Sensors : ring'[u] \in Rings(RingSize[u])
         /\ RingsSound'
<1>1. x \in Rings(RingSize[s])
  BY DEF Sound
<1>2. \A u \in Sensors : ring'[u] = IF u = s THEN x ELSE ring[u]
  BY DEF TypeOK
<1>3. \A u \in Sensors : ring'[u] \in Rings(RingSize[u])
  BY <1>1, <1>2 DEF TypeOK
<1>4. RingsSound'
  BY <1>2 DEF RingsSound
<1>5. ring' = [u \in Sensors |-> ring'[u]]
  BY <1>3 DEF TypeOK
<1> QED BY <1>3, <1>4, <1>5

\* The size of a sensor's ring.
LEMMA RingHas ==
  ASSUME TypeOK, RingsSound, NEW s \in Sensors
  PROVE  /\ Sound(ring[s]) /\ ring[s].size = RingSize[s] /\ ring[s].size \in Nat \ {0}
         /\ ring[s].free \in 0 .. ring[s].size
<1>1. ring[s] \in Rings(RingSize[s]) /\ Sound(ring[s])
  BY DEF TypeOK, RingsSound
<1>2. ring[s].size = RingSize[s] /\ RingSize[s] \in Nat \ {0}
  BY <1>1, ParamsAssumption DEF Rings
<1> QED BY <1>1, <1>2, SoundParts

\* What read() of device s returns, and leaves.
LEMMA ReadParts ==
  ASSUME TypeOK, NEW s \in Sensors, NEW n \in Nat, n <= Len(queue[s])
  PROVE  /\ SubSeq(queue[s], 1, n) \in Seq(Events) /\ Len(SubSeq(queue[s], 1, n)) = n
         /\ SubSeq(queue[s], n + 1, Len(queue[s])) \in Seq(Events)
         /\ Len(SubSeq(queue[s], n + 1, Len(queue[s]))) = Len(queue[s]) - n
         /\ Len(queue[s]) \in Nat
<1>1. queue[s] \in Seq(Events) /\ Len(queue[s]) \in Nat
  BY DEF TypeOK
<1>2. /\ \A i \in 1 .. n : queue[s][i] \in Events
      /\ \A i \in n + 1 .. Len(queue[s]) : queue[s][i] \in Events
  BY <1>1
<1>3. SubSeq(queue[s], 1, n) \in Seq(Events) /\ Len(SubSeq(queue[s], 1, n)) = n
  BY <1>1, <1>2, SubSeqProperties
<1>4. /\ SubSeq(queue[s], n + 1, Len(queue[s])) \in Seq(Events)
      /\ Len(SubSeq(queue[s], n + 1, Len(queue[s]))) = Len(queue[s]) - n
  BY <1>1, <1>2, SubSeqProperties
<1> QED BY <1>1, <1>3, <1>4

\* fill() of sensor s.
LEMMA FillIInv ==
  ASSUME IInv, NEW s \in Sensors, Fill(s)
  PROVE  IInv'
<1> DEFINE n == IF ring[s].free < Len(queue[s]) THEN ring[s].free ELSE Len(queue[s])
           es == SubSeq(queue[s], 1, n)
           rest == SubSeq(queue[s], n + 1, Len(queue[s]))
<1>1. /\ Sound(ring[s]) /\ ring[s].size = RingSize[s] /\ ring[s].size \in Nat \ {0}
      /\ ring[s].free \in Nat
  BY RingHas DEF IInv
<1>2. queue[s] \in Seq(Events) /\ Len(queue[s]) \in Nat
  BY DEF IInv, TypeOK
<1>3. n \in Nat /\ n <= Len(queue[s]) /\ n <= ring[s].free
  BY <1>1, <1>2
<1>4. /\ ring' = [ring EXCEPT ![s] = Filled(ring[s], es)]
      /\ queue' = [queue EXCEPT ![s] = rest]
      /\ pc' = "events" /\ at' = at
      /\ Filling(s)
      /\ UNCHANGED <<driver, last, pending, enabled, revents, pipe, told, known, got, act>>
  BY DEF Fill, IInv, TypeOK
<1> HIDE DEF n
<1>5. /\ es \in Seq(Events) /\ Len(es) = n
      /\ rest \in Seq(Events) /\ Len(rest) = Len(queue[s]) - n
  BY <1>3, ReadParts DEF IInv
<1> HIDE DEF es, rest
<1>6. /\ Sound(Filled(ring[s], es)) /\ Filled(ring[s], es).size = RingSize[s]
  BY <1>1, <1>3, <1>5, FilledSound
<1>7. /\ ring' = [u \in Sensors |-> ring'[u]]
      /\ \A u \in Sensors : ring'[u] \in Rings(RingSize[u])
      /\ RingsSound'
  BY <1>4, <1>6, RingStep DEF IInv
<1>8. /\ queue' \in [Sensors -> Seq(Events)]
      /\ \A u \in Sensors : Len(queue'[u]) <= QueueRoom[u]
  <2>1. QueueRoom[s] \in Nat /\ Len(queue[s]) <= QueueRoom[s]
    BY ParamsAssumption DEF IInv, TypeOK
  <2>2. Len(rest) <= QueueRoom[s]
    BY <1>2, <1>3, <1>5, <2>1
  <2> QED BY <1>4, <1>5, <2>2 DEF IInv, TypeOK
<1>9. AtSensor'
  BY <1>4 DEF IInv, AtSensor, Filling
<1> QED BY <1>4, <1>7, <1>8, <1>9 DEF IInv, TypeOK, driver

\* readEvent() and next() on the ring of sensor s.
LEMMA AdvancedIInv ==
  ASSUME IInv, NEW s \in Sensors, Available(ring[s]),
         ring' = [ring EXCEPT ![s] = Advanced(@)]
  PROVE  /\ ring' = [u \in Sensors |-> ring'[u]]
         /\ \A u \in Sensors : ring'[u] \in Rings(RingSize[u])
         /\ RingsSound'
<1>1. Sound(ring[s]) /\ ring[s].size = RingSize[s] /\ ring[s].size \in Nat \ {0}
  BY RingHas DEF IInv
<1>2. Sound(Advanced(ring[s])) /\ Advanced(ring[s]).size = RingSize[s]
  BY <1>1, AdvancedSound
<1>3. ring' = [ring EXCEPT ![s] = Advanced(ring[s])]
  OBVIOUS
<1> QED BY <1>2, <1>3, RingStep DEF IInv

LEMMA PollThreadIInv ==
  ASSUME IInv, PollThread
  PROVE  IInv'
<1> USE ParamsAssumption
<1>1. Count \in Nat \ {0} /\ got \in -1 .. Count /\ Len(Drivers) \in Nat
      /\ at \in 1 .. Len(Drivers) + 1
  BY DEF IInv, TypeOK
<1>2. CASE PollEvents
  BY <1>1, <1>2 DEF PollEvents, IInv, TypeOK, RingsSound, AtSensor, driver
<1>3. CASE Scanned
  BY <1>1, <1>3 DEF Scanned, IInv, TypeOK, RingsSound, AtSensor, driver
<1>4. CASE Poll
  <2>1. pipe \in 0 .. PipeRoom /\ PipeRoom \in Nat
    BY DEF IInv, TypeOK
  <2>3. pipe' \in 0 .. PipeRoom
    BY <1>4, <2>1 DEF Poll
  <2>4. revents' \in [Sensors -> BOOLEAN]
    BY <1>4 DEF Poll
  <2>2. pc' \in {"caller", "scan"} /\ at' = 1 /\ 1 \in 1 .. Len(Drivers) + 1
    BY <1>1, <1>4 DEF Poll
  <2> QED BY <1>4, <2>2, <2>3, <2>4 DEF Poll, IInv, TypeOK, RingsSound, AtSensor, driver
<1>5. ASSUME NEW s \in Sensors, SkipSensor(s) PROVE IInv'
  <2>1. at' \in 1 .. Len(Drivers) + 1
    BY <1>1, <1>5 DEF SkipSensor, Scanning, ToNext
  <2> QED BY <1>5, <2>1 DEF SkipSensor, ToNext, IInv, TypeOK, RingsSound, AtSensor, driver
<1>6. ASSUME NEW s \in Sensors, ReadPending(s) PROVE IInv'
  <2>1. at' \in 1 .. Len(Drivers) + 1 /\ pc' = "scan"
    BY <1>1, <1>6 DEF ReadPending, Scanning, ToNext
  <2>2. got' \in -1 .. Count /\ told' \in [Sensors -> Level \cup {"nothing"}]
    <3>1. got < Count /\ last[s] \in Level
      BY <1>6 DEF ReadPending, Scanning, IInv, TypeOK
    <3>2. CASE Silenced(s)
      BY <1>1, <1>6, <3>2 DEF ReadPending, IInv, TypeOK
    <3>3. CASE ~Silenced(s)
      <4>1. got' = got + 1 /\ told' = [told EXCEPT ![s] = last[s]]
        BY <1>6, <3>3 DEF ReadPending, Tell
      <4>2. told' \in [Sensors -> Level \cup {"nothing"}]
        BY <3>1, <4>1 DEF IInv, TypeOK
      <4> QED BY <1>1, <3>1, <4>1, <4>2
    <3> QED BY <3>2, <3>3
  <2>3. pending' \in [Sensors -> BOOLEAN] /\ revents' \in [Sensors -> BOOLEAN]
    BY <1>6 DEF ReadPending, IInv, TypeOK
  <2> QED BY <1>6, <2>1, <2>2, <2>3
       DEF ReadPending, IInv, TypeOK, RingsSound, AtSensor, driver
<1>7. ASSUME NEW s \in Sensors, ReadEvents(s) PROVE IInv'
  BY <1>7 DEF ReadEvents, Scanning, IInv, TypeOK, RingsSound, AtSensor, driver
<1>8. ASSUME NEW s \in Sensors, Fill(s) PROVE IInv'
  BY <1>8, FillIInv
<1>9. ASSUME NEW s \in Sensors, ReadValue(s) PROVE IInv'
  <2>1. /\ ring' = [u \in Sensors |-> ring'[u]]
        /\ \A u \in Sensors : ring'[u] \in Rings(RingSize[u])
        /\ RingsSound'
    BY <1>9, AdvancedIInv DEF ReadValue, Reading
  <2>2. last' \in [Sensors -> Level]
    BY <1>9 DEF ReadValue, IInv, TypeOK, Level
  <2> QED BY <1>9, <2>1, <2>2 DEF ReadValue, Reading, IInv, TypeOK, AtSensor, driver
<1>10. ASSUME NEW s \in Sensors, ReadSyn(s) PROVE IInv'
  <2>1. /\ ring' = [u \in Sensors |-> ring'[u]]
        /\ \A u \in Sensors : ring'[u] \in Rings(RingSize[u])
        /\ RingsSound'
    BY <1>10, AdvancedIInv DEF ReadSyn, Reading
  <2>2. got' \in -1 .. Count /\ told' \in [Sensors -> Level \cup {"nothing"}]
    <3>1. got < Count /\ last[s] \in Level
      BY <1>10 DEF ReadSyn, Reading, IInv, TypeOK
    <3>2. CASE Silenced(s)
      BY <1>1, <1>10, <3>2 DEF ReadSyn, IInv, TypeOK
    <3>3. CASE ~Silenced(s)
      <4>1. got' = got + 1 /\ told' = [told EXCEPT ![s] = last[s]]
        BY <1>10, <3>3 DEF ReadSyn, Tell
      <4>2. told' \in [Sensors -> Level \cup {"nothing"}]
        BY <3>1, <4>1 DEF IInv, TypeOK
      <4> QED BY <1>1, <3>1, <4>1, <4>2
    <3> QED BY <3>2, <3>3
  <2> QED BY <1>10, <2>1, <2>2 DEF ReadSyn, Reading, IInv, TypeOK, AtSensor, driver
<1>11. ASSUME NEW s \in Sensors, EventsRead(s) PROVE IInv'
  <2>1. at' \in 1 .. Len(Drivers) + 1 /\ pc' = "scan"
    BY <1>1, <1>11 DEF EventsRead, ToNext, IInv, AtSensor
  <2>2. revents' \in [Sensors -> BOOLEAN]
    BY <1>11 DEF EventsRead, IInv, TypeOK
  <2> QED BY <1>11, <2>1, <2>2 DEF EventsRead, IInv, TypeOK, RingsSound, AtSensor, driver
<1> QED BY <1>2, <1>3, <1>4, <1>5, <1>6, <1>7, <1>8, <1>9, <1>10, <1>11 DEF PollThread

LEMMA OthersIInv ==
  ASSUME IInv, NEW s \in Sensors,
         \/ Measure(s) \/ ActivateSame(s) \/ EnableReporting(s) \/ EnableKxsd9(s)
         \/ Disable(s) \/ SampleState(s) \/ SampleFails(s) \/ UseSample(s) \/ Wake(s)
  PROVE  IInv'
<1> USE ParamsAssumption
<1>1. /\ <<"caller">> \in Acts
      /\ \A w \in {"initial", "wake"} : <<w, s, "nothing">> \in Acts
      /\ \A v \in Level : <<"value", s, v>> \in Acts
  BY DEF Acts
<1>2. CASE Measure(s)
  <2>1. PICK v \in Values : /\ dev' = [dev EXCEPT ![s] = v]
                            /\ queue' = [queue EXCEPT ![s] = @ \o <<v, "syn">>]
    BY <1>2 DEF Measure
  <2>2. queue[s] \in Seq(Events) /\ <<v, "syn">> \in Seq(Events) /\ Len(<<v, "syn">>) = 2
    BY DEF IInv, TypeOK
  <2>3. /\ queue[s] \o <<v, "syn">> \in Seq(Events)
        /\ Len(queue[s] \o <<v, "syn">>) = Len(queue[s]) + 2
    BY <2>2, ConcatProperties
  <2>4. Len(queue[s]) + 2 <= QueueRoom[s]
    BY <1>2 DEF Measure
  <2>5. /\ queue' \in [Sensors -> Seq(Events)]
        /\ \A u \in Sensors : Len(queue'[u]) <= QueueRoom[u]
    BY <2>1, <2>3, <2>4 DEF IInv, TypeOK
  <2> QED BY <1>2, <2>1, <2>5 DEF Measure, IInv, TypeOK, RingsSound, AtSensor
<1>3. CASE ActivateSame(s)
  <2>1. act' \in Acts
    BY <1>1, <1>3 DEF ActivateSame, Go, IInv, TypeOK
  <2> QED BY <1>3, <2>1
       DEF ActivateSame, IInv, TypeOK, RingsSound, AtSensor, driver, polling
<1>4. CASE EnableReporting(s)
  <2>1. act' \in Acts
    BY <1>1, <1>4 DEF EnableReporting, Go
  <2>2. on' \in [Sensors -> BOOLEAN] /\ enabled' \in [Sensors -> BOOLEAN]
    BY <1>4 DEF EnableReporting, IInv, TypeOK
  <2> QED BY <1>4, <2>1, <2>2
       DEF EnableReporting, IInv, TypeOK, RingsSound, AtSensor, polling
<1>5. CASE EnableKxsd9(s)
  <2>1. act' \in Acts
    BY <1>1, <1>5 DEF EnableKxsd9, Go, Return
  <2>2. on' \in [Sensors -> BOOLEAN] /\ enabled' \in [Sensors -> BOOLEAN]
    <3>1. PICK works \in BOOLEAN : /\ enabled' = [enabled EXCEPT ![s] = works]
                                   /\ on' = [on EXCEPT ![s] = works]
      BY <1>5 DEF EnableKxsd9
    <3> QED BY <3>1 DEF IInv, TypeOK
  <2> QED BY <1>5, <2>1, <2>2
       DEF EnableKxsd9, IInv, TypeOK, RingsSound, AtSensor, polling
<1>6. CASE Disable(s)
  <2>1. on' \in [Sensors -> BOOLEAN] /\ enabled' \in [Sensors -> BOOLEAN]
    BY <1>6 DEF Disable, IInv, TypeOK
  <2> QED BY <1>6, <2>1 DEF Disable, IInv, TypeOK, RingsSound, AtSensor, polling
<1>7. CASE SampleState(s)
  <2>1. act' \in Acts
    <3>1. Sampled(s) \in Level
      BY DEF Sampled, Level, IInv, TypeOK
    <3> QED BY <1>1, <1>7, <3>1 DEF SampleState
  <2>2. pending' \in [Sensors -> BOOLEAN]
    BY <1>7 DEF SampleState, IInv, TypeOK
  <2> QED BY <1>7, <2>1, <2>2
       DEF SampleState, IInv, TypeOK, RingsSound, AtSensor, driver, polling
<1>8. CASE UseSample(s)
  <2>1. act' \in Acts
    BY <1>1, <1>8 DEF UseSample, InitialStateSet, Go, Return
  <2>2. last' \in [Sensors -> Level]
    <3>1. act[3] \in Level
      BY <1>8 DEF IInv, TypeOK, Acts, UseSample, Activating
    <3> QED BY <1>8, <3>1 DEF UseSample, IInv, TypeOK
  <2>3. pending' \in [Sensors -> BOOLEAN]
    BY <1>8 DEF UseSample, IInv, TypeOK
  <2> QED BY <1>8, <2>1, <2>2, <2>3
       DEF UseSample, IInv, TypeOK, RingsSound, AtSensor, driver, polling
<1>9. CASE Wake(s)
  <2>1. pipe \in 0 .. PipeRoom /\ PipeRoom \in Nat
    BY DEF IInv, TypeOK
  <2>2. pipe' \in 0 .. PipeRoom
    BY <1>9, <2>1 DEF Wake
  <2>3. act' \in Acts
    BY <1>1, <1>9 DEF Wake, Return
  <2> QED BY <1>9, <2>2, <2>3
       DEF Wake, IInv, TypeOK, RingsSound, AtSensor, driver, polling
<1>10. CASE SampleFails(s)
  <2>1. act' \in Acts
    BY <1>1, <1>10 DEF SampleFails, InitialStateSet, Go, Return
  <2> QED BY <1>10, <2>1
       DEF SampleFails, IInv, TypeOK, RingsSound, AtSensor, driver, polling
<1> QED BY <1>2, <1>3, <1>4, <1>5, <1>6, <1>7, <1>8, <1>9, <1>10

LEMMA FailIInv ==
  ASSUME IInv, PollFails
  PROVE  IInv'
<1>1. -1 \in -1 .. Count /\ 1 \in 1 .. Len(Drivers) + 1
  BY ParamsAssumption
<1> QED BY <1>1 DEF PollFails, IInv, TypeOK, RingsSound, AtSensor, driver

LEMMA StepIInv == IInv /\ [Next]_vars => IInv'
<1> SUFFICES ASSUME IInv, [Next]_vars PROVE IInv'
  OBVIOUS
<1>1. CASE PollThread
  BY <1>1, PollThreadIInv
<1>2. CASE Activation
  BY <1>2, OthersIInv DEF Activation
<1>3. CASE \E s \in Sensors :
             \/ Measure(s) \/ ActivateSame(s) \/ EnableReporting(s)
             \/ EnableKxsd9(s) \/ Disable(s)
  BY <1>3, OthersIInv
<1>4. CASE UNCHANGED vars
  BY <1>4 DEF vars, IInv, TypeOK, RingsSound, AtSensor
<1>5. CASE PollFails
  BY <1>5, FailIInv
<1> QED BY <1>1, <1>2, <1>3, <1>4, <1>5 DEF Next

\* The variables keep their types and every ring stays sound: between them the
\* poll thread, the thread in activate() and the devices never put mHead and
\* mCurr out of step, and fill() never writes past its array.
THEOREM RingsStaySound == Spec => [](TypeOK /\ RingsSound)
<1>1. IInv => TypeOK /\ RingsSound
  BY DEF IInv
<1> QED BY InitIInv, StepIInv, <1>1, PTL DEF Spec

\* TypeOK: its bounds are the code's own.  A pollEvents() returns no more events
\* than the caller's array has room for, and the driver it is at is one of mSensors.
THEOREM TypeCorrect == Spec => []TypeOK
<1> QED BY RingsStaySound, PTL

-----------------------------------------------------------------------------
(* Pairs of events.                                                          *)

\* What may stand in a place of a reader's ring, or in mPendingEvent.
Cell == Slot \cup Level

\* Whole reports, one after the other: a value, then "syn".
Paired(w) ==
  /\ w \in Seq(Cell)
  /\ \E k \in Nat : Len(w) = 2 * k
  /\ \A i \in 1 .. Len(w) : (\E j \in Nat : i = 2 * j) => w[i] = "syn"
  /\ \A i \in 1 .. Len(w) : (\E j \in Nat : i = 2 * j + 1) => w[i] \in Level

LEMMA Halves ==
  ASSUME NEW k \in Nat PROVE (2 * k) \div 2 = k /\ (2 * k + 2) \div 2 = k + 1
OBVIOUS

LEMMA Slots ==
  /\ Values \subseteq Level /\ Level \subseteq Cell /\ Slot \subseteq Cell
  /\ "syn" \in Cell /\ "syn" \notin Level
BY ParamsAssumption DEF Slot, Cell, Level

LEMMA PairsParts ==
  ASSUME NEW w, Paired(w), NEW k \in Nat, Len(w) = 2 * k
  PROVE  /\ Pairs(w) \in Seq(Level) /\ Len(Pairs(w)) = k
         /\ \A i \in 1 .. k : Pairs(w)[i] = w[2 * i - 1]
<1>1. Len(w) \div 2 = k
  BY Halves
<1>2. Pairs(w) = [i \in 1 .. k |-> w[2 * i - 1]]
  BY <1>1 DEF Pairs
<1>3. ASSUME NEW i \in 1 .. k PROVE w[2 * i - 1] \in Level
  <2>1. 2 * i - 1 \in 1 .. Len(w) /\ i - 1 \in Nat /\ 2 * i - 1 = 2 * (i - 1) + 1
    OBVIOUS
  <2> QED BY <2>1 DEF Paired
<1> QED BY <1>2, <1>3

\* A report is made.
LEMMA PairsAppend ==
  ASSUME NEW w, Paired(w), NEW v \in Values
  PROVE  LET x == w \o <<v, "syn">> IN Paired(x) /\ Pairs(x) = Append(Pairs(w), v)
<1> DEFINE x == w \o <<v, "syn">>
<1>1. PICK k \in Nat : Len(w) = 2 * k
  BY DEF Paired
<1>2. /\ w \in Seq(Cell) /\ <<v, "syn">> \in Seq(Cell) /\ Len(<<v, "syn">>) = 2
      /\ <<v, "syn">>[1] = v /\ <<v, "syn">>[2] = "syn"
  BY Slots DEF Paired
<1>3. /\ x \in Seq(Cell) /\ Len(x) = 2 * k + 2
      /\ \A i \in 1 .. 2 * k : x[i] = w[i]
      /\ x[2 * k + 1] = v /\ x[2 * k + 2] = "syn"
  BY <1>1, <1>2, ConcatProperties
<1> HIDE DEF x
<1>4. Paired(x)
  <2>1. ASSUME NEW i \in 1 .. 2 * k + 2, NEW j \in Nat, i = 2 * j PROVE x[i] = "syn"
    <3>1. i \in 1 .. 2 * k \/ i = 2 * k + 2
      BY <2>1
    <3> QED BY <1>1, <1>3, <2>1, <3>1 DEF Paired
  <2>2. ASSUME NEW i \in 1 .. 2 * k + 2, NEW j \in Nat, i = 2 * j + 1 PROVE x[i] \in Level
    <3>1. i \in 1 .. 2 * k \/ i = 2 * k + 1
      BY <2>2
    <3> QED BY <1>1, <1>3, <2>2, <3>1, Slots DEF Paired
  <2>3. 2 * k + 2 = 2 * (k + 1) /\ k + 1 \in Nat
    OBVIOUS
  <2> QED BY <1>3, <2>1, <2>2, <2>3 DEF Paired
<1>5. /\ Pairs(w) \in Seq(Level) /\ Len(Pairs(w)) = k
      /\ \A i \in 1 .. k : Pairs(w)[i] = w[2 * i - 1]
  BY <1>1, PairsParts
<1>6. /\ Pairs(x) \in Seq(Level) /\ Len(Pairs(x)) = k + 1
      /\ \A i \in 1 .. k + 1 : Pairs(x)[i] = x[2 * i - 1]
  <2>1. Len(x) = 2 * (k + 1) /\ k + 1 \in Nat
    BY <1>3
  <2> QED BY <1>4, <2>1, PairsParts
<1>7. /\ Append(Pairs(w), v) \in Seq(Level) /\ Len(Append(Pairs(w), v)) = k + 1
      /\ \A i \in 1 .. k : Append(Pairs(w), v)[i] = Pairs(w)[i]
      /\ Append(Pairs(w), v)[k + 1] = v
  BY <1>5, Slots, AppendProperties
<1>8. ASSUME NEW i \in 1 .. k + 1 PROVE Pairs(x)[i] = Append(Pairs(w), v)[i]
  <2>1. CASE i = k + 1
    <3>1. 2 * i - 1 = 2 * k + 1
      BY <2>1
    <3> QED BY <1>3, <1>6, <1>7, <2>1, <3>1
  <2>2. CASE i \in 1 .. k
    <3>1. 2 * i - 1 \in 1 .. 2 * k
      BY <2>2
    <3> QED BY <1>3, <1>5, <1>6, <1>7, <2>2, <3>1
  <2>3. i = k + 1 \/ i \in 1 .. k
    OBVIOUS
  <2> QED BY <2>1, <2>2, <2>3
<1>9. Pairs(x) = Append(Pairs(w), v)
  BY <1>6, <1>7, <1>8, SeqEqual
<1> QED BY <1>4, <1>9 DEF x

\* The oldest report.
LEMMA PairsFirst ==
  ASSUME NEW w, Paired(w), w # <<>>
  PROVE  Pairs(w) # <<>> /\ Head(Pairs(w)) = w[1]
<1>1. PICK k \in Nat : Len(w) = 2 * k
  BY DEF Paired
<1>2. w \in Seq(Cell) /\ k # 0
  BY <1>1, EmptySeq DEF Paired
<1>3. /\ Pairs(w) \in Seq(Level) /\ Len(Pairs(w)) = k
      /\ \A i \in 1 .. k : Pairs(w)[i] = w[2 * i - 1]
  BY <1>1, PairsParts
<1>4. Pairs(w) # <<>>
  BY <1>2, <1>3, EmptySeq
<1>5. Head(Pairs(w)) = Pairs(w)[1]
  BY <1>3, <1>4, HeadTailProperties
<1>6. 1 \in 1 .. k /\ 2 * 1 - 1 = 1
  BY <1>2
<1> QED BY <1>3, <1>4, <1>5, <1>6

\* The first report is delivered.
LEMMA PairsDrop ==
  ASSUME NEW w, Paired(w), w # <<>>, NEW x \in Seq(Cell), Len(x) = Len(w) - 2,
         \A i \in 1 .. Len(x) : x[i] = w[i + 2]
  PROVE  /\ Paired(x) /\ Pairs(w) # <<>> /\ Head(Pairs(w)) = w[1]
         /\ Pairs(x) = Tail(Pairs(w))
<1>1. PICK k \in Nat : Len(w) = 2 * k
  BY DEF Paired
<1>2. w \in Seq(Cell) /\ k # 0
  BY <1>1, EmptySeq DEF Paired
<1>3. k - 1 \in Nat /\ Len(x) = 2 * (k - 1)
  BY <1>1, <1>2
<1>4. Paired(x)
  <2>1. ASSUME NEW i \in 1 .. Len(x), NEW j \in Nat, i = 2 * j PROVE x[i] = "syn"
    <3>1. i + 2 \in 1 .. Len(w) /\ i + 2 = 2 * (j + 1) /\ j + 1 \in Nat
      BY <1>1, <1>3, <2>1
    <3>2. w[i + 2] = "syn"
      BY <3>1 DEF Paired
    <3> QED BY <3>2
  <2>2. ASSUME NEW i \in 1 .. Len(x), NEW j \in Nat, i = 2 * j + 1 PROVE x[i] \in Level
    <3>1. i + 2 \in 1 .. Len(w) /\ i + 2 = 2 * (j + 1) + 1 /\ j + 1 \in Nat
      BY <1>1, <1>3, <2>2
    <3>2. w[i + 2] \in Level
      BY <3>1 DEF Paired
    <3> QED BY <3>2
  <2> QED BY <1>3, <2>1, <2>2 DEF Paired
<1>5. /\ Pairs(w) \in Seq(Level) /\ Len(Pairs(w)) = k
      /\ \A i \in 1 .. k : Pairs(w)[i] = w[2 * i - 1]
  BY <1>1, PairsParts
<1>6. /\ Pairs(x) \in Seq(Level) /\ Len(Pairs(x)) = k - 1
      /\ \A i \in 1 .. k - 1 : Pairs(x)[i] = x[2 * i - 1]
  BY <1>3, <1>4, PairsParts
<1>7. Pairs(w) # <<>>
  BY <1>2, <1>5, EmptySeq
<1>8. /\ Head(Pairs(w)) = Pairs(w)[1]
      /\ Tail(Pairs(w)) \in Seq(Level) /\ Len(Tail(Pairs(w))) = k - 1
      /\ \A i \in 1 .. k - 1 : Tail(Pairs(w))[i] = Pairs(w)[i + 1]
  BY <1>5, <1>7, HeadTailProperties
<1>9. ASSUME NEW i \in 1 .. k - 1 PROVE Pairs(x)[i] = Tail(Pairs(w))[i]
  <2>1. /\ 2 * i - 1 \in 1 .. Len(x) /\ i + 1 \in 1 .. k
        /\ (2 * i - 1) + 2 = 2 * (i + 1) - 1
    BY <1>3
  <2>2. x[2 * i - 1] = w[(2 * i - 1) + 2]
    BY <2>1
  <2> QED BY <1>5, <1>6, <1>8, <2>1, <2>2
<1>10. Pairs(x) = Tail(Pairs(w))
  BY <1>6, <1>8, <1>9, SeqEqual
<1>11. Pairs(w)[1] = w[1]
  <2>1. 1 \in 1 .. k /\ 2 * 1 - 1 = 1
    BY <1>2
  <2> QED BY <1>5, <2>1
<1> QED BY <1>4, <1>7, <1>8, <1>10, <1>11

\* The first value is replaced.
LEMMA PairsSwap ==
  ASSUME NEW w, Paired(w), w # <<>>, NEW v \in Level, NEW x \in Seq(Cell), Len(x) = Len(w),
         x[1] = v, \A i \in 2 .. Len(w) : x[i] = w[i]
  PROVE  Paired(x) /\ Pairs(w) # <<>> /\ Pairs(x) = <<v>> \o Tail(Pairs(w))
<1>1. PICK k \in Nat : Len(w) = 2 * k
  BY DEF Paired
<1>2. w \in Seq(Cell) /\ k # 0
  BY <1>1, EmptySeq DEF Paired
<1>3. Paired(x)
  <2>1. ASSUME NEW i \in 1 .. Len(x), NEW j \in Nat, i = 2 * j PROVE x[i] = "syn"
    <3>1. i \in 2 .. Len(w) /\ i \in 1 .. Len(w)
      BY <1>1, <2>1
    <3> QED BY <2>1, <3>1 DEF Paired
  <2>2. ASSUME NEW i \in 1 .. Len(x), NEW j \in Nat, i = 2 * j + 1 PROVE x[i] \in Level
    <3>1. CASE i = 1
      BY <3>1
    <3>2. CASE i # 1
      <4>1. i \in 2 .. Len(w) /\ i \in 1 .. Len(w)
        BY <1>1, <3>2
      <4> QED BY <2>2, <4>1 DEF Paired
    <3> QED BY <3>1, <3>2
  <2> QED BY <1>1, <2>1, <2>2 DEF Paired
<1>4. /\ Pairs(w) \in Seq(Level) /\ Len(Pairs(w)) = k
      /\ \A i \in 1 .. k : Pairs(w)[i] = w[2 * i - 1]
  BY <1>1, PairsParts
<1>5. /\ Pairs(x) \in Seq(Level) /\ Len(Pairs(x)) = k
      /\ \A i \in 1 .. k : Pairs(x)[i] = x[2 * i - 1]
  BY <1>1, <1>3, PairsParts
<1>6. Pairs(w) # <<>>
  BY <1>2, <1>4, EmptySeq
<1>7. /\ Tail(Pairs(w)) \in Seq(Level) /\ Len(Tail(Pairs(w))) = k - 1
      /\ \A i \in 1 .. k - 1 : Tail(Pairs(w))[i] = Pairs(w)[i + 1]
  BY <1>4, <1>6, HeadTailProperties
<1>8. <<v>> \in Seq(Level) /\ Len(<<v>>) = 1 /\ <<v>>[1] = v
  OBVIOUS
<1> DEFINE y == <<v>> \o Tail(Pairs(w))
<1>9. /\ y \in Seq(Level) /\ Len(y) = k /\ y[1] = v
      /\ \A i \in 2 .. k : y[i] = Tail(Pairs(w))[i - 1]
  <2>1. /\ y \in Seq(Level) /\ Len(y) = 1 + (k - 1)
        /\ \A i \in 1 .. 1 + (k - 1) :
             y[i] = IF i <= 1 THEN <<v>>[i] ELSE Tail(Pairs(w))[i - 1]
    BY <1>7, <1>8, ConcatProperties
  <2> HIDE DEF y
  <2>2. 1 + (k - 1) = k /\ 1 \in 1 .. 1 + (k - 1) /\ 2 .. k \subseteq 1 .. 1 + (k - 1)
    BY <1>2
  <2>3. \A i \in 2 .. k : ~(i <= 1)
    OBVIOUS
  <2>4. y[1] = <<v>>[1]
    BY <2>1, <2>2
  <2>5. ASSUME NEW i \in 2 .. k PROVE y[i] = Tail(Pairs(w))[i - 1]
    BY <2>1, <2>2, <2>3
  <2>6. y \in Seq(Level) /\ Len(y) = k
    BY <2>1, <2>2
  <2> QED BY <1>8, <2>4, <2>5, <2>6
<1> HIDE DEF y
<1>10. ASSUME NEW i \in 1 .. k PROVE Pairs(x)[i] = y[i]
  <2>1. CASE i = 1
    <3>1. 2 * i - 1 = 1
      BY <2>1
    <3> QED BY <1>5, <1>9, <2>1, <3>1
  <2>2. CASE i # 1
    <3>1. /\ 2 * i - 1 \in 2 .. Len(w) /\ i \in 2 .. k /\ i - 1 \in 1 .. k - 1
          /\ (i - 1) + 1 = i
      BY <1>1, <2>2
    <3> QED BY <1>4, <1>5, <1>7, <1>9, <3>1
  <2> QED BY <2>1, <2>2
<1>11. Pairs(x) = y
  BY <1>5, <1>9, <1>10, SeqEqual
<1> QED BY <1>3, <1>6, <1>11 DEF y

-----------------------------------------------------------------------------
(* The reports of the sensors.                                               *)

\* What the poll thread has left in a ring and its device are whole reports,
\* but for a first value it has read; and who is asked to report the present
\* state is enabled.
Streams ==
  /\ \A s \in Sensors : Paired(Whole(s))
  /\ \A s \in Sensors : Activating(s, "initial") \/ Activating(s, "value") => enabled[s]

LEMMA Widened ==
  ASSUME NEW q
  PROVE  q \in Seq(Slot) \/ q \in Seq(Events) => q \in Seq(Cell)
<1>1. Slot \subseteq Cell /\ Events \subseteq Cell
  BY DEF Cell, Slot
<1> QED BY <1>1

LEMMA UnreadTyped ==
  ASSUME IInv, NEW s \in Sensors
  PROVE  /\ Contents(ring[s]) \in Seq(Cell) /\ queue[s] \in Seq(Cell)
         /\ Unread(s) \in Seq(Cell) /\ Len(Unread(s)) \in Nat
<1>1. Contents(ring[s]) \in Seq(Cell)
  <2>1. Contents(ring[s]) \in Seq(Slot)
    BY RingHas, ContentsParts DEF IInv
  <2> QED BY <2>1, Widened
<1>2. queue[s] \in Seq(Cell)
  <2>1. queue[s] \in Seq(Events)
    BY DEF IInv, TypeOK
  <2> QED BY <2>1, Widened
<1>3. Unread(s) \in Seq(Cell)
  BY <1>1, <1>2, ConcatProperties DEF Unread
<1> QED BY <1>1, <1>2, <1>3

LEMMA Associates ==
  ASSUME NEW a \in Seq(Cell), NEW b \in Seq(Cell), NEW c \in Seq(Cell)
  PROVE  a \o (b \o c) = (a \o b) \o c
<1>1. \A S : \A x, y, z \in Seq(S) : (x \o y) \o z = x \o (y \o z)
  BY ConcatAssociative, Zenon
<1> QED BY <1>1

\* A step that touches nobody's events.
LEMMA SameReports ==
  ASSUME UNCHANGED <<queue, ring, last>>, Streams
  PROVE  \A s \in Sensors : Reports(s)' = Reports(s) /\ Paired(Whole(s)')
BY DEF Reports, Whole, HalfRead, Unread, Streams

\* A step of one sensor leaves the others' reports.
LEMMA OtherReports ==
  ASSUME IInv, Streams, NEW s \in Sensors,
         NEW q, queue' = queue \/ queue' = [queue EXCEPT ![s] = q],
         NEW r, ring' = ring \/ ring' = [ring EXCEPT ![s] = r],
         NEW v, last' = last \/ last' = [last EXCEPT ![s] = v],
         Paired(Whole(s)')
  PROVE  /\ \A u \in Sensors : Paired(Whole(u)')
         /\ \A u \in Sensors \ {s} : Reports(u)' = Reports(u)
<1>1. ASSUME NEW u \in Sensors \ {s}
      PROVE  queue'[u] = queue[u] /\ ring'[u] = ring[u] /\ last'[u] = last[u]
  BY DEF IInv, TypeOK
<1>2. ASSUME NEW u \in Sensors \ {s} PROVE Whole(u)' = Whole(u)
  BY <1>1 DEF Whole, HalfRead, Unread
<1>3. ASSUME NEW u \in Sensors \ {s} PROVE Reports(u)' = Reports(u) /\ Paired(Whole(u)')
  BY <1>2 DEF Reports, Streams
<1> QED BY <1>3

LEMMA WholeParts ==
  ASSUME IInv, NEW s \in Sensors
  PROVE  /\ ~HalfRead(s) => Whole(s) = Unread(s)
         /\ HalfRead(s) =>
              /\ Whole(s) \in Seq(Cell) /\ Len(Whole(s)) = Len(Unread(s)) + 1
              /\ Whole(s)[1] = last[s]
              /\ \A i \in 1 .. Len(Unread(s)) : Whole(s)[i + 1] = Unread(s)[i]
<1>1. /\ <<last[s]>> \in Seq(Cell) /\ Len(<<last[s]>>) = 1 /\ <<last[s]>>[1] = last[s]
      /\ Unread(s) \in Seq(Cell) /\ Len(Unread(s)) \in Nat
  BY Slots, UnreadTyped DEF IInv, TypeOK
<1> DEFINE w == <<last[s]>> \o Unread(s)
<1>2. /\ w \in Seq(Cell) /\ Len(w) = 1 + Len(Unread(s))
      /\ \A i \in 1 .. 1 + Len(Unread(s)) :
           w[i] = IF i <= 1 THEN <<last[s]>>[i] ELSE Unread(s)[i - 1]
  BY <1>1, ConcatProperties
<1> HIDE DEF w
<1>3. w[1] = last[s]
  <2>1. 1 \in 1 .. 1 + Len(Unread(s))
    BY <1>1
  <2> QED BY <1>1, <1>2, <2>1
<1>4. ASSUME NEW i \in 1 .. Len(Unread(s)) PROVE w[i + 1] = Unread(s)[i]
  <2>1. i + 1 \in 1 .. 1 + Len(Unread(s)) /\ ~(i + 1 <= 1) /\ (i + 1) - 1 = i
    BY <1>1
  <2> QED BY <1>2, <2>1
<1>5. HalfRead(s) => Whole(s) = w
  BY DEF Whole, w
<1>6. Len(w) = Len(Unread(s)) + 1
  BY <1>1, <1>2
<1>7. ~HalfRead(s) => Whole(s) = Unread(s)
  BY DEF Whole
<1> QED BY <1>2, <1>3, <1>4, <1>5, <1>6, <1>7

\* Measure(): a report is made.
LEMMA MeasureReports ==
  ASSUME IInv, Streams, NEW s \in Sensors, NEW v \in Values,
         UNCHANGED <<ring, last>>, queue' = [queue EXCEPT ![s] = @ \o <<v, "syn">>]
  PROVE  Paired(Whole(s)') /\ Reports(s)' = Append(Reports(s), v)
<1> DEFINE two == <<v, "syn">>
<1>1. /\ Contents(ring[s]) \in Seq(Cell) /\ queue[s] \in Seq(Cell)
      /\ Unread(s) \in Seq(Cell) /\ Len(Unread(s)) \in Nat
  BY UnreadTyped
<1>2. two \in Seq(Cell) /\ two # <<>> /\ Head(two) = v
  BY Slots
<1> HIDE DEF two
<1>3. Unread(s)' = Unread(s) \o two
  <2>1. queue'[s] = queue[s] \o two
    BY DEF IInv, TypeOK, two
  <2>2. Contents(ring[s]) \o (queue[s] \o two) = (Contents(ring[s]) \o queue[s]) \o two
    BY <1>1, <1>2, Associates
  <2> QED BY <2>1, <2>2 DEF Unread
<1>4. HalfRead(s)' <=> HalfRead(s)
  <2>1. CASE Unread(s) = <<>>
    <3>1. Unread(s)' = two
      BY <1>2, <1>3, <2>1, ConcatEmptySeq
    <3> QED BY <1>2, <2>1, <3>1, Slots DEF HalfRead
  <2>2. CASE Unread(s) # <<>>
    <3>1. Unread(s)' # <<>> /\ Head(Unread(s)') = Head(Unread(s))
      BY <1>1, <1>2, <1>3, <2>2, ConcatProperties
    <3> QED BY <2>2, <3>1 DEF HalfRead
  <2> QED BY <2>1, <2>2
<1>5. Whole(s)' = Whole(s) \o two
  <2>1. CASE HalfRead(s)
    <3>1. <<last[s]>> \o (Unread(s) \o two) = (<<last[s]>> \o Unread(s)) \o two
      <4>1. <<last[s]>> \in Seq(Cell)
        BY Slots DEF IInv, TypeOK
      <4> QED BY <1>1, <1>2, <4>1, Associates
    <3> QED BY <1>3, <1>4, <2>1, <3>1 DEF Whole
  <2>2. CASE ~HalfRead(s)
    BY <1>3, <1>4, <2>2 DEF Whole
  <2> QED BY <2>1, <2>2
<1> QED BY <1>5, PairsAppend DEF Streams, Reports, two

\* Fill(): the events move from the device to the ring.
LEMMA FillReports ==
  ASSUME IInv, Streams, NEW s \in Sensors, Fill(s)
  PROVE  Paired(Whole(s)') /\ Reports(s)' = Reports(s)
<1> DEFINE n == IF ring[s].free < Len(queue[s]) THEN ring[s].free ELSE Len(queue[s])
           es == SubSeq(queue[s], 1, n)
           rest == SubSeq(queue[s], n + 1, Len(queue[s]))
<1>1. /\ Sound(ring[s]) /\ ring[s].size \in Nat \ {0} /\ ring[s].free \in Nat
  BY RingHas DEF IInv
<1>2. queue[s] \in Seq(Events) /\ Len(queue[s]) \in Nat
  BY DEF IInv, TypeOK
<1>3. n \in Nat /\ n <= Len(queue[s]) /\ n <= ring[s].free
  BY <1>1, <1>2
<1>4. /\ ring'[s] = Filled(ring[s], es) /\ queue'[s] = rest /\ last' = last
  BY DEF Fill, IInv, TypeOK
<1> HIDE DEF n
<1>5. /\ es \in Seq(Events) /\ Len(es) = n
      /\ rest \in Seq(Events) /\ Len(rest) = Len(queue[s]) - n
  BY <1>3, ReadParts DEF IInv
<1>6. es \o rest = queue[s]
  <2>1. /\ \A i \in 1 .. n : es[i] = queue[s][i]
        /\ \A i \in 1 .. Len(queue[s]) - n : rest[i] = queue[s][n + i]
    <3>1. \A i \in 1 .. n : queue[s][i] \in Events
      BY <1>2, <1>3
    <3>2. \A i \in n + 1 .. Len(queue[s]) : queue[s][i] \in Events
      BY <1>2, <1>3
    <3>3. \A i \in 1 .. n : es[i] = queue[s][1 + i - 1]
      BY <1>2, <1>3, <3>1, SubSeqProperties
    <3>4. \A i \in 1 .. Len(queue[s]) - n : rest[i] = queue[s][(n + 1) + i - 1]
      BY <1>2, <1>3, <3>2, SubSeqProperties
    <3> HIDE DEF es, rest
    <3> QED BY <1>3, <1>2, <3>3, <3>4
  <2> HIDE DEF es, rest
  <2>2. /\ es \o rest \in Seq(Events) /\ Len(es \o rest) = Len(es) + Len(rest)
        /\ \A i \in 1 .. Len(es) + Len(rest) :
             (es \o rest)[i] = IF i <= Len(es) THEN es[i] ELSE rest[i - Len(es)]
    BY <1>5, ConcatProperties
  <2>3. Len(es \o rest) = Len(queue[s])
    BY <1>2, <1>3, <1>5, <2>2
  <2>4. ASSUME NEW i \in 1 .. Len(queue[s]) PROVE (es \o rest)[i] = queue[s][i]
    <3>1. CASE i <= n
      BY <1>2, <1>3, <1>5, <2>1, <2>2, <3>1
    <3>2. CASE ~(i <= n)
      <4>1. i - n \in 1 .. Len(queue[s]) - n /\ n + (i - n) = i
        BY <1>2, <1>3, <3>2
      <4>2. (es \o rest)[i] = rest[i - n]
        BY <1>2, <1>3, <1>5, <2>2, <3>2
      <4>3. rest[i - n] = queue[s][n + (i - n)]
        BY <2>1, <4>1
      <4> QED BY <4>1, <4>2, <4>3
    <3> QED BY <3>1, <3>2
  <2> QED BY <1>2, <2>2, <2>3, <2>4, SeqEqual
<1> HIDE DEF es, rest
<1>7. Contents(ring'[s]) = Contents(ring[s]) \o es
  BY <1>1, <1>3, <1>4, <1>5, FilledContents
<1>8. Unread(s)' = Unread(s)
  <2>1. Contents(ring[s]) \in Seq(Cell) /\ es \in Seq(Cell) /\ rest \in Seq(Cell)
    BY <1>5, UnreadTyped, Widened
  <2>2. (Contents(ring[s]) \o es) \o rest = Contents(ring[s]) \o (es \o rest)
    BY <2>1, Associates
  <2> QED BY <1>4, <1>6, <1>7, <2>2 DEF Unread
<1> QED BY <1>4, <1>8 DEF Whole, HalfRead, Reports, Streams

\* next(): the oldest unread event goes.
LEMMA AdvancedUnread ==
  ASSUME IInv, NEW s \in Sensors, Available(ring[s]), queue' = queue,
         ring' = [ring EXCEPT ![s] = Advanced(@)]
  PROVE  /\ Unread(s) # <<>> /\ Head(Unread(s)) = Event(ring[s])
         /\ Unread(s)' = Tail(Unread(s))
<1>1. Sound(ring[s]) /\ ring[s].size \in Nat \ {0} /\ ring'[s] = Advanced(ring[s])
  BY RingHas DEF IInv, TypeOK
<1>2. /\ Contents(ring[s]) # <<>> /\ Event(ring[s]) = Head(Contents(ring[s]))
      /\ Contents(ring'[s]) = Tail(Contents(ring[s]))
  BY <1>1, AdvancedContents
<1>3. Contents(ring[s]) \in Seq(Cell) /\ queue[s] \in Seq(Cell)
  BY UnreadTyped
<1>4. ASSUME NEW a \in Seq(Cell), NEW b \in Seq(Cell), a # <<>>
      PROVE  a \o b # <<>> /\ Head(a \o b) = Head(a) /\ Tail(a \o b) = Tail(a) \o b
  BY <1>4, ConcatProperties
<1> QED BY <1>2, <1>3, <1>4 DEF Unread

\* ReadValue(): the report is half read.
LEMMA ValueReports ==
  ASSUME IInv, Streams, NEW s \in Sensors, ReadValue(s)
  PROVE  /\ Paired(Whole(s)') /\ Reports(s)' = Reports(s)
         /\ Reports(s) # <<>> /\ Head(Reports(s)) = Event(ring[s])
<1> DEFINE w == Unread(s)
           v == Head(w)
<1>1. /\ w # <<>> /\ v = Event(ring[s]) /\ Unread(s)' = Tail(w)
      /\ last'[s] = v /\ v \in Values
  <2>1. w # <<>> /\ v = Event(ring[s]) /\ Unread(s)' = Tail(w)
    BY AdvancedUnread DEF ReadValue, Reading
  <2>2. last'[s] = Event(ring[s]) /\ Event(ring[s]) \in Values
    BY DEF ReadValue, IInv, TypeOK
  <2> QED BY <2>1, <2>2
<1>2. w \in Seq(Cell) /\ Len(w) \in Nat
  BY UnreadTyped
<1>3. ~HalfRead(s) /\ Whole(s) = w
  BY <1>1, Slots DEF HalfRead, Whole
<1> HIDE DEF w
<1>4. PICK k \in Nat : Len(w) = 2 * k
  BY <1>3 DEF Streams, Paired
<1>5. /\ Tail(w) \in Seq(Cell) /\ Len(Tail(w)) = 2 * k - 1
      /\ \A i \in 1 .. Len(w) - 1 : Tail(w)[i] = w[i + 1]
  BY <1>1, <1>2, <1>4, HeadTailProperties
<1>6. k # 0
  BY <1>1, <1>2, <1>4, EmptySeq
<1>7. Tail(w) # <<>> /\ Head(Tail(w)) = "syn"
  <2>1. 2 \in 1 .. Len(w) /\ 2 = 2 * 1 /\ 1 \in Nat /\ 1 \in 1 .. Len(w) - 1 /\ 1 + 1 = 2
    BY <1>4, <1>6
  <2>2. w[2] = "syn"
    BY <1>3, <2>1 DEF Streams, Paired
  <2>3. Tail(w)[1] = "syn"
    BY <1>5, <2>1, <2>2
  <2>4. Len(Tail(w)) # 0
    <3>1. 2 * k - 1 # 0
      OBVIOUS
    <3> QED BY <1>5, <3>1
  <2>5. Tail(w) # <<>>
    BY <1>5, <2>4, EmptySeq
  <2> QED BY <1>5, <2>3, <2>5, HeadTailProperties
<1>8. HalfRead(s)'
  BY <1>1, <1>7 DEF HalfRead
<1>9. <<v>> \o Tail(w) = w
  BY <1>1, <1>2, HeadTailProperties
<1>10. Whole(s)' = Whole(s)
  BY <1>1, <1>3, <1>8, <1>9 DEF Whole
<1>11. Pairs(w) # <<>> /\ Head(Pairs(w)) = w[1]
  BY <1>1, <1>3, PairsFirst DEF Streams
<1>12. w[1] = v
  BY <1>1, <1>2, HeadTailProperties
<1> QED BY <1>1, <1>3, <1>10, <1>11, <1>12 DEF Streams, Reports

\* ReadSyn(): the oldest report is delivered, with the value that has been read.
LEMMA SynReports ==
  ASSUME IInv, Streams, NEW s \in Sensors, ReadSyn(s)
  PROVE  /\ Paired(Whole(s)') /\ Reports(s) # <<>> /\ Head(Reports(s)) = last[s]
         /\ Reports(s)' = Tail(Reports(s))
<1> DEFINE u == Unread(s)
           w == Whole(s)
<1>1. u # <<>> /\ Head(u) = "syn" /\ Unread(s)' = Tail(u)
  BY AdvancedUnread DEF ReadSyn, Reading
<1>2. u \in Seq(Cell) /\ Len(u) \in Nat
  BY UnreadTyped
<1>3. /\ w \in Seq(Cell) /\ Len(w) = Len(u) + 1 /\ w[1] = last[s]
      /\ \A i \in 1 .. Len(u) : w[i + 1] = u[i]
  BY <1>1, WholeParts DEF HalfRead
<1>4. Paired(w)
  BY DEF Streams
<1> HIDE DEF u, w
<1>5. /\ Tail(u) \in Seq(Cell) /\ Len(Tail(u)) = Len(u) - 1
      /\ \A i \in 1 .. Len(u) - 1 : Tail(u)[i] = u[i + 1]
  BY <1>1, <1>2, HeadTailProperties
<1>6. \A i \in 1 .. Len(Tail(u)) : Tail(u)[i] = w[i + 2]
  <2> TAKE i \in 1 .. Len(Tail(u))
  <2>1. i \in 1 .. Len(u) - 1 /\ i + 1 \in 1 .. Len(u) /\ (i + 1) + 1 = i + 2
    BY <1>2, <1>5
  <2> QED BY <1>3, <1>5, <2>1
<1>7. w # <<>> /\ Len(Tail(u)) = Len(w) - 2
  BY <1>2, <1>3, <1>5, EmptySeq
<1>8. /\ Paired(Tail(u)) /\ Pairs(w) # <<>> /\ Head(Pairs(w)) = w[1]
      /\ Pairs(Tail(u)) = Tail(Pairs(w))
  BY <1>4, <1>5, <1>6, <1>7, PairsDrop
<1>9. Tail(u) # <<>> => Head(Tail(u)) # "syn"
  <2> SUFFICES ASSUME Tail(u) # <<>> PROVE Head(Tail(u)) # "syn"
    OBVIOUS
  <2>1. Len(Tail(u)) # 0 /\ Head(Tail(u)) = Tail(u)[1]
    BY <1>5, EmptySeq, HeadTailProperties
  <2>2. 1 \in 1 .. Len(Tail(u)) /\ 1 = 2 * 0 + 1 /\ 0 \in Nat
    BY <1>2, <1>5, <2>1
  <2>3. Tail(u)[1] \in Level
    BY <1>8, <2>2 DEF Paired
  <2> QED BY <2>1, <2>3, Slots
<1>10. Whole(s)' = Tail(u)
  BY <1>1, <1>9 DEF Whole, HalfRead
<1> QED BY <1>3, <1>8, <1>10 DEF Reports, w

\* UseSample(): a report that is half read takes the sample over.
LEMMA SampleReports ==
  ASSUME IInv, Streams, NEW s \in Sensors, NEW v \in Level, UNCHANGED <<queue, ring>>,
         last' = [last EXCEPT ![s] = v]
  PROVE  /\ Paired(Whole(s)')
         /\ \/ Reports(s)' = Reports(s)
            \/ /\ Reports(s) # <<>> /\ Head(Reports(s)) = last[s]
               /\ Reports(s)' = <<v>> \o Tail(Reports(s))
<1> DEFINE u == Unread(s)
           w == Whole(s)
           x == <<v>> \o u
<1>1. Unread(s)' = u /\ (HalfRead(s)' <=> HalfRead(s)) /\ last'[s] = v
  BY DEF Unread, HalfRead, IInv, TypeOK
<1>2. CASE ~HalfRead(s)
  <2>1. Whole(s)' = Whole(s)
    BY <1>1, <1>2 DEF Whole
  <2> QED BY <2>1 DEF Reports, Streams
<1>3. CASE HalfRead(s)
  <2>1. Whole(s)' = x
    BY <1>1, <1>3 DEF Whole
  <2>2. /\ w \in Seq(Cell) /\ Len(w) = Len(u) + 1 /\ w[1] = last[s]
        /\ \A i \in 1 .. Len(u) : w[i + 1] = u[i]
    BY <1>3, WholeParts
  <2>3. u \in Seq(Cell) /\ Len(u) \in Nat /\ <<v>> \in Seq(Cell) /\ Len(<<v>>) = 1 /\ <<v>>[1] = v
    BY UnreadTyped, Slots
  <2>4. Paired(w)
    BY DEF Streams
  <2>5. Reports(s) = Pairs(w) /\ Reports(s)' = Pairs(x)
    BY <2>1 DEF Reports
  <2> HIDE DEF u, w
  <2>6. /\ x \in Seq(Cell) /\ Len(x) = 1 + Len(u)
        /\ \A i \in 1 .. 1 + Len(u) : x[i] = IF i <= 1 THEN <<v>>[i] ELSE u[i - 1]
    BY <2>3, ConcatProperties
  <2> HIDE DEF x
  <2>7. x[1] = v
    <3>1. 1 \in 1 .. 1 + Len(u)
      BY <2>3
    <3> QED BY <2>3, <2>6, <3>1
  <2>8. \A i \in 2 .. Len(w) : x[i] = w[i]
    <3> TAKE i \in 2 .. Len(w)
    <3>1. i \in 1 .. 1 + Len(u) /\ ~(i <= 1) /\ i - 1 \in 1 .. Len(u) /\ (i - 1) + 1 = i
      BY <2>2, <2>3
    <3> QED BY <2>2, <2>6, <3>1
  <2>9. w # <<>> /\ Len(x) = Len(w)
    BY <2>2, <2>3, <2>6, EmptySeq
  <2>10. Paired(x) /\ Pairs(w) # <<>> /\ Pairs(x) = <<v>> \o Tail(Pairs(w))
    BY <2>4, <2>6, <2>7, <2>8, <2>9, PairsSwap
  <2>11. Head(Pairs(w)) = last[s]
    BY <2>2, <2>4, <2>9, PairsFirst
  <2> QED BY <2>1, <2>5, <2>10, <2>11
<1> QED BY <1>2, <1>3

-----------------------------------------------------------------------------
(* The refinement.                                                           *)

LEMMA StreamKept ==
  ASSUME \A u \in Sensors : Reports(u)' = Reports(u)
  PROVE  [u \in Sensors |-> Reports(u)]' = [u \in Sensors |-> Reports(u)]
OBVIOUS

LEMMA StreamChanged ==
  ASSUME NEW s \in Sensors, NEW x, Reports(s)' = x,
         \A u \in Sensors \ {s} : Reports(u)' = Reports(u)
  PROVE  [u \in Sensors |-> Reports(u)]' = [[u \in Sensors |-> Reports(u)] EXCEPT ![s] = x]
OBVIOUS

\* Where the thread in activate() is, when it has looked at a sensor.
LEMMA LookedParts ==
  /\ act = <<"caller">> => Looked = <<>>
  /\ \A s : Activating(s, "initial") \/ Activating(s, "wake") => Looked = <<>>
  /\ \A s : Activating(s, "value") => Looked = <<s, act[3]>>
BY DEF Looked, Activating

LEMMA LookedNext ==
  /\ act' = <<"caller">> => Looked' = <<>>
  /\ \A s : act' = <<"initial", s, "nothing">> => Looked' = <<>>
  /\ \A s : act' = <<"wake", s, "nothing">> => Looked' = <<>>
  /\ \A s, v : act' = <<"value", s, v>> => Looked' = <<s, v>>
  /\ act' = act => Looked' = Looked
BY DEF Looked

\* Whose state is asked for stays enabled, when the thread in activate() goes on to
\* the wake byte or returns.
LEMMA AskedKept ==
  ASSUME Streams, enabled' = enabled,
         \/ act' = act \/ act' = <<"caller">>
         \/ \E s : act' = <<"wake", s, "nothing">>
  PROVE  \A s \in Sensors :
           Activating(s, "initial")' \/ Activating(s, "value")' => enabled'[s]
BY DEF Streams, Activating

\* pollEvents() up to the reading of a sensor, and after it; an activation that
\* has nothing to store: nobody's reports.
LEMMA QuietSteps ==
  ASSUME IInv, Streams,
         \/ Scanned \/ Poll
         \/ \E s \in Sensors : \/ SkipSensor(s) \/ ReadEvents(s) \/ EventsRead(s)
                               \/ ActivateSame(s) \/ Wake(s) \/ SampleFails(s)
  PROVE  Streams' /\ UNCHANGED Stream!svars
<1>1. UNCHANGED <<dev, queue, ring, last, pending, enabled, told, known, got>>
  BY DEF Scanned, Poll, SkipSensor, ReadEvents, EventsRead, ActivateSame, Wake, SampleFails,
         driver, polling
<1>2. \A s \in Sensors : Reports(s)' = Reports(s) /\ Paired(Whole(s)')
  BY <1>1, SameReports
<1>3. [u \in Sensors |-> Reports(u)]' = [u \in Sensors |-> Reports(u)]
  BY <1>2, StreamKept
<1>4. \/ act' = act
      \/ /\ act' = <<"caller">> \/ \E s \in Sensors : act' = <<"wake", s, "nothing">>
         /\ \/ act = <<"caller">>
            \/ \E s \in Sensors : Activating(s, "initial") \/ Activating(s, "wake")
  BY DEF Scanned, Poll, SkipSensor, ReadEvents, EventsRead, ActivateSame, Wake, SampleFails,
         InitialStateSet, Go, Return
<1>5. Streams'
  BY <1>1, <1>2, <1>4, AskedKept DEF Streams
<1>6. Looked' = Looked
  BY <1>4, LookedParts, LookedNext
<1> QED BY <1>1, <1>3, <1>5, <1>6 DEF Stream!svars

\* fill(): the events of a report move, the report does not.
LEMMA FillStep ==
  ASSUME IInv, Streams, NEW s \in Sensors, Fill(s)
  PROVE  Streams' /\ UNCHANGED Stream!svars
<1>1. UNCHANGED <<dev, last, pending, enabled, told, known, got, act>>
  BY DEF Fill, driver
<1>2. Paired(Whole(s)') /\ Reports(s)' = Reports(s)
  BY FillReports
<1>3. /\ \E q : queue' = [queue EXCEPT ![s] = q]
      /\ \E r : ring' = [ring EXCEPT ![s] = r]
  BY DEF Fill
<1>4. /\ \A u \in Sensors : Paired(Whole(u)')
      /\ \A u \in Sensors \ {s} : Reports(u)' = Reports(u)
  BY <1>1, <1>2, <1>3, OtherReports
<1>5. [u \in Sensors |-> Reports(u)]' = [u \in Sensors |-> Reports(u)]
  BY <1>2, <1>4, StreamKept
<1>6. Streams'
  BY <1>1, <1>4 DEF Streams, Activating
<1> QED BY <1>1, <1>5, <1>6, LookedNext DEF Stream!svars

\* ReadValue(): Take.
LEMMA TakeStep ==
  ASSUME IInv, Streams, NEW s \in Sensors, ReadValue(s)
  PROVE  Streams' /\ Stream!Take(s)
<1>1. /\ UNCHANGED <<dev, queue, pending, enabled, told, known, got, act>>
      /\ last' = [last EXCEPT ![s] = Event(ring[s])]
  BY DEF ReadValue, driver
<1>2. /\ Paired(Whole(s)') /\ Reports(s)' = Reports(s)
      /\ Reports(s) # <<>> /\ Head(Reports(s)) = Event(ring[s])
  BY ValueReports
<1>3. \E r : ring' = [ring EXCEPT ![s] = r]
  BY DEF ReadValue
<1>4. /\ \A u \in Sensors : Paired(Whole(u)')
      /\ \A u \in Sensors \ {s} : Reports(u)' = Reports(u)
  BY <1>1, <1>2, <1>3, OtherReports
<1>5. [u \in Sensors |-> Reports(u)]' = [u \in Sensors |-> Reports(u)]
  BY <1>2, <1>4, StreamKept
<1>6. Streams'
  BY <1>1, <1>4 DEF Streams, Activating
<1> QED BY <1>1, <1>2, <1>5, <1>6, LookedNext DEF Stream!Take

\* Measure(): Make.
LEMMA MeasureStep ==
  ASSUME IInv, Streams, NEW s \in Sensors, Measure(s)
  PROVE  Streams' /\ Stream!Make(s)
<1>1. PICK v \in Values \ {dev[s]} : /\ dev' = [dev EXCEPT ![s] = v]
                                    /\ queue' = [queue EXCEPT ![s] = @ \o <<v, "syn">>]
  BY DEF Measure
<1>2. UNCHANGED <<ring, last, pending, enabled, told, known, got, act>>
  BY DEF Measure
<1>3. Paired(Whole(s)') /\ Reports(s)' = Append(Reports(s), v)
  BY <1>1, <1>2, MeasureReports
<1>4. \E q : queue' = [queue EXCEPT ![s] = q]
  BY <1>1
<1>5. /\ \A u \in Sensors : Paired(Whole(u)')
      /\ \A u \in Sensors \ {s} : Reports(u)' = Reports(u)
  BY <1>2, <1>3, <1>4, OtherReports
<1>6. [u \in Sensors |-> Reports(u)]'
        = [[u \in Sensors |-> Reports(u)] EXCEPT ![s] = Append(Reports(s), v)]
  BY <1>3, <1>5, StreamChanged
<1>7. Streams'
  BY <1>2, <1>5 DEF Streams, Activating
<1> QED BY <1>1, <1>2, <1>6, <1>7, LookedNext DEF Stream!Make

\* ReadSyn(): Deliver.
LEMMA SynStep ==
  ASSUME IInv, Streams, NEW s \in Sensors, ReadSyn(s)
  PROVE  Streams' /\ Stream!Deliver(s)
<1>1. UNCHANGED <<dev, queue, last, pending, enabled, known, act>>
  BY DEF ReadSyn, driver
<1>2. /\ Paired(Whole(s)') /\ Reports(s) # <<>> /\ Head(Reports(s)) = last[s]
      /\ Reports(s)' = Tail(Reports(s))
  BY SynReports
<1>3. \E r : ring' = [ring EXCEPT ![s] = r]
  BY DEF ReadSyn
<1>4. /\ \A u \in Sensors : Paired(Whole(u)')
      /\ \A u \in Sensors \ {s} : Reports(u)' = Reports(u)
  BY <1>1, <1>2, <1>3, OtherReports
<1>5. [u \in Sensors |-> Reports(u)]'
        = [[u \in Sensors |-> Reports(u)] EXCEPT ![s] = Tail(Reports(s))]
  BY <1>2, <1>4, StreamChanged
<1>6. Streams'
  BY <1>1, <1>4 DEF Streams, Activating
<1>7. Stream!HandOn(s)
  BY DEF ReadSyn, Silenced, Tell, Stream!HandOn
<1> QED BY <1>1, <1>2, <1>5, <1>6, <1>7, LookedNext DEF Stream!Deliver

\* ReadPending(): DeliverInitial.
LEMMA PendingStep ==
  ASSUME IInv, Streams, NEW s \in Sensors, ReadPending(s)
  PROVE  Streams' /\ Stream!DeliverInitial(s)
<1>1. UNCHANGED <<dev, queue, ring, last, enabled, known, act>>
  BY DEF ReadPending, driver
<1>2. \A u \in Sensors : Reports(u)' = Reports(u) /\ Paired(Whole(u)')
  BY <1>1, SameReports
<1>3. [u \in Sensors |-> Reports(u)]' = [u \in Sensors |-> Reports(u)]
  BY <1>2, StreamKept
<1>4. Streams'
  BY <1>1, <1>2 DEF Streams, Activating
<1>5. pending[s] /\ {u \in Sensors : pending[u]}' = {u \in Sensors : pending[u]} \ {s}
  BY DEF ReadPending, IInv, TypeOK
<1>6. Stream!HandOn(s)
  BY DEF ReadPending, Silenced, Tell, Stream!HandOn
<1> QED BY <1>1, <1>3, <1>4, <1>5, <1>6, LookedNext DEF Stream!DeliverInitial

\* pollEvents() is called: Call.
LEMMA CallStep ==
  ASSUME IInv, Streams, PollEvents
  PROVE  Streams' /\ Stream!Call
<1>1. /\ UNCHANGED <<dev, queue, ring, last, pending, enabled, told, act>>
      /\ got' = 0 /\ known' = told
  BY DEF PollEvents, driver
<1>2. \A u \in Sensors : Reports(u)' = Reports(u) /\ Paired(Whole(u)')
  BY <1>1, SameReports
<1>3. [u \in Sensors |-> Reports(u)]' = [u \in Sensors |-> Reports(u)]
  BY <1>2, StreamKept
<1>4. Streams'
  BY <1>1, <1>2 DEF Streams, Activating
<1> QED BY <1>1, <1>3, <1>4, LookedNext DEF Stream!Call

\* poll() fails: Fail.
LEMMA FailStep ==
  ASSUME IInv, Streams, PollFails
  PROVE  Streams' /\ Stream!Fail
<1>1. /\ UNCHANGED <<dev, queue, ring, last, pending, enabled, known, act>>
      /\ got' = -1 /\ told' = known
  BY DEF PollFails, driver
<1>2. \A u \in Sensors : Reports(u)' = Reports(u) /\ Paired(Whole(u)')
  BY <1>1, SameReports
<1>3. [u \in Sensors |-> Reports(u)]' = [u \in Sensors |-> Reports(u)]
  BY <1>2, StreamKept
<1>4. Streams'
  BY <1>1, <1>2 DEF Streams, Activating
<1> QED BY <1>1, <1>3, <1>4, LookedNext DEF Stream!Fail

\* enable(): Activate.
LEMMA EnableStep ==
  ASSUME IInv, Streams, NEW s \in Sensors, EnableReporting(s) \/ EnableKxsd9(s) \/ Disable(s)
  PROVE  Streams' /\ Stream!Activate(s)
<1>1. /\ UNCHANGED <<dev, queue, ring, last, pending, told, known, got>>
      /\ act = <<"caller">>
  BY DEF EnableReporting, EnableKxsd9, Disable, polling
<1>2. \A u \in Sensors : Reports(u)' = Reports(u) /\ Paired(Whole(u)')
  BY <1>1, SameReports
<1>3. [u \in Sensors |-> Reports(u)]' = [u \in Sensors |-> Reports(u)]
  BY <1>2, StreamKept
<1>4. PICK b \in BOOLEAN : enabled' = [enabled EXCEPT ![s] = b]
  <2>1. TRUE \in BOOLEAN /\ \A w : (s = "kxsd9" /\ ~w) \in BOOLEAN
    OBVIOUS
  <2> QED BY <2>1 DEF EnableReporting, EnableKxsd9, Disable
<1>5. \A u \in Sensors : enabled'[u] = IF u = s THEN b ELSE enabled[u]
  BY <1>4 DEF IInv, TypeOK
<1>6. \/ {u \in Sensors : enabled[u]}' = {u \in Sensors : enabled[u]} \cup {s}
      \/ {u \in Sensors : enabled[u]}' = {u \in Sensors : enabled[u]} \ {s}
  BY <1>5
<1>7. \/ EnableReporting(s) /\ act' = <<"initial", s, "nothing">> /\ enabled'[s]
      \/ act' = <<"caller">> \/ act' = <<"wake", s, "nothing">>
  BY <1>1, <1>5 DEF EnableReporting, EnableKxsd9, Disable, Go, Return, IInv, TypeOK
<1>8. ASSUME NEW u \in Sensors, Activating(u, "initial")' \/ Activating(u, "value")'
      PROVE  enabled'[u]
  BY <1>7, <1>8 DEF Activating
<1>9. Streams'
  BY <1>2, <1>8 DEF Streams
<1>10. Looked = <<>> /\ Looked' = <<>>
  BY <1>1, <1>7, LookedParts, LookedNext
<1> QED BY <1>1, <1>3, <1>6, <1>9, <1>10 DEF Stream!Activate

\* What setInitialState() does to the flags.
LEMMA FlagRaised ==
  ASSUME IInv, NEW s \in Sensors, SampleState(s) \/ UseSample(s)
  PROVE  \/ {u \in Sensors : pending[u]}' = {u \in Sensors : pending[u]}
         \/ {u \in Sensors : pending[u]}' = {u \in Sensors : pending[u]} \cup {s}
<1>1. PICK b \in BOOLEAN : pending' = [pending EXCEPT ![s] = pending[s] \/ b]
  BY DEF SampleState, UseSample
<1>2. \A u \in Sensors : pending'[u] = IF u = s THEN pending[s] \/ b ELSE pending[u]
  BY <1>1 DEF IInv, TypeOK
<1> QED BY <1>2

\* setInitialState(), EVIOCGABS: Look.
LEMMA LookStep ==
  ASSUME IInv, Streams, NEW s \in Sensors, SampleState(s)
  PROVE  Streams' /\ Stream!Look(s)
<1>1. /\ UNCHANGED <<dev, queue, ring, last, enabled, told, known, got>>
      /\ enabled[s] /\ Activating(s, "initial") /\ act' = <<"value", s, Sampled(s)>>
  BY DEF SampleState, driver, polling, Streams
<1>2. \A u \in Sensors : Reports(u)' = Reports(u) /\ Paired(Whole(u)')
  BY <1>1, SameReports
<1>3. [u \in Sensors |-> Reports(u)]' = [u \in Sensors |-> Reports(u)]
  BY <1>2, StreamKept
<1>4. ASSUME NEW u \in Sensors, Activating(u, "initial")' \/ Activating(u, "value")'
      PROVE  enabled'[u]
  BY <1>1, <1>4 DEF Activating
<1>5. Streams'
  BY <1>2, <1>4 DEF Streams
<1>6. Looked = <<>> /\ Looked' = <<s, Sampled(s)>>
  BY <1>1, LookedParts, LookedNext
<1>7. Sampled(s) = IF s \in {"proximity"} THEN dev[s] ELSE "unscaled"
  BY DEF Sampled
<1>8. s \in {u \in Sensors : enabled[u]}
      /\ {u \in Sensors : enabled[u]}' = {u \in Sensors : enabled[u]}
  BY <1>1
<1>9. \/ {u \in Sensors : pending[u]}' = {u \in Sensors : pending[u]}
      \/ {u \in Sensors : pending[u]}' = {u \in Sensors : pending[u]} \cup {s}
  BY FlagRaised
<1> QED BY <1>1, <1>3, <1>5, <1>6, <1>7, <1>8, <1>9 DEF Stream!Look

\* setInitialState(), the value: Store.
LEMMA StoreStep ==
  ASSUME IInv, Streams, NEW s \in Sensors, UseSample(s)
  PROVE  Streams' /\ Stream!Store(s)
<1> DEFINE v == act[3]
<1>1. /\ UNCHANGED <<dev, queue, ring, enabled, told, known, got>>
      /\ Activating(s, "value") /\ last' = [last EXCEPT ![s] = v]
      /\ act' = <<"caller">> \/ act' = <<"wake", s, "nothing">>
  BY DEF UseSample, InitialStateSet, Go, Return, driver, polling
<1>2. v \in Level
  BY <1>1 DEF IInv, TypeOK, Acts, Activating
<1> HIDE DEF v
<1>3. /\ Paired(Whole(s)')
      /\ \/ Reports(s)' = Reports(s)
         \/ /\ Reports(s) # <<>> /\ Head(Reports(s)) = last[s]
            /\ Reports(s)' = <<v>> \o Tail(Reports(s))
  BY <1>1, <1>2, SampleReports
<1>4. /\ \A u \in Sensors : Paired(Whole(u)')
      /\ \A u \in Sensors \ {s} : Reports(u)' = Reports(u)
  BY <1>1, <1>3, OtherReports
<1>5. \/ [u \in Sensors |-> Reports(u)]' = [u \in Sensors |-> Reports(u)]
      \/ /\ Reports(s) # <<>> /\ Head(Reports(s)) = last[s]
         /\ [u \in Sensors |-> Reports(u)]'
              = [[u \in Sensors |-> Reports(u)] EXCEPT ![s] = <<v>> \o Tail(Reports(s))]
  <2>1. CASE Reports(s)' = Reports(s)
    BY <1>4, <2>1, StreamKept
  <2>2. CASE /\ Reports(s) # <<>> /\ Head(Reports(s)) = last[s]
             /\ Reports(s)' = <<v>> \o Tail(Reports(s))
    BY <1>4, <2>2, StreamChanged
  <2> QED BY <1>3, <2>1, <2>2
<1>6. Streams'
  BY <1>1, <1>4, AskedKept DEF Streams
<1>7. Looked = <<s, v>> /\ Looked' = <<>>
  BY <1>1, LookedParts, LookedNext DEF v
<1>8. Looked # <<>> /\ Looked[1] = s /\ Looked[2] = v
  BY <1>7
<1>9. \/ {u \in Sensors : pending[u]}' = {u \in Sensors : pending[u]}
      \/ {u \in Sensors : pending[u]}' = {u \in Sensors : pending[u]} \cup {s}
  BY FlagRaised
<1> QED BY <1>1, <1>5, <1>6, <1>7, <1>8, <1>9 DEF Stream!Store

LEMMA StreamStep ==
  ASSUME IInv, Streams, [Next]_vars
  PROVE  Streams' /\ [Stream!Next]_(Stream!svars)
<1>1. CASE PollThread
  BY <1>1, QuietSteps, FillStep, TakeStep, SynStep, PendingStep, CallStep
     DEF PollThread, Stream!Next
<1>2. CASE Activation
  BY <1>2, QuietSteps, LookStep, StoreStep DEF Activation, Stream!Next
<1>3. CASE \E s \in Sensors :
             \/ Measure(s) \/ ActivateSame(s) \/ EnableReporting(s)
             \/ EnableKxsd9(s) \/ Disable(s)
  BY <1>3, QuietSteps, MeasureStep, EnableStep DEF Stream!Next
<1>4. CASE PollFails
  BY <1>4, FailStep DEF Stream!Next
<1>5. CASE UNCHANGED vars
  <2>1. UNCHANGED <<dev, queue, ring, last, pending, enabled, told, known, got, act>>
    BY <1>5 DEF vars
  <2>2. \A s \in Sensors : Reports(s)' = Reports(s) /\ Paired(Whole(s)')
    BY <2>1, SameReports
  <2>3. [u \in Sensors |-> Reports(u)]' = [u \in Sensors |-> Reports(u)]
    BY <2>2, StreamKept
  <2>4. Streams'
    BY <2>1, <2>2 DEF Streams, Activating
  <2> QED BY <2>1, <2>3, <2>4, LookedNext DEF Stream!svars
<1> QED BY <1>1, <1>2, <1>3, <1>4, <1>5 DEF Next

LEMMA StreamInit == Init => Streams /\ Stream!Init
<1> SUFFICES ASSUME Init PROVE Streams /\ Stream!Init
  OBVIOUS
<1>1. ASSUME NEW s \in Sensors PROVE Whole(s) = <<>>
  <2>1. /\ ring[s] = NewRing(RingSize[s]) /\ RingSize[s] \in Nat \ {0} /\ queue[s] = <<>>
    BY ParamsAssumption DEF Init
  <2>2. Contents(ring[s]) = <<>>
    BY <2>1, NewRingSound
  <2>3. Unread(s) = <<>>
    BY <2>1, <2>2, ConcatEmptySeq DEF Unread
  <2> QED BY <2>3 DEF Whole, HalfRead
<1>2. Paired(<<>>) /\ Pairs(<<>>) = <<>>
  <2>1. <<>> \in Seq(Cell) /\ Len(<<>>) = 2 * 0 /\ 0 \in Nat
    OBVIOUS
  <2>2. Paired(<<>>)
    BY <2>1 DEF Paired
  <2>3. Len(Pairs(<<>>)) = 0 /\ Pairs(<<>>) \in Seq(Level)
    BY <2>1, <2>2, PairsParts
  <2> QED BY <2>2, <2>3, EmptySeq
<1>3. \A s \in Sensors : Reports(s) = <<>> /\ Paired(Whole(s))
  BY <1>1, <1>2 DEF Reports
<1>4. \A s \in Sensors : ~Activating(s, "initial") /\ ~Activating(s, "value")
  BY DEF Init, Activating
<1>5. Streams
  BY <1>3, <1>4 DEF Streams
<1>6. [u \in Sensors |-> Reports(u)] = [u \in Sensors |-> <<>>]
  BY <1>3
<1>7. /\ told = [s \in Sensors |-> "nothing"] /\ known = told /\ got = 0
      /\ dev \in [Sensors -> Values] /\ last \in [Sensors -> Values \cup {"unscaled", "unset"}]
  BY InitIInv DEF Init, IInv, TypeOK, Level
<1>8. \A s \in {u \in Sensors : pending[u]} \cap {"proximity"} : last[s] = dev[s]
  BY DEF Init, Sampled
<1>9. Looked = <<>>
  BY LookedParts DEF Init
<1> QED BY <1>5, <1>6, <1>7, <1>8, <1>9 DEF Stream!Init

\* Every step of the poll loop, of an activation and of the devices is one that
\* SensorStream allows: no report is lost, doubled or overtaken in the rings, in
\* what pollEvents() leaves for its next call, or behind a disabled sensor.
THEOREM PollImplementsStream == Spec => ImplementsStream
<1>1. IInv /\ [Next]_vars => IInv'
  BY StepIInv
<1>2. IInv /\ Streams /\ [Next]_vars => Streams' /\ [Stream!Next]_(Stream!svars)
  BY StreamStep
<1>3. Init => IInv /\ Streams /\ Stream!Init
  BY InitIInv, StreamInit
<1> QED BY <1>1, <1>2, <1>3, PTL DEF Spec, ImplementsStream, Stream!Spec

=============================================================================
