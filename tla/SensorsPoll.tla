---------------------------- MODULE SensorsPoll -----------------------------
(***************************************************************************)
(* libsensors (nusensors.cpp, LightSensor.cpp, ProximitySensor.cpp,        *)
(* kxsd9.cpp): a thread of the caller in poll(), pollEvents(), and another *)
(* in activate().  They share a driver object per sensor and no lock; a    *)
(* pipe wakes the first for the second.                                    *)
(*                                                                         *)
(* A sensor's event device queues, for each report, the event of the value *)
(* that changed and "syn".  The three axes of the accelerometer are one    *)
(* value.  read() of an empty device blocks.                               *)
(***************************************************************************)
EXTENDS EventRing

CONSTANTS
  Drivers,    \* the sensors in the order pollEvents() scans them
  Values,     \* what a sensor can measure
  RingSize,   \* InputEventCircularReader's numEvents, of each sensor
  Count,      \* the room in the caller's array
  QueueRoom,  \* bound: events each event device holds
  PipeRoom    \* bytes the wake pipe holds

Sensors == {Drivers[i] : i \in 1 .. Len(Drivers)}

\* What mPendingEvent may hold: a value as readEvents() converts it; the light
\* sensor's raw value, or the accelerometer's in another scale, as the initial
\* state is stored; what memset() has left.
Level == Values \cup {"unscaled", "unset"}

ASSUME ParamsAssumption ==
  /\ Drivers \in Seq({"light", "proximity", "kxsd9"})
  /\ Events = Values \cup {"syn"} /\ NoEvent \notin Events
  /\ Values \cap {"syn", "nothing", "unscaled", "unset"} = {}
  /\ RingSize \in [Sensors -> Nat \ {0}]
  /\ Count \in Nat \ {0} /\ QueueRoom \in [Sensors -> Nat] /\ PipeRoom \in Nat \ {0}

VARIABLES
  dev,      \* the value each event device has last been given
  on,       \* the sensor's driver is measuring
  queue,    \* the events of each event device, unread
  ring,     \* mInputReader
  last,     \* the value in mPendingEvent
  pending,  \* mHasPendingEvent
  enabled,  \* mEnabled
  revents,  \* mPollFds[].revents & POLLIN
  pipe,     \* bytes in the wake pipe
  told,     \* the last value the caller was given of each sensor
  known,    \* told, when the present call began
  got,      \* reports in the caller's array; -1: the call has failed
  pc, at,   \* the poll thread: where it is, and the sensor it looks at
  act       \* the thread in activate(): where it is, and for which sensor

driver == <<dev, on>>
vars == <<dev, on, queue, ring, last, pending, enabled, revents, pipe, told,
          known, got, pc, at, act>>

Acts == {<<"caller">>} \cup ({"initial", "wake"} \X Sensors \X {"nothing"})
          \cup ({"value"} \X Sensors \X Level)

TypeOK ==
  /\ dev \in [Sensors -> Values]
  /\ on \in [Sensors -> BOOLEAN]
  /\ queue \in [Sensors -> Seq(Events)]
  /\ \A s \in Sensors : Len(queue[s]) <= QueueRoom[s]
  /\ ring = [s \in Sensors |-> ring[s]]
  /\ \A s \in Sensors : ring[s] \in Rings(RingSize[s])
  /\ last \in [Sensors -> Level]
  /\ pending \in [Sensors -> BOOLEAN]
  /\ enabled \in [Sensors -> BOOLEAN]
  /\ revents \in [Sensors -> BOOLEAN]
  /\ pipe \in 0 .. PipeRoom
  /\ told \in [Sensors -> Level \cup {"nothing"}]
  /\ known \in [Sensors -> Level \cup {"nothing"}]
  /\ got \in -1 .. Count
  /\ pc \in {"caller", "scan", "fill", "events", "poll"}
  /\ at \in 1 .. Len(Drivers) + 1
  /\ act \in Acts

\* The sensors that report their state when they are enabled.
Reporting == Sensors \ {"kxsd9"}

\* The value of device s as the initial state is stored: proximity converts it as
\* it does its reports.
Sampled(s) == IF s = "proximity" THEN dev[s] ELSE "unscaled"

\* The constructors: enable(0, 1), and EVIOCGABS, which may fail.
Init ==
  /\ dev \in [Sensors -> Values]
  /\ on \in [Sensors -> BOOLEAN]
  /\ queue = [s \in Sensors |-> <<>>]
  /\ ring = [s \in Sensors |-> NewRing(RingSize[s])]
  /\ \E found \in [Sensors -> BOOLEAN] :
       /\ last = [s \in Sensors |-> IF found[s] THEN Sampled(s) ELSE "unset"]
       /\ pending = [s \in Sensors |-> found[s] /\ s \in Reporting]
  /\ enabled = [s \in Sensors |-> s \in Reporting \/ on[s]]
  /\ revents = [s \in Sensors |-> FALSE]
  /\ pipe = 0
  /\ told = [s \in Sensors |-> "nothing"] /\ known = told
  /\ got = 0
  /\ pc = "caller" /\ at = 1
  /\ act = <<"caller">>

-----------------------------------------------------------------------------
(* The reports on their way: unread events, those of the ring first.  A    *)
(* report is two events, its value and "syn"; the value may have been read *)
(* already, and is then in mPendingEvent.                                  *)

Unread(s) == Contents(ring[s]) \o queue[s]

HalfRead(s) == Unread(s) # <<>> /\ Head(Unread(s)) = "syn"

\* The unread events, with the value of a report that is half read.
Whole(s) == IF HalfRead(s) THEN <<last[s]>> \o Unread(s) ELSE Unread(s)

\* The values of the events, two by two.
Pairs(w) == [i \in 1 .. Len(w) \div 2 |-> w[2 * i - 1]]

Reports(s) == Pairs(Whole(s))

\* The thread in activate() is at this place, for this sensor.
Activating(s, where) == act # <<"caller">> /\ act[1] = where /\ act[2] = s

\* An activation of s is about to look at the sensor, or to store what it saw.
Sampling(s) == Activating(s, "initial") \/ Activating(s, "value")

-----------------------------------------------------------------------------
(* The kernel.  An event device passes on a value that has changed; the   *)
(* driver of a sensor that fails to start does not measure.                *)

Measure(s) ==
  /\ on[s] /\ Len(queue[s]) + 2 <= QueueRoom[s]
  /\ \E v \in Values \ {dev[s]} :
       /\ dev' = [dev EXCEPT ![s] = v]
       /\ queue' = [queue EXCEPT ![s] = @ \o <<v, "syn">>]
  /\ UNCHANGED <<on, ring, last, pending, enabled, revents, pipe, told,
                 known, got, pc, at, act>>

-----------------------------------------------------------------------------
(* pollEvents()                                                            *)

ToNext == pc' = "scan" /\ at' = at + 1

\* A report of sensor s is put into the caller's array.
Tell(s, v) ==
  /\ told' = [told EXCEPT ![s] = v]
  /\ got' = got + 1

\* proximity keeps what comes while it is disabled.
Silenced(s) == s = "proximity" /\ ~enabled[s]

PollEvents ==
  /\ pc = "caller"
  /\ pc' = "scan" /\ at' = 1 /\ got' = 0 /\ known' = told
  /\ UNCHANGED <<driver, queue, ring, last, pending, enabled, revents, pipe, told, act>>

Scanning(s) == pc = "scan" /\ got < Count /\ at <= Len(Drivers) /\ Drivers[at] = s

SkipSensor(s) ==
  /\ Scanning(s) /\ ~revents[s] /\ ~pending[s]
  /\ ToNext
  /\ UNCHANGED <<driver, queue, ring, last, pending, enabled, revents, pipe,
                 told, known, got, act>>

\* readEvents() of light and proximity: the report of the initial state.
ReadPending(s) ==
  /\ Scanning(s) /\ pending[s]
  /\ pending' = [pending EXCEPT ![s] = FALSE]
  /\ IF Silenced(s) THEN UNCHANGED <<told, got>> ELSE Tell(s, last[s])
  /\ revents' = [revents EXCEPT ![s] = @ /\ (got' = Count)]
  /\ ToNext
  /\ UNCHANGED <<driver, queue, ring, last, enabled, pipe, known, act>>

ReadEvents(s) ==
  /\ Scanning(s) /\ revents[s] /\ ~pending[s]
  /\ pc' = "fill"
  /\ UNCHANGED <<driver, queue, ring, last, pending, enabled, revents, pipe,
                 told, known, got, at, act>>

Filling(s) == pc = "fill" /\ Drivers[at] = s

\* fill(): read() waits for events and takes as many as there is room for.
Fill(s) ==
  LET n == IF ring[s].free < Len(queue[s]) THEN ring[s].free ELSE Len(queue[s])
  IN  /\ Filling(s)
      /\ ring[s].free > 0 => queue[s] # <<>>
      /\ ring' = [ring EXCEPT ![s] = Filled(@, SubSeq(queue[s], 1, n))]
      /\ queue' = [queue EXCEPT ![s] = SubSeq(@, n + 1, Len(@))]
      /\ pc' = "events"
      /\ UNCHANGED <<driver, last, pending, enabled, revents, pipe,
                 told, known, got, at, act>>

\* Mutant of Reading: the loop does not look at count.
ReadingPast(s) == pc = "events" /\ Drivers[at] = s /\ Available(ring[s])

Reading(s) ==
  pc = "events" /\ Drivers[at] = s /\ got < Count /\ Available(ring[s])

\* readEvents(), EV_ABS
ReadValue(s) ==
  /\ Reading(s) /\ Event(ring[s]) \in Values
  /\ last' = [last EXCEPT ![s] = Event(ring[s])]
  /\ ring' = [ring EXCEPT ![s] = Advanced(@)]
  /\ UNCHANGED <<driver, queue, pending, enabled, revents, pipe,
                 told, known, got, pc, at, act>>

\* readEvents(), EV_SYN
ReadSyn(s) ==
  /\ Reading(s) /\ Event(ring[s]) = "syn"
  /\ IF Silenced(s) THEN UNCHANGED <<told, got>> ELSE Tell(s, last[s])
  /\ ring' = [ring EXCEPT ![s] = Advanced(@)]
  /\ UNCHANGED <<driver, queue, last, pending, enabled, revents, pipe, known, pc, at, act>>

\* readEvents() has returned nb: nb < count says there is room left.
EventsRead(s) ==
  /\ pc = "events" /\ Drivers[at] = s
  /\ got = Count \/ ~Available(ring[s])
  /\ revents' = [revents EXCEPT ![s] = (got = Count)]
  /\ ToNext
  /\ UNCHANGED <<driver, queue, ring, last, pending, enabled, pipe, told, known, got, act>>

Scanned ==
  /\ pc = "scan"
  /\ got = Count \/ at > Len(Drivers)
  /\ pc' = IF got < Count THEN "poll" ELSE "caller"
  /\ at' = 1
  /\ UNCHANGED <<driver, queue, ring, last, pending, enabled, revents, pipe,
                 told, known, got, act>>

\* poll(): at once when there is something to return.
Poll ==
  LET ready == {s \in Sensors : queue[s] # <<>>}
  IN  /\ pc = "poll"
      /\ got > 0 \/ ready # {} \/ pipe > 0
      /\ revents' = [s \in Sensors |-> s \in ready]
      /\ pipe' = IF pipe > 0 THEN pipe - 1 ELSE 0
      /\ pc' = IF ready = {} /\ pipe = 0 THEN "caller" ELSE "scan"
      /\ at' = 1
      /\ UNCHANGED <<driver, queue, ring, last, pending, enabled, told, known, got, act>>

\* poll() fails: -errno is returned, whatever has been read in this call.
PollFails ==
  /\ pc = "poll"
  /\ pc' = "caller" /\ at' = 1 /\ got' = -1 /\ told' = known
  /\ UNCHANGED <<driver, queue, ring, last, pending, enabled, revents, pipe, known, act>>

-----------------------------------------------------------------------------
(* activate()                                                              *)

Go(s, where) == act' = <<where, s, "nothing">>
Return == act' = <<"caller">>
polling == <<queue, ring, revents, told, known, got, pc, at>>

\* Nothing to change: 0 is returned, and an enabled sensor wakes the poll.
ActivateSame(s) ==
  /\ act = <<"caller">>
  /\ IF enabled[s] THEN Go(s, "wake") ELSE UNCHANGED act
  /\ UNCHANGED <<driver, last, pending, enabled, pipe, polling>>

\* enable(1) of light and proximity: mEnabled is set whatever the ioctl says.
EnableReporting(s) ==
  /\ act = <<"caller">>
  /\ s \in Reporting /\ ~enabled[s]
  /\ enabled' = [enabled EXCEPT ![s] = TRUE]
  /\ \E works \in BOOLEAN : on' = [on EXCEPT ![s] = works]
  /\ Go(s, "initial")
  /\ UNCHANGED <<dev, last, pending, pipe, polling>>

\* Leaves setInitialState(): the wake byte is for an enable that worked.
InitialStateSet(s) == IF on[s] THEN Go(s, "wake") ELSE Return

\* setInitialState(): EVIOCGABS, which proximity follows with the flag.
SampleState(s) ==
  /\ Activating(s, "initial")
  /\ act' = <<"value", s, Sampled(s)>>
  /\ pending' = [pending EXCEPT ![s] = @ \/ s = "proximity"]
  /\ UNCHANGED <<driver, last, enabled, pipe, polling>>

\* setInitialState(): EVIOCGABS fails, and neither value nor flag is set.
SampleFails(s) ==
  /\ Activating(s, "initial")
  /\ InitialStateSet(s)
  /\ UNCHANGED <<driver, last, pending, enabled, pipe, polling>>

\* setInitialState(): the value, which light follows with the flag.
UseSample(s) ==
  /\ Activating(s, "value")
  /\ last' = [last EXCEPT ![s] = act[3]]
  /\ pending' = [pending EXCEPT ![s] = @ \/ s = "light"]
  /\ InitialStateSet(s)
  /\ UNCHANGED <<driver, enabled, pipe, polling>>

\* enable(1) of kxsd9
EnableKxsd9(s) ==
  /\ act = <<"caller">>
  /\ s = "kxsd9" /\ ~enabled[s]
  /\ \E works \in BOOLEAN :
       /\ enabled' = [enabled EXCEPT ![s] = works]
       /\ on' = [on EXCEPT ![s] = works]
       /\ IF works THEN Go(s, "wake") ELSE Return
  /\ UNCHANGED <<dev, last, pending, pipe, polling>>

\* Mutant of Wake: the byte is not written.
WakeNever(s) ==
  /\ Activating(s, "wake")
  /\ Return
  /\ UNCHANGED <<driver, last, pending, enabled, pipe, polling>>

\* write() to the wake pipe does not block: a full pipe stays as it is.
Wake(s) ==
  /\ Activating(s, "wake")
  /\ pipe' = IF pipe < PipeRoom THEN pipe + 1 ELSE pipe
  /\ Return
  /\ UNCHANGED <<driver, last, pending, enabled, polling>>

\* enable(0): kxsd9 stays enabled when the ioctl fails.
Disable(s) ==
  /\ act = <<"caller">> /\ enabled[s]
  /\ \E works \in BOOLEAN :
       /\ on' = [on EXCEPT ![s] = @ /\ ~works]
       /\ enabled' = [enabled EXCEPT ![s] = (s = "kxsd9" /\ ~works)]
  /\ UNCHANGED <<dev, last, pending, pipe, act, polling>>

-----------------------------------------------------------------------------

PollThread ==
  \/ PollEvents \/ Scanned \/ Poll
  \/ \E s \in Sensors :
       \/ SkipSensor(s) \/ ReadPending(s) \/ ReadEvents(s) \/ Fill(s)
       \/ ReadValue(s) \/ ReadSyn(s) \/ EventsRead(s)

Activation ==
  \E s \in Sensors :
    SampleState(s) \/ SampleFails(s) \/ UseSample(s) \/ Wake(s)

Next ==
  \/ PollThread
  \/ PollFails
  \/ Activation
  \/ \E s \in Sensors :
       \/ Measure(s) \/ ActivateSame(s) \/ EnableReporting(s) \/ EnableKxsd9(s)
       \/ Disable(s)

Spec == Init /\ [][Next]_vars

\* The caller polls again when it has been answered, the poll thread is never
\* kept from a step it can take, and an activation ends.
FairSpec == Spec /\ WF_vars(PollThread) /\ WF_vars(Activation)

-----------------------------------------------------------------------------
(* Properties                                                              *)

\* The read(), the copy past the end and the pointers of a reader's ring
\* agree: mHead is as many places after mCurr as there are unread events.
RingsSound == \A s \in Sensors : Sound(ring[s])

\* A value that is measured while sensor s works, enabled, and is not changed any
\* more is what the caller is told last.
SettledTold(s) ==
  \A v \in Values :
    /\ <>(dev[s] # v /\ [](on[s] /\ enabled[s] /\ ~Sampling(s) /\ got >= 0))
    /\ <>[](dev[s] = v)
    => <>[](told[s] = v)

\* The poll thread takes up what an activation that worked leaves to be reported.
InitialTaken(s) == Activating(s, "wake") /\ pending[s] ~> ~pending[s]

\* The caller comes to know the value a sensor settles at, and the poll thread
\* never sleeps over a state that an activation leaves to be reported; as long as
\* no call fills the caller's array (the sensor that filled it stays marked as
\* ready, and the next call may wait in its read() for an event that does not
\* come).  The value must be measured when no activation of the sensor is under
\* way: what setInitialState() stores, with no lock, may be older than a report
\* already passed on, and is then told last.  And poll() must not fail from then
\* on: a failing one forgets its call's reports.
CallerCatchesUp ==
  [](got < Count) => \A s \in Sensors : SettledTold(s) /\ InitialTaken(s)

\* The activation that has looked at a sensor, and what it saw.
Looked ==
  IF act # <<"caller">> /\ act[1] = "value" THEN <<act[2], act[3]>> ELSE <<>>

\* pollEvents() passes on each sensor's reports, all of them, once, in order, but
\* for those of a call that fails; the ring, the leftovers of a call and the
\* disabled sensors included.  An activation adds the value it found when it
\* looked, and changes no report but one whose value has been read already.
Stream == INSTANCE SensorStream WITH
  stream <- [s \in Sensors |-> Reports(s)],
  state <- last,
  initial <- {s \in Sensors : pending[s]},
  enabled <- {s \in Sensors : enabled[s]},
  look <- Looked,
  count <- got,
  Silent <- {"proximity"},
  Exact <- {"proximity"}

ImplementsStream == Stream!Spec

=============================================================================
