---------------------------- MODULE SensorStream ----------------------------
(***************************************************************************)
(* What the poll loop of libsensors promises: the reports of each sensor   *)
(* reach the caller in the order the sensor made them, none twice and none *)
(* forgotten, except those of a call that fails, and that a sensor of      *)
(* Silent keeps its reports to itself while it is disabled.  An activation *)
(* may add one report, of what it saw when it looked at the sensor: but it *)
(* stores that in the place where a report waits to be handed on, so that  *)
(* either may take the other's value.                                      *)
(***************************************************************************)
EXTENDS Integers, Sequences

CONSTANTS
  Sensors, Values,
  Silent,   \* sensors that keep their reports while disabled
  Exact     \* sensors whose state an activation stores in the scale of a report

VARIABLES
  dev,      \* what each sensor has last measured
  stream,   \* reports a sensor has made and the caller has not got
  state,    \* the value a sensor's next report is handed on with
  initial,  \* sensors whose present state is to be reported
  look,     \* <<s, v>>: an activation has looked at sensor s and seen v
  enabled,  \* sensors the caller has asked for
  told,     \* the last report the caller has got of each sensor
  known,    \* told, when the caller's present call began
  count     \* the reports in the answer to that call; -1: it has failed

svars == <<dev, stream, state, initial, look, enabled, told, known, count>>

Init ==
  /\ dev \in [Sensors -> Values]
  /\ stream = [s \in Sensors |-> <<>>]
  /\ state \in [Sensors -> Values \cup {"unscaled", "unset"}]
  /\ initial \in SUBSET Sensors
  /\ \A s \in initial \cap Exact : state[s] = dev[s]
  /\ look = <<>>
  /\ enabled \in SUBSET Sensors
  /\ told = [s \in Sensors |-> "nothing"] /\ known = told
  /\ count = 0

Make(s) ==
  /\ \E v \in Values \ {dev[s]} :
       /\ dev' = [dev EXCEPT ![s] = v]
       /\ stream' = [stream EXCEPT ![s] = Append(@, v)]
  /\ UNCHANGED <<state, initial, look, enabled, told, known, count>>

\* The oldest report is taken up.
Take(s) ==
  /\ stream[s] # <<>>
  /\ state' = [state EXCEPT ![s] = Head(stream[s])]
  /\ UNCHANGED <<dev, stream, initial, look, enabled, told, known, count>>

\* The caller is told the value at hand, or nobody is.
HandOn(s) ==
  \/ /\ count' = count + 1
     /\ told' = [told EXCEPT ![s] = state[s]]
  \/ /\ s \in Silent \ enabled
     /\ UNCHANGED <<told, count>>

Deliver(s) ==
  /\ stream[s] # <<>> /\ state[s] = Head(stream[s])
  /\ HandOn(s)
  /\ stream' = [stream EXCEPT ![s] = Tail(@)]
  /\ UNCHANGED <<dev, state, initial, look, enabled, known>>

DeliverInitial(s) ==
  /\ s \in initial
  /\ HandOn(s)
  /\ initial' = initial \ {s}
  /\ UNCHANGED <<dev, stream, state, look, enabled, known>>

Activate(s) ==
  /\ look = <<>>
  /\ enabled' \in {enabled \cup {s}, enabled \ {s}}
  /\ UNCHANGED <<dev, stream, state, initial, look, told, known, count>>

\* An activation looks at sensor s.  Its flag may be raised now, or in Store.
Look(s) ==
  /\ look = <<>> /\ s \in enabled
  /\ look' = <<s, IF s \in Exact THEN dev[s] ELSE "unscaled">>
  /\ initial' \in {initial, initial \cup {s}}
  /\ UNCHANGED <<dev, stream, state, enabled, told, known, count>>

\* It stores what it saw; a report that has been taken up goes out with it.
Store(s) ==
  /\ look # <<>> /\ look[1] = s
  /\ look' = <<>>
  /\ state' = [state EXCEPT ![s] = look[2]]
  /\ initial' \in {initial, initial \cup {s}}
  /\ \/ UNCHANGED stream
     \/ /\ stream[s] # <<>> /\ state[s] = Head(stream[s])
        /\ stream' = [stream EXCEPT ![s] = <<look[2]>> \o Tail(@)]
  /\ UNCHANGED <<dev, enabled, told, known, count>>

Call ==
  /\ count' = 0 /\ known' = told
  /\ UNCHANGED <<dev, stream, state, initial, look, enabled, told>>

\* The call fails: what it had taken for the caller is lost.
Fail ==
  /\ count' = -1 /\ told' = known
  /\ UNCHANGED <<dev, stream, state, initial, look, enabled, known>>

Next ==
  \/ \E s \in Sensors :
       \/ Make(s) \/ Take(s) \/ Deliver(s) \/ DeliverInitial(s)
       \/ Activate(s) \/ Look(s) \/ Store(s)
  \/ Call \/ Fail

Spec == Init /\ [][Next]_svars

=============================================================================
