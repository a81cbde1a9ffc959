---------------------------- MODULE StreamSwitch ----------------------------
(***************************************************************************)
(* What an overlay promises to whoever looks at the screen, whatever its   *)
(* two processes do: a source that connects, gives the display frames and  *)
(* takes them back, and a stream that is on only while a connected source  *)
(* has frames there.  Stopping the stream gives every frame back.          *)
(***************************************************************************)
CONSTANT Frames

VARIABLES
  source,    \* is a data side connected?
  on,        \* is the stream on?
  held       \* the frames the display has

vars == <<source, on, held>>

Init == source = FALSE /\ on = FALSE /\ held = {}

Connect == ~source /\ source' = TRUE /\ UNCHANGED <<on, held>>

Give(f) ==
  /\ source /\ f \notin held
  /\ held' = held \cup {f}
  /\ UNCHANGED <<source, on>>

Start ==
  /\ source /\ ~on /\ held # {}
  /\ on' = TRUE
  /\ UNCHANGED <<source, held>>

\* The display keeps the frame it shows.
TakeBack(f) ==
  /\ on /\ f \in held /\ held # {f}
  /\ held' = held \ {f}
  /\ UNCHANGED <<source, on>>

Stop == on' = FALSE /\ held' = {} /\ UNCHANGED source

Disconnect ==
  /\ source /\ ~on /\ held = {}
  /\ source' = FALSE
  /\ UNCHANGED <<on, held>>

Next ==
  \/ Connect
  \/ \E f \in Frames : Give(f) \/ TakeBack(f)
  \/ Start
  \/ Stop
  \/ Disconnect

Spec == Init /\ [][Next]_vars

-----------------------------------------------------------------------------
\* A stream that is on has a source and something to show.
Showing == on => source /\ held # {}
=============================================================================
