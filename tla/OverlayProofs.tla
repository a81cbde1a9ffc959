--------------------------- MODULE OverlayProofs ----------------------------
(***************************************************************************)
(* Proofs about Overlay, for any users, buffers, attributes and bounds.    *)
(*                                                                         *)
(* All assume that the windows are closed (Races = {}).  Then the mutex    *)
(* excludes (Owner), and the references are those of the two sides         *)
(* (Counted, Clients): this part, with the range of the counters           *)
(* (Bounded), is inductive whatever fails and whatever a same-size resize, *)
(* which takes no mutex, overlaps.  Until one is overtaken the stream of   *)
(* the object is that of the device (Streams).  Counting adds the number   *)
(* of queued buffers, and needs VIDIOC_STREAMON to succeed; Quiet, for the *)
(* refinement, VIDIOC_STREAMOFF as well.  These are proved for the kinds   *)
(* of steps there are (Kind), not for each action.  Attributed is about    *)
(* the attributes each side reads back, and needs the calls that set them  *)
(* and VIDIOC_STREAMOFF to succeed, not the others.                        *)
(***************************************************************************)
EXTENDS Overlay, FiniteSetTheorems, TLAPS

ControlPCs == {"idle", "posLock", "pos", "commit", "commitSet", "commitUnlock",
               "commitEnd", "destroy", "destroyShared"}
ClosingPCs == {"close", "closeShared"}
DataPCs == {"idle", "attach", "resizeLock", "resize", "resizeSet", "cropLock", "crop",
            "cropSet", "dq", "dqbuf", "qLock", "q", "qOn", "same", "sameOff", "sameEn",
            "sameCount"} \cup ClosingPCs

Sizings == 1 .. Requested
Mappings == 0 .. Requested

Shapes ==
  [refCnt : Int, alive : BOOLEAN, controlReady : BOOLEAN, dataReady : BOOLEAN,
   streamEn : BOOLEAN, qd_buf_count : Int, num_buffers : Sizings,
   optimalQBufCnt : Nat, attributes_changed : BOOLEAN, size : Sizes,
   mappedbufcount : Mappings]

Drivers == [on : BOOLEAN, queued : SUBSET Buffers, attr : Attributes]

\* The types, but for the range of the two counters.
SharedShape ==
  /\ data \in Attributes
  /\ stage \in [pos : Positions, rot : Rotations]
  /\ lock \in Threads \cup {None}
  /\ slot \in BOOLEAN
  /\ ctx \in {"none", "offered", "attaching", "attached"}

LocalShape ==
  /\ pc \in [Threads -> ControlPCs \cup DataPCs]
  /\ pc[Ctl] \in ControlPCs /\ \A u \in Users : pc[u] \in DataPCs
  /\ arg \in [Threads -> Buffers \cup Sizes \cup Crops \cup {None}]
  /\ saved \in [Threads -> Attributes]

Shape == obj \in Shapes /\ drv \in Drivers /\ SharedShape /\ LocalShape

\* The argument of a call is of the call's kind.
Arguments ==
  \A u \in Users :
    /\ pc[u] \in {"resizeLock", "resize", "resizeSet"} => arg[u] \in Sizes
    /\ pc[u] \in {"cropLock", "crop", "cropSet"} => arg[u] \in Crops
    /\ pc[u] \in {"qLock", "q", "qOn"} => arg[u] \in Buffers

\* The mutex excludes; commit() releases it a second time only when it is free.
Owner ==
  \A t \in Threads :
    /\ lock = t <=> pc[t] \in HoldingPCs
    /\ pc[t] = "commitEnd" => lock = None

\* refCnt counts the sides, and the mutex lives while it does.
Counted ==
  /\ obj.refCnt = (IF slot THEN 1 ELSE 0) + (IF ctx = "attached" THEN 1 ELSE 0)
  /\ obj.alive <=> slot \/ ctx = "attached"
  /\ pc[Ctl] # "idle" => slot

\* Data side threads are inside a call only while their context is there.
Clients ==
  \A u \in Users :
    /\ pc[u] = "attach" => ctx = "attaching" /\ slot
    /\ pc[u] \notin {"idle", "attach"} => ctx = "attached"
    /\ pc[u] \in ClosingPCs \cup {"attach"} => \A v \in Users \ {u} : pc[v] = "idle"

Typed == Shape /\ Arguments

-----------------------------------------------------------------------------
LEMMA InitTyped == Init => Typed
<1> SUFFICES ASSUME Init PROVE Typed
  OBVIOUS
<1>1. 0 \in Int /\ 0 \in Mappings /\ Requested \in Sizings /\ Default \in Nat
  BY OverlayAssumption DEF Sizings, Mappings
<1>2. NewAttributes \in Attributes
  BY OverlayAssumption DEF NewAttributes, Attributes
<1>3. obj \in Shapes
  <2>1. PICK s \in Sizes : obj = NoObject(s)
    BY DEF Init
  <2> QED BY <1>1, <2>1 DEF NoObject, Shapes
<1>4. drv \in Drivers
  BY <1>2 DEF Init, Drivers
<1>5. SharedShape
  BY <1>2, OverlayAssumption DEF Init, SharedShape
<1>6. LocalShape /\ Arguments
  BY <1>2 DEF Init, LocalShape, Arguments, ControlPCs, DataPCs, Threads
<1> QED BY <1>3, <1>4, <1>5, <1>6 DEF Typed, Shape

\* The updates of an object the actions make keep its type.
LEMMA UpdateTyped ==
  ASSUME NEW o \in Shapes, NEW b \in BOOLEAN, NEW i \in Int
  PROVE  /\ [o EXCEPT !.streamEn = b] \in Shapes
         /\ [o EXCEPT !.dataReady = b] \in Shapes
         /\ [o EXCEPT !.controlReady = b] \in Shapes
         /\ [o EXCEPT !.attributes_changed = b] \in Shapes
         /\ [o EXCEPT !.qd_buf_count = i] \in Shapes
         /\ [o EXCEPT !.refCnt = i, !.alive = b] \in Shapes
BY DEF Shapes

\* The same for the constants the actions write.
LEMMA FlagTyped ==
  ASSUME NEW o \in Shapes
  PROVE  /\ [o EXCEPT !.streamEn = TRUE] \in Shapes
         /\ [o EXCEPT !.streamEn = FALSE] \in Shapes
         /\ [o EXCEPT !.dataReady = TRUE] \in Shapes
         /\ [o EXCEPT !.dataReady = FALSE] \in Shapes
         /\ [o EXCEPT !.controlReady = TRUE] \in Shapes
BY DEF Shapes

\* Stopping the stream keeps the types.
LEMMA StopTyped ==
  ASSUME Shape, NEW ok \in BOOLEAN
  PROVE  Disable(ok) \in Shapes /\ DriverOff(ok) \in Drivers
<1>1. CASE ~obj.streamEn \/ ~ok
  BY <1>1 DEF Shape, Disable, DriverOff
<1>2. CASE obj.streamEn /\ ok
  <2>1. /\ Disable(ok) = [obj EXCEPT !.streamEn = FALSE, !.qd_buf_count = 0]
        /\ DriverOff(ok) = [drv EXCEPT !.on = FALSE, !.queued = {}]
    BY <1>2 DEF Disable, DriverOff, StreamedOff
  <2>2. [obj EXCEPT !.streamEn = FALSE, !.qd_buf_count = 0] \in Shapes
    BY 0 \in Int DEF Shape, Shapes
  <2>3. [drv EXCEPT !.on = FALSE, !.queued = {}] \in Drivers
    BY DEF Shape, Drivers
  <2> QED BY <2>1, <2>2, <2>3
<1>3. obj.streamEn \in BOOLEAN
  BY DEF Shape, Shapes
<1> QED BY <1>1, <1>2, <1>3

\* So does a thread that moves on or returns.
LEMMA MoveTyped ==
  ASSUME Shape, NEW t \in Threads, NEW l, Goto(t, l),
         t = Ctl => l \in ControlPCs, t # Ctl => l \in DataPCs,
         arg' \in [Threads -> Buffers \cup Sizes \cup Crops \cup {None}],
         saved' \in [Threads -> Attributes]
  PROVE  LocalShape'
BY OverlayAssumption DEF Shape, LocalShape, Goto, Threads

LEMMA ReturnTyped ==
  ASSUME Shape, NEW t \in Threads, Return(t)
  PROVE  LocalShape'
<1>1. NewAttributes \in Attributes
  BY OverlayAssumption DEF NewAttributes, Attributes
<1>2. /\ arg' \in [Threads -> Buffers \cup Sizes \cup Crops \cup {None}]
      /\ saved' \in [Threads -> Attributes]
  BY <1>1 DEF Return, Shape, LocalShape
<1>3. Goto(t, "idle")
  BY DEF Return
<1> QED BY <1>2, <1>3, MoveTyped DEF ControlPCs, DataPCs

\* What a same-size resize does to the thread that runs it and to the object.
LEMMA SameMoves ==
  ASSUME Typed, NEW u \in Users, SameTest(u) \/ SameOff(u) \/ SameEn(u) \/ SameCount(u)
  PROVE  /\ UNCHANGED <<data, stage, lock, slot, ctx>>
         /\ pc[u] \in {"same", "sameOff", "sameEn", "sameCount"}
         /\ \E l \in {"idle", "sameOff", "sameEn", "sameCount"} : Goto(u, l)
         /\ Return(u) \/ UNCHANGED <<arg, saved>>
         /\ \/ obj' = obj \/ obj' = [obj EXCEPT !.streamEn = FALSE]
            \/ obj' = [obj EXCEPT !.qd_buf_count = 0]
         /\ drv' = drv \/ drv' = [drv EXCEPT !.on = FALSE, !.queued = {}]
<1>1. CASE SameTest(u)
  BY <1>1 DEF SameTest, Return
<1>2. CASE SameOff(u)
  BY <1>2 DEF SameOff, Return, StreamedOff
<1>3. CASE SameEn(u)
  BY <1>3 DEF SameEn
<1>4. CASE SameCount(u)
  BY <1>4 DEF SameCount, Return
<1> QED BY <1>1, <1>2, <1>3, <1>4

LEMMA ControlShape ==
  ASSUME Typed, ControlCall \/ ControlStep
  PROVE  Shape'
<1>1. ASSUME NEW s \in Sizes, CreateOverlay(s) PROVE Shape'
  <2>1. obj' \in Shapes
    <3>1. 0 \in Int /\ 1 \in Int /\ 0 \in Mappings /\ Requested \in Sizings /\ Default \in Nat
      BY OverlayAssumption DEF Sizings, Mappings
    <3> QED BY <1>1, <3>1 DEF CreateOverlay, NewObject, NoObject, Shapes
  <2>2. drv' \in Drivers
    BY <1>1, OverlayAssumption DEF CreateOverlay, NewAttributes, Attributes, Drivers
  <2>3. SharedShape'
    BY <1>1, OverlayAssumption
      DEF CreateOverlay, NewAttributes, Attributes, SharedShape
  <2>4. LocalShape'
    BY <1>1 DEF CreateOverlay, Typed, Shape, LocalShape
  <2> QED BY <2>1, <2>2, <2>3, <2>4 DEF Shape
<1>2. ASSUME NEW p \in Positions, SetPosition(p) PROVE Shape'
  BY <1>2, OverlayAssumption
    DEF SetPosition, Goto, Typed, Shape, SharedShape, LocalShape, ControlPCs, Threads
<1>3. ASSUME NEW r \in Rotations, SetParameter(r) PROVE Shape'
  BY <1>3 DEF SetParameter, Typed, Shape, SharedShape, LocalShape
<1>4. CASE Commit
  BY <1>4, OverlayAssumption
    DEF Commit, Acquire, Goto, Typed, Shape, SharedShape, LocalShape, ControlPCs,
        DataPCs, ClosingPCs, Threads
<1>5. CASE DestroyOverlay
  BY <1>5, OverlayAssumption
    DEF DestroyOverlay, Acquire, Goto, Typed, Shape, SharedShape, LocalShape, ControlPCs,
        DataPCs, ClosingPCs, Threads
<1>6. CASE PositionSet
  <2>1. obj' \in Shapes
    BY <1>6 DEF PositionSet, Typed, Shape
  <2>2. drv' \in Drivers
    BY <1>6 DEF PositionSet, Typed, Shape, SharedShape, Drivers, Attributes
  <2>3. SharedShape'
    BY <1>6 DEF PositionSet, Typed, Shape, SharedShape, Release, Attributes
  <2>4. LocalShape'
    BY <1>6, ReturnTyped DEF PositionSet, Typed, Threads
  <2> QED BY <2>1, <2>2, <2>3, <2>4 DEF Shape
<1>7. CASE CommitNothing
  BY <1>7
    DEF CommitNothing, Goto, Typed, Shape, SharedShape, LocalShape, Shapes,
        ControlPCs, DataPCs, ClosingPCs, Threads
<1>8. ASSUME NEW off \in OffResults, CommitBegin(off) PROVE Shape'
  <2>1. obj' \in Shapes
    <3>1. Disable(off) \in Shapes /\ obj \in Shapes
      BY StopTyped DEF OffResults, Typed, Shape
    <3>2. \/ obj' = [Disable(off) EXCEPT !.controlReady = TRUE]
          \/ obj' = [obj EXCEPT !.controlReady = TRUE]
      BY <1>8 DEF CommitBegin
    <3> QED BY <3>1, <3>2, FlagTyped
  <2>2. drv' \in Drivers
    BY <1>8, StopTyped DEF CommitBegin, OffResults, Typed, Shape
  <2>3. SharedShape'
    BY <1>8 DEF CommitBegin, Typed, Shape, SharedShape, Attributes
  <2>4. LocalShape'
    BY <1>8, OverlayAssumption
      DEF CommitBegin, Goto, Typed, Shape, Drivers, LocalShape, ControlPCs, Threads
  <2> QED BY <2>1, <2>2, <2>3, <2>4 DEF Shape
<1>9. CASE CommitSet
  <2>1. obj' \in Shapes
    BY <1>9 DEF CommitSet, Typed, Shape
  <2>2. drv' \in Drivers
    BY <1>9
      DEF CommitSet, Typed, Shape, SharedShape, LocalShape, Drivers, Attributes,
          Threads
  <2>3. SharedShape'
    BY <1>9 DEF CommitSet, Typed, Shape, SharedShape, Release
  <2>4. LocalShape'
    BY <1>9, OverlayAssumption
      DEF CommitSet, Goto, Typed, Shape, LocalShape, ControlPCs, Threads
  <2> QED BY <2>1, <2>2, <2>3, <2>4 DEF Shape
<1>10. CASE CommitEnd
  <2>1. obj' \in Shapes
    BY <1>10 DEF CommitEnd, Typed, Shape
  <2>2. drv' \in Drivers
    BY <1>10 DEF CommitEnd, Typed, Shape
  <2>3. SharedShape'
    BY <1>10 DEF CommitEnd, Typed, Shape, SharedShape, Release
  <2>4. LocalShape'
    BY <1>10, ReturnTyped DEF CommitEnd, Typed, Threads
  <2> QED BY <2>1, <2>2, <2>3, <2>4 DEF Shape
<1>11. ASSUME NEW off \in OffResults, DestroyStop(off) PROVE Shape'
  <2>1. obj' \in Shapes
    BY <1>11, StopTyped DEF DestroyStop, OffResults, Typed
  <2>2. drv' \in Drivers
    BY <1>11, StopTyped DEF DestroyStop, OffResults, Typed
  <2>3. SharedShape'
    BY <1>11 DEF DestroyStop, Typed, Shape, SharedShape, Release
  <2>4. LocalShape'
    BY <1>11, OverlayAssumption
      DEF DestroyStop, Goto, Typed, Shape, LocalShape, ControlPCs, Threads
  <2> QED BY <2>1, <2>2, <2>3, <2>4 DEF Shape
<1>12. CASE DestroyShared
  <2>1. obj' \in Shapes
    <3>1. obj' = [obj EXCEPT !.refCnt = obj.refCnt - 1, !.alive = obj.alive /\ obj.refCnt # 1]
      BY <1>12 DEF DestroyShared, LastSide
    <3>2. obj.refCnt - 1 \in Int /\ (obj.alive /\ obj.refCnt # 1) \in BOOLEAN
      BY DEF Typed, Shape, Shapes
    <3> QED BY <3>1, <3>2, UpdateTyped DEF Typed, Shape
  <2>2. drv' \in Drivers
    BY <1>12 DEF DestroyShared, Typed, Shape
  <2>3. SharedShape'
    BY <1>12 DEF DestroyShared, Typed, Shape, SharedShape
  <2>4. LocalShape'
    BY <1>12, ReturnTyped DEF DestroyShared, Typed, Threads
  <2> QED BY <2>1, <2>2, <2>3, <2>4 DEF Shape
<1>13. CASE Acquire(Ctl, "posLock", "pos")
  BY <1>13
    DEF Acquire, Goto, Typed, Shape, SharedShape, LocalShape, ControlPCs,
        DataPCs, ClosingPCs, Threads
<1> QED BY <1>1, <1>2, <1>3, <1>4, <1>5, <1>6, <1>7, <1>8, <1>9, <1>10, <1>11, <1>12,
           <1>13 DEF ControlCall, ControlStep

LEMMA DataShape ==
  ASSUME Typed, NEW u \in Users, DataCall(u) \/ DataStep(u)
  PROVE  Shape'
<1>1. CASE Initialize(u)
  BY <1>1, OverlayAssumption
    DEF Initialize, Goto, Typed, Shape, SharedShape, LocalShape, DataPCs, Threads
<1>2. ASSUME NEW s \in Sizes, ResizeSame(u, s) PROVE Shape'
  BY <1>2, OverlayAssumption
    DEF ResizeSame, Goto, Typed, Shape, SharedShape, LocalShape, Shapes, DataPCs,
        Threads
<1>3. ASSUME NEW s \in Sizes, ResizeInput(u, s) PROVE Shape'
  BY <1>3, OverlayAssumption
    DEF ResizeInput, Start, Goto, Typed, Shape, SharedShape, LocalShape, DataPCs,
        Threads
<1>4. ASSUME NEW n \in Optimal, SetOptimal(u, n) PROVE Shape'
  BY <1>4, OverlayAssumption
    DEF SetOptimal, Typed, Shape, SharedShape, LocalShape, Shapes
<1>5. CASE SetCacheable(u)
  BY <1>5 DEF SetCacheable, Typed, Shape, SharedShape, LocalShape, Shapes
<1>6. ASSUME NEW c \in Crops, SetCrop(u, c) PROVE Shape'
  BY <1>6, OverlayAssumption
    DEF SetCrop, Start, Goto, Typed, Shape, SharedShape, LocalShape, DataPCs, Threads
<1>7. CASE DequeueBuffer(u)
  BY <1>7, OverlayAssumption
    DEF DequeueBuffer, Acquire, Goto, Typed, Shape, SharedShape, LocalShape, ControlPCs,
        DataPCs, ClosingPCs, Threads
<1>8. ASSUME NEW b \in Buffers, QueueBuffer(u, b) PROVE Shape'
  BY <1>8, OverlayAssumption
    DEF QueueBuffer, Start, Goto, Typed, Shape, SharedShape, LocalShape, DataPCs,
        Threads
<1>9. CASE DataClose(u)
  BY <1>9, OverlayAssumption
    DEF DataClose, Acquire, Goto, Typed, Shape, SharedShape, LocalShape, ControlPCs,
        DataPCs, ClosingPCs, Threads
<1>10. CASE InitializeShared(u)
  <2>1. obj' \in Shapes
    <3>1. /\ obj.refCnt + 1 \in Int /\ 0 \in Int /\ Default \in Nat
          /\ obj.num_buffers \in Mappings /\ obj \in Shapes
      BY OverlayAssumption DEF Typed, Shape, Shapes, Sizings, Mappings
    <3>2. obj' = [obj EXCEPT !.refCnt = obj.refCnt + 1, !.dataReady = FALSE,
                    !.qd_buf_count = 0, !.optimalQBufCnt = Default,
                    !.attributes_changed = FALSE, !.mappedbufcount = obj.num_buffers]
      BY <1>10 DEF InitializeShared
    <3> QED BY <3>1, <3>2 DEF Shapes
  <2>2. drv' \in Drivers
    BY <1>10 DEF InitializeShared, Typed, Shape
  <2>3. SharedShape'
    BY <1>10, OverlayAssumption
      DEF InitializeShared, Typed, Shape, SharedShape, Attributes
  <2>4. LocalShape'
    BY <1>10, ReturnTyped DEF InitializeShared, Typed, Threads
  <2> QED BY <2>1, <2>2, <2>3, <2>4 DEF Shape
<1>11. CASE SameTest(u) \/ SameOff(u) \/ SameEn(u) \/ SameCount(u)
  <2>1. obj' \in Shapes
    <3>1. 0 \in Int
      OBVIOUS
    <3>2. \/ obj' = obj \/ obj' = [obj EXCEPT !.streamEn = FALSE]
          \/ obj' = [obj EXCEPT !.qd_buf_count = 0]
      BY <1>11, SameMoves
    <3>3. obj \in Shapes
      BY DEF Typed, Shape
    <3> QED BY <3>1, <3>2, <3>3, FlagTyped, UpdateTyped
  <2>2. drv' \in Drivers
    <3>1. drv' = drv \/ drv' = [drv EXCEPT !.on = FALSE, !.queued = {}]
      BY <1>11, SameMoves
    <3>2. drv \in Drivers
      BY DEF Typed, Shape
    <3> QED BY <3>1, <3>2 DEF Drivers
  <2>3. SharedShape'
    BY <1>11, SameMoves DEF Typed, Shape, SharedShape
  <2>4. LocalShape'
    <3>1. CASE Return(u)
      BY <3>1, ReturnTyped DEF Typed, Threads
    <3>2. CASE UNCHANGED <<arg, saved>>
      <4>1. PICK l \in {"idle", "sameOff", "sameEn", "sameCount"} : Goto(u, l)
        BY <1>11, SameMoves
      <4> QED BY <3>2, <4>1, MoveTyped, OverlayAssumption
               DEF Typed, Shape, LocalShape, DataPCs, Threads
    <3> QED BY <1>11, <3>1, <3>2, SameMoves
  <2> QED BY <2>1, <2>2, <2>3, <2>4 DEF Shape
<1>12. ASSUME NEW off \in OffResults, ResizeBegin(u, off) PROVE Shape'
  <2>1. obj' \in Shapes
    BY <1>12, StopTyped DEF ResizeBegin, OffResults, Typed
  <2>2. drv' \in Drivers
    BY <1>12, StopTyped DEF ResizeBegin, OffResults, Typed
  <2>3. SharedShape'
    BY <1>12 DEF ResizeBegin, Typed, Shape, SharedShape, Release
  <2>4. LocalShape'
    BY <1>12, ReturnTyped
      DEF ResizeBegin, Goto, Typed, Shape, Drivers, LocalShape, ControlPCs, DataPCs,
          Threads
  <2> QED BY <2>1, <2>2, <2>3, <2>4 DEF Shape
<1>13. ASSUME NEW n \in 1..Requested, ResizeSet(u, n) PROVE Shape'
  <2>1. obj' \in Shapes
    <3>1. arg[u] \in Sizes /\ n \in Sizings /\ n \in Mappings /\ obj \in Shapes
      BY <1>13 DEF ResizeSet, Typed, Shape, Arguments, Sizings, Mappings
    <3>2. \/ obj' = [obj EXCEPT !.size = arg[u], !.num_buffers = n, !.mappedbufcount = n,
                        !.dataReady = FALSE, !.controlReady = TRUE,
                        !.attributes_changed = FALSE]
          \/ obj' = obj \/ obj' = [obj EXCEPT !.size = arg[u]]
      BY <1>13 DEF ResizeSet
    <3> QED BY <3>1, <3>2 DEF Shapes
  <2>2. drv' \in Drivers
    BY <1>13 DEF ResizeSet, Typed, Shape, LocalShape, Drivers, Threads
  <2>3. SharedShape'
    BY <1>13 DEF ResizeSet, Typed, Shape, SharedShape, Release
  <2>4. LocalShape'
    BY <1>13, ReturnTyped DEF ResizeSet, Typed, Threads
  <2> QED BY <2>1, <2>2, <2>3, <2>4 DEF Shape
<1>14. ASSUME NEW off \in OffResults, CropBegin(u, off) PROVE Shape'
  <2>1. obj' \in Shapes
    <3>1. Disable(off) \in Shapes /\ obj \in Shapes
      BY StopTyped DEF OffResults, Typed, Shape
    <3>2. \/ obj' = [Disable(off) EXCEPT !.dataReady = TRUE]
          \/ obj' = [obj EXCEPT !.dataReady = TRUE]
      BY <1>14 DEF CropBegin
    <3> QED BY <3>1, <3>2, FlagTyped
  <2>2. drv' \in Drivers
    BY <1>14, StopTyped DEF CropBegin, Typed, Shape
  <2>3. SharedShape'
    BY <1>14 DEF CropBegin, Typed, Shape, SharedShape, Release
  <2>4. LocalShape'
    BY <1>14, ReturnTyped
      DEF CropBegin, Goto, Typed, Shape, Drivers, LocalShape, ControlPCs, DataPCs,
          Threads
  <2> QED BY <2>1, <2>2, <2>3, <2>4 DEF Shape
<1>15. CASE CropSet(u)
  <2>1. obj' \in Shapes
    BY <1>15 DEF CropSet, Typed, Shape
  <2>2. drv' \in Drivers
    <3>1. arg[u] \in Crops /\ saved[u].pos \in Positions /\ drv \in Drivers
      BY <1>15 DEF CropSet, Typed, Shape, LocalShape, Arguments, Attributes, Threads
    <3>2. \/ drv' = [drv EXCEPT !.attr.crop = arg[u], !.attr.pos = saved[u].pos]
          \/ drv' = drv \/ drv' = [drv EXCEPT !.attr.crop = arg[u]]
      BY <1>15 DEF CropSet
    <3>3. /\ drv' \in [on : BOOLEAN, queued : SUBSET Buffers, attr : {drv'.attr}]
          /\ \/ drv'.attr = [drv.attr EXCEPT !.crop = arg[u], !.pos = saved[u].pos]
             \/ drv'.attr = drv.attr \/ drv'.attr = [drv.attr EXCEPT !.crop = arg[u]]
      BY <3>1, <3>2 DEF Drivers
    <3>4. drv'.attr \in Attributes
      BY <3>1, <3>3 DEF Drivers, Attributes
    <3> QED BY <3>3, <3>4 DEF Drivers
  <2>3. SharedShape'
    BY <1>15 DEF CropSet, Typed, Shape, SharedShape, Release, Arguments, Attributes
  <2>4. LocalShape'
    BY <1>15, ReturnTyped DEF CropSet, Typed, Threads
  <2> QED BY <2>1, <2>2, <2>3, <2>4 DEF Shape
<1>16. CASE DequeueRefused(u)
  BY <1>16, OverlayAssumption
    DEF DequeueRefused, Release, Return, Goto, Typed, Shape, SharedShape, LocalShape,
        Attributes, DataPCs, Threads, NewAttributes
<1>17. CASE DequeuePoll(u)
  BY <1>17
    DEF DequeuePoll, Goto, Typed, Shape, SharedShape, LocalShape, ControlPCs, DataPCs,
        Threads
<1>18. ASSUME NEW off \in OffResults, DequeueFails(u, off) PROVE Shape'
  <2>1. obj' \in Shapes
    BY <1>18, StopTyped DEF DequeueFails, OffResults, Typed
  <2>2. drv' \in Drivers
    BY <1>18, StopTyped DEF DequeueFails, OffResults, Typed
  <2>3. SharedShape'
    BY <1>18 DEF DequeueFails, Typed, Shape, SharedShape, Release
  <2>4. LocalShape'
    BY <1>18, ReturnTyped DEF DequeueFails, Typed, Threads
  <2> QED BY <2>1, <2>2, <2>3, <2>4 DEF Shape
<1>19. ASSUME NEW b \in Buffers, Dequeued(u, b) PROVE Shape'
  BY <1>19, OverlayAssumption
    DEF Dequeued, Release, Return, Goto, Typed, Shape, SharedShape, LocalShape,
        Shapes, Drivers, Attributes, DataPCs, Threads, NewAttributes
<1>20. CASE QueueFails(u)
  BY <1>20, OverlayAssumption
    DEF QueueFails, Release, Return, Goto, Typed, Shape, SharedShape, LocalShape,
        Attributes, DataPCs, Threads, NewAttributes
<1>21. CASE Queued(u)
  <2>1. obj' \in Shapes
    <3> DEFINE n == IF obj.qd_buf_count < obj.num_buffers THEN 1 ELSE 0
               o == [obj EXCEPT !.qd_buf_count = obj.qd_buf_count + n]
    <3>1. obj.qd_buf_count + n \in Int /\ obj \in Shapes
      BY DEF Typed, Shape, Shapes
    <3>2. o \in Shapes
      BY <3>1, UpdateTyped
    <3>3. obj' = o \/ obj' = [o EXCEPT !.dataReady = TRUE]
      BY <1>21 DEF Queued
    <3> HIDE DEF o
    <3> QED BY <3>2, <3>3, FlagTyped
  <2>2. drv' \in Drivers
    BY <1>21 DEF Queued, Typed, Shape, Arguments, Drivers
  <2>3. SharedShape'
    BY <1>21 DEF Queued, Typed, Shape, SharedShape, Release
  <2>4. LocalShape'
    BY <1>21, ReturnTyped
      DEF Queued, Goto, Typed, Shape, LocalShape, ControlPCs, DataPCs, Threads
  <2> QED BY <2>1, <2>2, <2>3, <2>4 DEF Shape
<1>22. CASE EnableStreaming(u)
  <2>1. obj' \in Shapes
    <3>1. \/ obj' = [obj EXCEPT !.streamEn = TRUE] \/ obj' = obj
          \/ obj' = [obj EXCEPT !.streamEn = FALSE]
      BY <1>22 DEF EnableStreaming
    <3> QED BY <3>1, FlagTyped DEF Typed, Shape
  <2>2. drv' \in Drivers
    BY <1>22 DEF EnableStreaming, Typed, Shape, Drivers
  <2>3. SharedShape'
    BY <1>22 DEF EnableStreaming, Typed, Shape, SharedShape, Release
  <2>4. LocalShape'
    BY <1>22, ReturnTyped DEF EnableStreaming, Typed, Threads
  <2> QED BY <2>1, <2>2, <2>3, <2>4 DEF Shape
<1>23. ASSUME NEW off \in OffResults, CloseStop(u, off) PROVE Shape'
  <2>1. obj' \in Shapes
    BY <1>23, StopTyped DEF CloseStop, OffResults, Typed
  <2>2. drv' \in Drivers
    BY <1>23, StopTyped DEF CloseStop, OffResults, Typed
  <2>3. SharedShape'
    BY <1>23 DEF CloseStop, Typed, Shape, SharedShape, Release
  <2>4. LocalShape'
    BY <1>23
      DEF CloseStop, Goto, Typed, Shape, LocalShape, ControlPCs, DataPCs, Threads,
          ClosingPCs
  <2> QED BY <2>1, <2>2, <2>3, <2>4 DEF Shape
<1>24. CASE CloseShared(u)
  <2>1. obj' \in Shapes
    <3> DEFINE o == [obj EXCEPT !.dataReady = FALSE]
    <3>1. o \in Shapes /\ obj' = LastSide(o)
      BY <1>24, FlagTyped DEF CloseShared, Typed, Shape
    <3> HIDE DEF o
    <3>2. o.refCnt - 1 \in Int /\ (o.alive /\ o.refCnt # 1) \in BOOLEAN
      BY <3>1 DEF Shapes
    <3> QED BY <3>1, <3>2, UpdateTyped DEF LastSide
  <2>2. drv' \in Drivers
    BY <1>24 DEF CloseShared, Typed, Shape
  <2>3. SharedShape'
    BY <1>24 DEF CloseShared, Typed, Shape, SharedShape
  <2>4. LocalShape'
    BY <1>24, ReturnTyped DEF CloseShared, Typed, Threads
  <2> QED BY <2>1, <2>2, <2>3, <2>4 DEF Shape
<1>25. CASE \/ Acquire(u, "resizeLock", "resize") \/ Acquire(u, "cropLock", "crop")
        \/ Acquire(u, "qLock", "q")
  BY <1>25
    DEF Acquire, Goto, Typed, Shape, SharedShape, LocalShape, ControlPCs,
        DataPCs, ClosingPCs, Threads
<1> QED BY <1>1, <1>2, <1>3, <1>4, <1>5, <1>6, <1>7, <1>8, <1>9, <1>10, <1>11, <1>12,
           <1>13, <1>14, <1>15, <1>16, <1>17, <1>18, <1>19, <1>20, <1>21, <1>22,
           <1>23, <1>24, <1>25 DEF DataCall, DataStep

-----------------------------------------------------------------------------
(* The argument of a call, the mutex, and the references.                  *)

LEMMA ControlArguments ==
  ASSUME Typed, ControlCall \/ ControlStep
  PROVE  Arguments'
<1>1. ASSUME NEW s \in Sizes, CreateOverlay(s) PROVE Arguments'
  BY <1>1 DEF CreateOverlay, Typed, Arguments
<1>2. ASSUME NEW p \in Positions, SetPosition(p) PROVE Arguments'
  BY <1>2 DEF SetPosition, Goto, Typed, Arguments
<1>3. ASSUME NEW r \in Rotations, SetParameter(r) PROVE Arguments'
  BY <1>3 DEF SetParameter, Typed, Arguments
<1>4. CASE Commit
  BY <1>4, OverlayAssumption
    DEF Commit, Acquire, Goto, Typed, Shape, LocalShape, Threads, Arguments
<1>5. CASE DestroyOverlay
  BY <1>5, OverlayAssumption
    DEF DestroyOverlay, Acquire, Goto, Typed, Shape, LocalShape, Threads, Arguments
<1>6. CASE PositionSet
  <2>1. pc[Ctl] = "pos" /\ Release /\ Return(Ctl)
    BY <1>6 DEF PositionSet
  <2> QED BY <2>1 DEF Return, Goto, Typed, Arguments
<1>7. CASE CommitNothing
  BY <1>7 DEF CommitNothing, Goto, Typed, Arguments
<1>8. ASSUME NEW off \in OffResults, CommitBegin(off) PROVE Arguments'
  BY <1>8 DEF CommitBegin, Goto, Typed, Shape, LocalShape, Threads, Arguments
<1>9. CASE CommitSet
  BY <1>9 DEF CommitSet, Goto, Typed, Shape, LocalShape, Threads, Arguments
<1>10. CASE CommitEnd
  BY <1>10 DEF CommitEnd, Return, Goto, Typed, Arguments
<1>11. ASSUME NEW off \in OffResults, DestroyStop(off) PROVE Arguments'
  BY <1>11 DEF DestroyStop, Goto, Typed, Arguments
<1>12. CASE DestroyShared
  BY <1>12 DEF DestroyShared, Return, Goto, Typed, Arguments
<1>13. CASE Acquire(Ctl, "posLock", "pos")
  BY <1>13 DEF Acquire, Goto, Typed, Shape, LocalShape, Threads, Arguments
<1> QED BY <1>1, <1>2, <1>3, <1>4, <1>5, <1>6, <1>7, <1>8, <1>9, <1>10, <1>11, <1>12,
           <1>13 DEF ControlCall, ControlStep

LEMMA DataArguments ==
  ASSUME Typed, NEW u \in Users, DataCall(u) \/ DataStep(u)
  PROVE  Arguments'
<1>1. CASE Initialize(u)
  BY <1>1 DEF Initialize, Goto, Typed, Shape, LocalShape, Threads, Arguments
<1>2. ASSUME NEW s \in Sizes, ResizeSame(u, s) PROVE Arguments'
  BY <1>2 DEF ResizeSame, Goto, Typed, Arguments
<1>3. ASSUME NEW s \in Sizes, ResizeInput(u, s) PROVE Arguments'
  BY <1>3 DEF ResizeInput, Start, Goto, Typed, Shape, LocalShape, Arguments
<1>4. ASSUME NEW n \in Optimal, SetOptimal(u, n) PROVE Arguments'
  BY <1>4 DEF SetOptimal, Typed, Arguments
<1>5. CASE SetCacheable(u)
  BY <1>5 DEF SetCacheable, Typed, Arguments
<1>6. ASSUME NEW c \in Crops, SetCrop(u, c) PROVE Arguments'
  BY <1>6 DEF SetCrop, Start, Goto, Typed, Shape, LocalShape, Arguments
<1>7. CASE DequeueBuffer(u)
  BY <1>7, OverlayAssumption
    DEF DequeueBuffer, Acquire, Goto, Typed, Shape, LocalShape, Threads, Arguments
<1>8. ASSUME NEW b \in Buffers, QueueBuffer(u, b) PROVE Arguments'
  BY <1>8 DEF QueueBuffer, Start, Goto, Typed, Shape, LocalShape, Arguments
<1>9. CASE DataClose(u)
  BY <1>9, OverlayAssumption
    DEF DataClose, Acquire, Goto, Typed, Shape, LocalShape, Threads, Arguments
<1>10. CASE InitializeShared(u)
  BY <1>10 DEF InitializeShared, Return, Goto, Typed, Arguments
<1>11. CASE SameTest(u) \/ SameOff(u) \/ SameEn(u) \/ SameCount(u)
  <2>1. PICK l \in {"idle", "sameOff", "sameEn", "sameCount"} : Goto(u, l)
    BY <1>11, SameMoves
  <2>2. \A v \in Users \ {u} : pc'[v] = pc[v] /\ arg'[v] = arg[v]
    BY <1>11, <2>1, SameMoves DEF Return, Goto, Typed, Shape, LocalShape, Threads
  <2>3. pc'[u] = l
    BY <2>1 DEF Goto, Typed, Shape, LocalShape, Threads
  <2> QED BY <2>2, <2>3 DEF Typed, Arguments
<1>12. ASSUME NEW off \in OffResults, ResizeBegin(u, off) PROVE Arguments'
  BY <1>12
    DEF ResizeBegin, Return, Goto, Typed, Shape, LocalShape, Threads, Arguments
<1>13. ASSUME NEW n \in 1..Requested, ResizeSet(u, n) PROVE Arguments'
  BY <1>13 DEF ResizeSet, Return, Goto, Typed, Shape, LocalShape, Arguments
<1>14. ASSUME NEW off \in OffResults, CropBegin(u, off) PROVE Arguments'
  BY <1>14 DEF CropBegin, Return, Goto, Typed, Shape, LocalShape, Threads, Arguments
<1>15. CASE CropSet(u)
  BY <1>15 DEF CropSet, Return, Goto, Typed, Shape, LocalShape, Arguments
<1>16. CASE DequeueRefused(u)
  BY <1>16 DEF DequeueRefused, Return, Goto, Typed, Arguments
<1>17. CASE DequeuePoll(u)
  BY <1>17 DEF DequeuePoll, Goto, Typed, Arguments
<1>18. ASSUME NEW off \in OffResults, DequeueFails(u, off) PROVE Arguments'
  BY <1>18 DEF DequeueFails, Return, Goto, Typed, Arguments
<1>19. ASSUME NEW b \in Buffers, Dequeued(u, b) PROVE Arguments'
  BY <1>19 DEF Dequeued, Return, Goto, Typed, Arguments
<1>20. CASE QueueFails(u)
  BY <1>20 DEF QueueFails, Return, Goto, Typed, Shape, LocalShape, Arguments
<1>21. CASE Queued(u)
  BY <1>21 DEF Queued, Return, Goto, Typed, Shape, LocalShape, Threads, Arguments
<1>22. CASE EnableStreaming(u)
  BY <1>22 DEF EnableStreaming, Return, Goto, Typed, Shape, LocalShape, Arguments
<1>23. ASSUME NEW off \in OffResults, CloseStop(u, off) PROVE Arguments'
  BY <1>23 DEF CloseStop, Goto, Typed, Arguments
<1>24. CASE CloseShared(u)
  BY <1>24 DEF CloseShared, Return, Goto, Typed, Arguments
<1>25. CASE \/ Acquire(u, "resizeLock", "resize") \/ Acquire(u, "cropLock", "crop")
        \/ Acquire(u, "qLock", "q")
  BY <1>25 DEF Acquire, Goto, Typed, Shape, LocalShape, Threads, Arguments
<1> QED BY <1>1, <1>2, <1>3, <1>4, <1>5, <1>6, <1>7, <1>8, <1>9, <1>10, <1>11, <1>12,
           <1>13, <1>14, <1>15, <1>16, <1>17, <1>18, <1>19, <1>20, <1>21, <1>22,
           <1>23, <1>24, <1>25 DEF DataCall, DataStep

LEMMA AcquireOwner ==
  ASSUME Typed, Owner, Races = {}, NEW t \in Threads, NEW from,
         NEW to \in HoldingPCs, Acquire(t, from, to)
  PROVE  Owner'
<1>1. /\ pc' = [pc EXCEPT ![t] = to] /\ lock = None /\ lock' = t
      /\ pc[Ctl] # "commitEnd"
  BY DEF Acquire, Goto, WindowsClosed
<1>2. /\ pc \in [Threads -> ControlPCs \cup DataPCs]
      /\ pc[Ctl] \in ControlPCs /\ \A u \in Users : pc[u] \in DataPCs
  BY DEF Typed, Shape, LocalShape
<1>3. ASSUME NEW s \in Threads
      PROVE  (lock' = s <=> pc'[s] \in HoldingPCs) /\ pc'[s] # "commitEnd"
  <2>1. CASE s = t
    BY <1>1, <1>2, <2>1 DEF HoldingPCs
  <2>2. CASE s # t
    <3>1. pc'[s] = pc[s] /\ lock' # s
      BY <1>1, <1>2, <2>2
    <3>2. pc[s] \notin HoldingPCs
      BY <1>1, OverlayAssumption DEF Owner
    <3>3. pc[s] # "commitEnd"
      BY <1>1, <1>2 DEF Threads, ControlPCs, DataPCs, ClosingPCs
    <3> QED BY <3>1, <3>2, <3>3
  <2> QED BY <2>1, <2>2
<1> QED BY <1>3 DEF Owner

LEMMA ControlOwner ==
  ASSUME Typed, Owner, Clients, Races = {}, ControlCall \/ ControlStep
  PROVE  Owner'
<1>1. ASSUME NEW s \in Sizes, CreateOverlay(s) PROVE Owner'
  BY <1>1
    DEF CreateOverlay, Typed, Shape, SharedShape, Threads, Owner, HoldingPCs, Clients
<1>2. ASSUME NEW p \in Positions, SetPosition(p) PROVE Owner'
  BY <1>2 DEF SetPosition, Goto, Owner, HoldingPCs
<1>3. ASSUME NEW r \in Rotations, SetParameter(r) PROVE Owner'
  BY <1>3 DEF SetParameter, Owner
<1>4. CASE Commit
  BY <1>4, AcquireOwner DEF Commit, Threads, HoldingPCs
<1>5. CASE DestroyOverlay
  BY <1>5, AcquireOwner DEF DestroyOverlay, Threads, WaitingPCs, HoldingPCs
<1>6. CASE PositionSet
  <2>1. pc[Ctl] = "pos" /\ Release /\ Return(Ctl)
    BY <1>6 DEF PositionSet
  <2> QED BY <2>1, OverlayAssumption
           DEF Release, Return, Goto, Typed, Shape, LocalShape, Threads, Owner,
               HoldingPCs
<1>7. CASE CommitNothing
  BY <1>7 DEF CommitNothing, Goto, Owner, HoldingPCs
<1>8. ASSUME NEW off \in OffResults, CommitBegin(off) PROVE Owner'
  BY <1>8 DEF CommitBegin, Goto, Typed, Shape, LocalShape, Owner, HoldingPCs
<1>9. CASE CommitSet
  BY <1>9, OverlayAssumption
    DEF CommitSet, Release, Goto, Typed, Shape, LocalShape, Threads, Owner, HoldingPCs
<1>10. CASE CommitEnd
  BY <1>10, OverlayAssumption
    DEF CommitEnd, Release, Return, Goto, Typed, Shape, LocalShape, Threads, Owner,
        HoldingPCs
<1>11. ASSUME NEW off \in OffResults, DestroyStop(off) PROVE Owner'
  BY <1>11, OverlayAssumption
    DEF DestroyStop, Goto, Release, Typed, Shape, LocalShape, Threads, Owner,
        HoldingPCs
<1>12. CASE DestroyShared
  BY <1>12 DEF DestroyShared, Return, Goto, Owner, HoldingPCs
<1>13. CASE Acquire(Ctl, "posLock", "pos")
  BY <1>13, AcquireOwner DEF Threads, WaitingPCs, HoldingPCs
<1> QED BY <1>1, <1>2, <1>3, <1>4, <1>5, <1>6, <1>7, <1>8, <1>9, <1>10, <1>11, <1>12,
           <1>13 DEF ControlCall, ControlStep

LEMMA DataOwner ==
  ASSUME Typed, Owner, Races = {}, NEW u \in Users, DataCall(u) \/ DataStep(u)
  PROVE  Owner'
<1>1. CASE Initialize(u)
  BY <1>1 DEF Initialize, Goto, Typed, Shape, LocalShape, Owner, HoldingPCs
<1>2. ASSUME NEW s \in Sizes, ResizeSame(u, s) PROVE Owner'
  BY <1>2 DEF ResizeSame, Goto, Owner, HoldingPCs
<1>3. ASSUME NEW s \in Sizes, ResizeInput(u, s) PROVE Owner'
  BY <1>3 DEF ResizeInput, Start, Goto, Owner, HoldingPCs
<1>4. ASSUME NEW n \in Optimal, SetOptimal(u, n) PROVE Owner'
  BY <1>4 DEF SetOptimal, Owner
<1>5. CASE SetCacheable(u)
  BY <1>5 DEF SetCacheable, Owner
<1>6. ASSUME NEW c \in Crops, SetCrop(u, c) PROVE Owner'
  BY <1>6 DEF SetCrop, Start, Goto, Owner, HoldingPCs
<1>7. CASE DequeueBuffer(u)
  BY <1>7, AcquireOwner DEF DequeueBuffer, Threads, WaitingPCs, HoldingPCs
<1>8. ASSUME NEW b \in Buffers, QueueBuffer(u, b) PROVE Owner'
  BY <1>8 DEF QueueBuffer, Start, Goto, Owner, HoldingPCs
<1>9. CASE DataClose(u)
  BY <1>9, AcquireOwner DEF DataClose, Threads, WaitingPCs, HoldingPCs
<1>10. CASE InitializeShared(u)
  BY <1>10 DEF InitializeShared, Return, Goto, Owner, HoldingPCs
<1>11. CASE SameTest(u) \/ SameOff(u) \/ SameEn(u) \/ SameCount(u)
  <2>1. PICK l \in {"idle", "sameOff", "sameEn", "sameCount"} : Goto(u, l)
    BY <1>11, SameMoves
  <2>2. \A t \in Threads \ {u} : pc'[t] = pc[t]
    BY <2>1 DEF Goto, Typed, Shape, LocalShape
  <2>3. pc'[u] = l /\ lock' = lock /\ pc[u] \notin HoldingPCs /\ l \notin HoldingPCs
    BY <1>11, <2>1, SameMoves DEF Goto, Typed, Shape, LocalShape, Threads, HoldingPCs
  <2> QED BY <2>2, <2>3 DEF Owner, Threads
<1>12. ASSUME NEW off \in OffResults, ResizeBegin(u, off) PROVE Owner'
  BY <1>12, OverlayAssumption
    DEF ResizeBegin, Return, Goto, Release, Typed, Shape, LocalShape, Threads, Owner,
        HoldingPCs
<1>13. ASSUME NEW n \in 1..Requested, ResizeSet(u, n) PROVE Owner'
  BY <1>13, OverlayAssumption
    DEF ResizeSet, Release, Return, Goto, Typed, Shape, LocalShape, Threads, Owner,
        HoldingPCs
<1>14. ASSUME NEW off \in OffResults, CropBegin(u, off) PROVE Owner'
  BY <1>14, OverlayAssumption
    DEF CropBegin, Return, Goto, Release, Typed, Shape, LocalShape, Threads, Owner,
        HoldingPCs
<1>15. CASE CropSet(u)
  BY <1>15, OverlayAssumption
    DEF CropSet, Release, Return, Goto, Typed, Shape, LocalShape, Threads, Owner,
        HoldingPCs
<1>16. CASE DequeueRefused(u)
  BY <1>16, OverlayAssumption
    DEF DequeueRefused, Release, Return, Goto, Typed, Shape, LocalShape, Threads,
        Owner, HoldingPCs
<1>17. CASE DequeuePoll(u)
  BY <1>17 DEF DequeuePoll, Goto, Owner, HoldingPCs
<1>18. ASSUME NEW off \in OffResults, DequeueFails(u, off) PROVE Owner'
  BY <1>18, OverlayAssumption
    DEF DequeueFails, Return, Goto, Release, Typed, Shape, LocalShape, Threads, Owner,
        HoldingPCs
<1>19. ASSUME NEW b \in Buffers, Dequeued(u, b) PROVE Owner'
  BY <1>19, OverlayAssumption
    DEF Dequeued, Release, Return, Goto, Typed, Shape, LocalShape, Threads, Owner,
        HoldingPCs
<1>20. CASE QueueFails(u)
  BY <1>20, OverlayAssumption
    DEF QueueFails, Release, Return, Goto, Typed, Shape, LocalShape, Threads, Owner,
        HoldingPCs
<1>21. CASE Queued(u)
  BY <1>21, OverlayAssumption
    DEF Queued, Release, Return, Goto, Typed, Shape, LocalShape, Threads, Owner,
        HoldingPCs
<1>22. CASE EnableStreaming(u)
  BY <1>22, OverlayAssumption
    DEF EnableStreaming, Release, Return, Goto, Typed, Shape, LocalShape, Threads,
        Owner, HoldingPCs
<1>23. ASSUME NEW off \in OffResults, CloseStop(u, off) PROVE Owner'
  BY <1>23, OverlayAssumption
    DEF CloseStop, Goto, Release, Typed, Shape, LocalShape, Threads, Owner, HoldingPCs
<1>24. CASE CloseShared(u)
  BY <1>24 DEF CloseShared, Return, Goto, Owner, HoldingPCs
<1>25. CASE \/ Acquire(u, "resizeLock", "resize") \/ Acquire(u, "cropLock", "crop")
        \/ Acquire(u, "qLock", "q")
  BY <1>25, AcquireOwner DEF Threads, WaitingPCs, HoldingPCs
<1> QED BY <1>1, <1>2, <1>3, <1>4, <1>5, <1>6, <1>7, <1>8, <1>9, <1>10, <1>11, <1>12,
           <1>13, <1>14, <1>15, <1>16, <1>17, <1>18, <1>19, <1>20, <1>21, <1>22,
           <1>23, <1>24, <1>25 DEF DataCall, DataStep

LEMMA ControlCounted ==
  ASSUME Typed, Counted, Clients, Races = {}, ControlCall \/ ControlStep
  PROVE  Counted'
<1>1. ASSUME NEW s \in Sizes, CreateOverlay(s) PROVE Counted'
  BY <1>1 DEF CreateOverlay, NewObject, Counted
<1>2. ASSUME NEW p \in Positions, SetPosition(p) PROVE Counted'
  BY <1>2 DEF SetPosition, Counted
<1>3. ASSUME NEW r \in Rotations, SetParameter(r) PROVE Counted'
  BY <1>3 DEF SetParameter, Counted
<1>4. CASE Commit
  BY <1>4, OverlayAssumption
    DEF Commit, Acquire, Counted
<1>5. CASE DestroyOverlay
  BY <1>5, OverlayAssumption
    DEF DestroyOverlay, Acquire, Counted
<1>6. CASE PositionSet
  <2>1. pc[Ctl] = "pos" /\ Release /\ UNCHANGED <<obj, slot, ctx>> /\ Return(Ctl)
    BY <1>6 DEF PositionSet
  <2> QED BY <2>1 DEF Counted
<1>7. CASE CommitNothing
  BY <1>7 DEF CommitNothing, Counted
<1>8. ASSUME NEW off \in OffResults, CommitBegin(off) PROVE Counted'
  BY <1>8 DEF CommitBegin, Disable, Typed, Shape, SharedShape, Counted, Shapes
<1>9. CASE CommitSet
  BY <1>9 DEF CommitSet, Counted
<1>10. CASE CommitEnd
  BY <1>10 DEF CommitEnd, Counted
<1>11. ASSUME NEW off \in OffResults, DestroyStop(off) PROVE Counted'
  BY <1>11 DEF DestroyStop, Disable, Counted
<1>12. CASE DestroyShared
  <2>1. pc[Ctl] = "destroyShared" /\ pc \in [Threads -> ControlPCs \cup DataPCs] /\ slot
    BY <1>12 DEF DestroyShared, Typed, Shape, LocalShape, Counted
  <2>2. /\ obj'.refCnt = obj.refCnt - 1 /\ (obj'.alive <=> obj.alive /\ obj.refCnt # 1)
        /\ slot' = FALSE /\ ctx' = ctx
    BY <1>12 DEF DestroyShared, LastSide, Typed, Shape, Shapes
  <2>3. pc'[Ctl] = "idle"
    BY <1>12, <2>1 DEF DestroyShared, Return, Goto, Threads
  <2> QED BY <2>1, <2>2, <2>3 DEF Counted
<1>13. CASE Acquire(Ctl, "posLock", "pos")
  BY <1>13 DEF Acquire, Counted
<1> QED BY <1>1, <1>2, <1>3, <1>4, <1>5, <1>6, <1>7, <1>8, <1>9, <1>10, <1>11, <1>12,
           <1>13 DEF ControlCall, ControlStep

LEMMA DataCounted ==
  ASSUME Typed, Counted, Clients, Races = {}, NEW u \in Users, DataCall(u) \/ DataStep(u)
  PROVE  Counted'
<1>1. CASE Initialize(u)
  BY <1>1 DEF Initialize, Counted
<1>2. ASSUME NEW s \in Sizes, ResizeSame(u, s) PROVE Counted'
  BY <1>2, OverlayAssumption DEF ResizeSame, Goto, Counted
<1>3. ASSUME NEW s \in Sizes, ResizeInput(u, s) PROVE Counted'
  BY <1>3, OverlayAssumption DEF ResizeInput, Start, Goto, Counted
<1>4. ASSUME NEW n \in Optimal, SetOptimal(u, n) PROVE Counted'
  BY <1>4 DEF SetOptimal, Counted
<1>5. CASE SetCacheable(u)
  BY <1>5 DEF SetCacheable, Counted
<1>6. ASSUME NEW c \in Crops, SetCrop(u, c) PROVE Counted'
  BY <1>6, OverlayAssumption DEF SetCrop, Start, Goto, Counted
<1>7. CASE DequeueBuffer(u)
  BY <1>7, OverlayAssumption
    DEF DequeueBuffer, Acquire, Goto, Typed, Shape, LocalShape, Threads, Counted
<1>8. ASSUME NEW b \in Buffers, QueueBuffer(u, b) PROVE Counted'
  BY <1>8, OverlayAssumption DEF QueueBuffer, Start, Goto, Counted
<1>9. CASE DataClose(u)
  BY <1>9, OverlayAssumption
    DEF DataClose, Acquire, Goto, Typed, Shape, LocalShape, Threads, Counted
<1>10. CASE InitializeShared(u)
  BY <1>10 DEF InitializeShared, Counted, Clients
<1>11. CASE SameTest(u) \/ SameOff(u) \/ SameEn(u) \/ SameCount(u)
  <2>1. PICK l \in {"idle", "sameOff", "sameEn", "sameCount"} : Goto(u, l)
    BY <1>11, SameMoves
  <2>2. obj'.refCnt = obj.refCnt /\ obj'.alive = obj.alive
    BY <1>11, SameMoves DEF Typed, Shape, Shapes
  <2>3. pc'[Ctl] = pc[Ctl]
    BY <2>1, OverlayAssumption DEF Goto, Typed, Shape, LocalShape, Threads
  <2> QED BY <1>11, <2>2, <2>3, SameMoves DEF Counted
<1>12. ASSUME NEW off \in OffResults, ResizeBegin(u, off) PROVE Counted'
  BY <1>12
    DEF ResizeBegin, Disable, Return, Goto, Typed, Shape, LocalShape, Threads, Counted
<1>13. ASSUME NEW n \in 1..Requested, ResizeSet(u, n) PROVE Counted'
  <2>1. obj \in Shapes /\ pc \in [Threads -> ControlPCs \cup DataPCs] /\ u # Ctl
    BY OverlayAssumption DEF Typed, Shape, LocalShape
  <2>2. pc'[Ctl] = pc[Ctl] /\ UNCHANGED <<slot, ctx>>
    <3>1. (\E l : Goto(u, l)) /\ UNCHANGED <<slot, ctx>>
      BY <1>13 DEF ResizeSet, Return
    <3> QED BY <2>1, <3>1 DEF Goto
  <2>3. obj'.refCnt = obj.refCnt /\ obj'.alive = obj.alive
    <3>1. \/ obj' = [obj EXCEPT !.size = arg[u], !.num_buffers = n, !.mappedbufcount = n,
                        !.dataReady = FALSE, !.controlReady = TRUE,
                        !.attributes_changed = FALSE]
          \/ obj' = obj \/ obj' = [obj EXCEPT !.size = arg[u]]
      BY <1>13 DEF ResizeSet
    <3> QED BY <2>1, <3>1 DEF Shapes
  <2> QED BY <2>2, <2>3 DEF Counted
<1>14. ASSUME NEW off \in OffResults, CropBegin(u, off) PROVE Counted'
  <2>1. obj \in Shapes /\ pc \in [Threads -> ControlPCs \cup DataPCs] /\ u # Ctl
    BY OverlayAssumption DEF Typed, Shape, LocalShape
  <2>2. pc'[Ctl] = pc[Ctl] /\ UNCHANGED <<slot, ctx>>
    <3>1. (\E l : Goto(u, l)) /\ UNCHANGED <<slot, ctx>>
      BY <1>14 DEF CropBegin, Return
    <3> QED BY <2>1, <3>1 DEF Goto
  <2>3. obj'.refCnt = obj.refCnt /\ obj'.alive = obj.alive
    <3>1. Disable(off) \in Shapes
      BY StopTyped DEF OffResults, Typed
    <3>2. Disable(off).refCnt = obj.refCnt /\ Disable(off).alive = obj.alive
      BY <2>1 DEF Disable
    <3>3. \/ obj' = [Disable(off) EXCEPT !.dataReady = TRUE]
          \/ obj' = [obj EXCEPT !.dataReady = TRUE]
      BY <1>14 DEF CropBegin
    <3> QED BY <2>1, <3>1, <3>2, <3>3 DEF Shapes
  <2> QED BY <2>2, <2>3 DEF Counted
<1>15. CASE CropSet(u)
  BY <1>15 DEF CropSet, Return, Goto, Counted
<1>16. CASE DequeueRefused(u)
  BY <1>16 DEF DequeueRefused, Return, Goto, Counted
<1>17. CASE DequeuePoll(u)
  BY <1>17 DEF DequeuePoll, Goto, Counted
<1>18. ASSUME NEW off \in OffResults, DequeueFails(u, off) PROVE Counted'
  BY <1>18 DEF DequeueFails, Disable, Return, Goto, Counted
<1>19. ASSUME NEW b \in Buffers, Dequeued(u, b) PROVE Counted'
  BY <1>19 DEF Dequeued, Return, Goto, Counted
<1>20. CASE QueueFails(u)
  BY <1>20 DEF QueueFails, Return, Goto, Counted
<1>21. CASE Queued(u)
  <2>1. obj \in Shapes /\ pc \in [Threads -> ControlPCs \cup DataPCs] /\ u # Ctl
    BY OverlayAssumption DEF Typed, Shape, LocalShape
  <2>2. pc'[Ctl] = pc[Ctl] /\ UNCHANGED <<slot, ctx>>
    <3>1. (\E l : Goto(u, l)) /\ UNCHANGED <<slot, ctx>>
      BY <1>21 DEF Queued, Return
    <3> QED BY <2>1, <3>1 DEF Goto
  <2>3. obj'.refCnt = obj.refCnt /\ obj'.alive = obj.alive
    <3> DEFINE n == IF obj.qd_buf_count < obj.num_buffers THEN 1 ELSE 0
               o == [obj EXCEPT !.qd_buf_count = obj.qd_buf_count + n]
    <3>1. o.refCnt = obj.refCnt /\ o.alive = obj.alive /\ DOMAIN o = DOMAIN obj
      BY <2>1
    <3>2. "refCnt" \in DOMAIN obj /\ "alive" \in DOMAIN obj
      BY <2>1 DEF Shapes
    <3>3. obj' = o \/ obj' = [o EXCEPT !.dataReady = TRUE]
      BY <1>21 DEF Queued
    <3> HIDE DEF o
    <3> QED BY <3>1, <3>2, <3>3
  <2> QED BY <2>2, <2>3 DEF Counted
<1>22. CASE EnableStreaming(u)
  BY <1>22 DEF EnableStreaming, Return, Goto, Typed, Shape, Counted, Shapes
<1>23. ASSUME NEW off \in OffResults, CloseStop(u, off) PROVE Counted'
  BY <1>23 DEF CloseStop, Disable, Goto, Counted
<1>24. CASE CloseShared(u)
  BY <1>24
    DEF CloseShared, LastSide, Return, Goto, Typed, Shape, SharedShape, Counted,
        Clients
<1>25. CASE \/ Acquire(u, "resizeLock", "resize") \/ Acquire(u, "cropLock", "crop")
        \/ Acquire(u, "qLock", "q")
  BY <1>25 DEF Acquire, Goto, Typed, Shape, LocalShape, Threads, Counted
<1> QED BY <1>1, <1>2, <1>3, <1>4, <1>5, <1>6, <1>7, <1>8, <1>9, <1>10, <1>11, <1>12,
           <1>13, <1>14, <1>15, <1>16, <1>17, <1>18, <1>19, <1>20, <1>21, <1>22,
           <1>23, <1>24, <1>25 DEF DataCall, DataStep

LEMMA ControlClients ==
  ASSUME Typed, Counted, Clients, Races = {}, ControlCall \/ ControlStep
  PROVE  Clients'
<1>1. ASSUME NEW s \in Sizes, CreateOverlay(s) PROVE Clients'
  BY <1>1 DEF CreateOverlay, Clients
<1>2. ASSUME NEW p \in Positions, SetPosition(p) PROVE Clients'
  BY <1>2, OverlayAssumption DEF SetPosition, Goto, Clients
<1>3. ASSUME NEW r \in Rotations, SetParameter(r) PROVE Clients'
  BY <1>3 DEF SetParameter, Clients
<1>4. CASE Commit
  BY <1>4, OverlayAssumption
    DEF Commit, Acquire, Goto, Typed, Shape, LocalShape, Threads, ClosingPCs, Clients
<1>5. CASE DestroyOverlay
  BY <1>5, OverlayAssumption
    DEF DestroyOverlay, Acquire, Goto, Typed, Shape, LocalShape, Threads, ClosingPCs,
        Clients
<1>6. CASE PositionSet
  <2>1. pc[Ctl] = "pos" /\ Release /\ UNCHANGED <<slot, ctx>> /\ Return(Ctl)
    BY <1>6 DEF PositionSet
  <2> QED BY <2>1, OverlayAssumption DEF Return, Goto, Clients
<1>7. CASE CommitNothing
  BY <1>7 DEF CommitNothing, Goto, ClosingPCs, Clients
<1>8. ASSUME NEW off \in OffResults, CommitBegin(off) PROVE Clients'
  BY <1>8
    DEF CommitBegin, Goto, Typed, Shape, LocalShape, Threads, ClosingPCs, Clients
<1>9. CASE CommitSet
  BY <1>9 DEF CommitSet, Goto, Typed, Shape, LocalShape, Threads, ClosingPCs, Clients
<1>10. CASE CommitEnd
  BY <1>10 DEF CommitEnd, Return, Goto, ClosingPCs, Clients
<1>11. ASSUME NEW off \in OffResults, DestroyStop(off) PROVE Clients'
  BY <1>11 DEF DestroyStop, Goto, ClosingPCs, Clients
<1>12. CASE DestroyShared
  BY <1>12 DEF DestroyShared, Return, Goto, ClosingPCs, Clients
<1>13. CASE Acquire(Ctl, "posLock", "pos")
  BY <1>13 DEF Acquire, Goto, Typed, Shape, LocalShape, Threads, ClosingPCs, Clients
<1> QED BY <1>1, <1>2, <1>3, <1>4, <1>5, <1>6, <1>7, <1>8, <1>9, <1>10, <1>11, <1>12,
           <1>13 DEF ControlCall, ControlStep

LEMMA DataClients ==
  ASSUME Typed, Counted, Clients, Races = {}, NEW u \in Users, DataCall(u) \/ DataStep(u)
  PROVE  Clients'
<1>1. CASE Initialize(u)
  BY <1>1
    DEF Initialize, Goto, Typed, Shape, LocalShape, Threads, ClosingPCs, Clients,
        Counted
<1>2. ASSUME NEW s \in Sizes, ResizeSame(u, s) PROVE Clients'
  BY <1>2 DEF ResizeSame, Open, Goto, Typed, Shape, LocalShape, Threads, ClosingPCs,
        Clients
<1>3. ASSUME NEW s \in Sizes, ResizeInput(u, s) PROVE Clients'
  BY <1>3 DEF ResizeInput, Start, Open, Goto, Typed, Shape, LocalShape, Threads,
              ClosingPCs, Clients
<1>4. ASSUME NEW n \in Optimal, SetOptimal(u, n) PROVE Clients'
  BY <1>4 DEF SetOptimal, Clients
<1>5. CASE SetCacheable(u)
  BY <1>5 DEF SetCacheable, Clients
<1>6. ASSUME NEW c \in Crops, SetCrop(u, c) PROVE Clients'
  BY <1>6 DEF SetCrop, Start, Open, Goto, Typed, Shape, LocalShape, Threads, ClosingPCs,
              Clients
<1>7. CASE DequeueBuffer(u)
  BY <1>7, OverlayAssumption
    DEF DequeueBuffer, Open, Acquire, Goto, Typed, Shape, LocalShape, Threads,
        ClosingPCs, Clients
<1>8. ASSUME NEW b \in Buffers, QueueBuffer(u, b) PROVE Clients'
  BY <1>8 DEF QueueBuffer, Start, Open, Goto, Typed, Shape, LocalShape, Threads,
              ClosingPCs, Clients
<1>9. CASE DataClose(u)
  BY <1>9, OverlayAssumption
    DEF DataClose, Acquire, Goto, Typed, Shape, LocalShape, Threads, ClosingPCs, Clients
<1>10. CASE InitializeShared(u)
  BY <1>10
    DEF InitializeShared, Return, Goto, Typed, Shape, LocalShape, Threads, Clients
<1>11. CASE SameTest(u) \/ SameOff(u) \/ SameEn(u) \/ SameCount(u)
  <2>1. PICK l \in {"idle", "sameOff", "sameEn", "sameCount"} : Goto(u, l)
    BY <1>11, SameMoves
  <2>2. \A v \in Users \ {u} : pc'[v] = pc[v]
    BY <2>1 DEF Goto, Typed, Shape, LocalShape, Threads
  <2>3. pc'[u] = l /\ pc[u] \notin ClosingPCs \cup {"idle", "attach"}
    BY <1>11, <2>1, SameMoves DEF Goto, Typed, Shape, LocalShape, Threads, ClosingPCs
  <2>4. UNCHANGED <<slot, ctx>> /\ l \notin ClosingPCs \cup {"attach"}
    BY <1>11, SameMoves, <2>1 DEF ClosingPCs
  <2> QED BY <2>2, <2>3, <2>4 DEF Clients
<1>12. ASSUME NEW off \in OffResults, ResizeBegin(u, off) PROVE Clients'
  BY <1>12
    DEF ResizeBegin, Return, Goto, Typed, Shape, LocalShape, Threads, ClosingPCs,
        Clients
<1>13. ASSUME NEW n \in 1..Requested, ResizeSet(u, n) PROVE Clients'
  BY <1>13 DEF ResizeSet, Return, Goto, ClosingPCs, Clients
<1>14. ASSUME NEW off \in OffResults, CropBegin(u, off) PROVE Clients'
  BY <1>14
    DEF CropBegin, Return, Goto, Typed, Shape, LocalShape, Threads, ClosingPCs,
        Clients
<1>15. CASE CropSet(u)
  BY <1>15 DEF CropSet, Return, Goto, ClosingPCs, Clients
<1>16. CASE DequeueRefused(u)
  BY <1>16 DEF DequeueRefused, Return, Goto, ClosingPCs, Clients
<1>17. CASE DequeuePoll(u)
  BY <1>17 DEF DequeuePoll, Goto, ClosingPCs, Clients
<1>18. ASSUME NEW off \in OffResults, DequeueFails(u, off) PROVE Clients'
  BY <1>18 DEF DequeueFails, Return, Goto, ClosingPCs, Clients
<1>19. ASSUME NEW b \in Buffers, Dequeued(u, b) PROVE Clients'
  BY <1>19 DEF Dequeued, Return, Goto, ClosingPCs, Clients
<1>20. CASE QueueFails(u)
  BY <1>20 DEF QueueFails, Return, Goto, ClosingPCs, Clients
<1>21. CASE Queued(u)
  BY <1>21
    DEF Queued, Return, Goto, Typed, Shape, LocalShape, Threads, ClosingPCs, Clients
<1>22. CASE EnableStreaming(u)
  BY <1>22 DEF EnableStreaming, Return, Goto, ClosingPCs, Clients
<1>23. ASSUME NEW off \in OffResults, CloseStop(u, off) PROVE Clients'
  BY <1>23 DEF CloseStop, Goto, ClosingPCs, Clients
<1>24. CASE CloseShared(u)
  BY <1>24
    DEF CloseShared, Return, Goto, Typed, Shape, LocalShape, Threads, ClosingPCs,
        Clients
<1>25. CASE \/ Acquire(u, "resizeLock", "resize") \/ Acquire(u, "cropLock", "crop")
        \/ Acquire(u, "qLock", "q")
  BY <1>25 DEF Acquire, Goto, Typed, Shape, LocalShape, Threads, ClosingPCs, Clients
<1> QED BY <1>1, <1>2, <1>3, <1>4, <1>5, <1>6, <1>7, <1>8, <1>9, <1>10, <1>11, <1>12,
           <1>13, <1>14, <1>15, <1>16, <1>17, <1>18, <1>19, <1>20, <1>21, <1>22,
           <1>23, <1>24, <1>25 DEF DataCall, DataStep

-----------------------------------------------------------------------------
(* What a step does to the stream.  Most leave it alone, six may stop it,  *)
(* and the rest have cases of their own below.                             *)

Moved(t) == \A v \in Threads \ {t} : pc'[v] = pc[v]

StreamKept ==
  /\ obj'.streamEn = obj.streamEn /\ obj'.qd_buf_count = obj.qd_buf_count
  /\ drv'.on = drv.on /\ drv'.queued = drv.queued

StreamStopped ==
  /\ obj'.streamEn = FALSE /\ obj'.qd_buf_count = 0
  /\ drv'.on = FALSE /\ drv'.queued = {}

LeftAlone(t) ==
  /\ Moved(t)
  /\ pc[t] \notin {"qOn", "sameEn", "sameCount"}
  /\ pc'[t] \notin {"qOn", "resizeSet", "sameEn", "sameCount", "closeShared"}
  /\ pc'[t] = "dqbuf" => Ready /\ obj.qd_buf_count >= 0
  /\ StreamKept
  /\ obj'.num_buffers = obj.num_buffers
  /\ obj'.dataReady = obj.dataReady \/ Watch(t)
  /\ ctx' = ctx \/ (ctx = "offered" /\ ctx' \in {"attaching", "none"})

Stops(t) ==
  /\ Moved(t) /\ Watch(t)
  /\ pc[t] \in HoldingPCs \ {"qOn"}
  /\ pc'[t] \notin {"qOn", "dqbuf", "sameOff", "sameEn", "sameCount"}
  /\ StreamKept \/ StreamStopped
  /\ pc'[t] = "resizeSet" => ~obj'.streamEn
  /\ pc'[t] = "closeShared" => ~obj'.streamEn \/ "off" \in Faults
  /\ obj'.num_buffers = obj.num_buffers
  /\ ctx' = ctx

LEMMA Going ==
  ASSUME Typed, NEW t \in Threads, NEW l, Goto(t, l)
  PROVE  Moved(t) /\ pc'[t] = l
BY DEF Moved, Goto, Typed, Shape, LocalShape

LEMMA Aside ==
  ASSUME Typed, NEW t \in Threads, NEW l, Goto(t, l),
         pc[t] \notin {"qOn", "sameEn", "sameCount"},
         l \notin {"qOn", "resizeSet", "sameEn", "sameCount", "closeShared", "dqbuf"},
         StreamKept, obj'.num_buffers = obj.num_buffers,
         obj'.dataReady = obj.dataReady, ctx' = ctx
  PROVE  LeftAlone(t)
<1>1. Moved(t) /\ pc'[t] = l
  BY Going
<1> QED BY <1>1 DEF LeftAlone

LEMMA Untouched ==
  ASSUME obj' = obj, drv' = drv
  PROVE  StreamKept /\ obj'.num_buffers = obj.num_buffers /\ obj'.dataReady = obj.dataReady
BY DEF StreamKept

\* What disable_streaming_locked() does to the stream.
LEMMA Disabled ==
  ASSUME Typed, NEW ok \in OffResults
  PROVE  /\ Disable(ok) \in Shapes /\ DriverOff(ok) \in Drivers
         /\ Disable(ok).num_buffers = obj.num_buffers
         /\ \/ /\ Disable(ok).streamEn = obj.streamEn
               /\ Disable(ok).qd_buf_count = obj.qd_buf_count
               /\ DriverOff(ok) = drv
            \/ /\ Disable(ok).streamEn = FALSE /\ Disable(ok).qd_buf_count = 0
               /\ DriverOff(ok).on = FALSE /\ DriverOff(ok).queued = {}
         /\ ok => ~Disable(ok).streamEn
         /\ ok \/ "off" \in Faults
         /\ ok \in BOOLEAN
<1>1. ok \in BOOLEAN /\ (ok \/ "off" \in Faults)
  BY DEF OffResults
<1>2. Disable(ok) \in Shapes /\ DriverOff(ok) \in Drivers
  BY <1>1, StopTyped DEF Typed
<1>3. obj \in Shapes /\ drv \in Drivers /\ obj.streamEn \in BOOLEAN
  BY DEF Typed, Shape, Shapes
<1>4. CASE ~obj.streamEn \/ ~ok
  BY <1>1, <1>2, <1>3, <1>4 DEF Disable, DriverOff
<1>5. CASE obj.streamEn /\ ok
  <2>1. /\ Disable(ok) = [obj EXCEPT !.streamEn = FALSE, !.qd_buf_count = 0]
        /\ DriverOff(ok) = [drv EXCEPT !.on = FALSE, !.queued = {}]
    BY <1>5 DEF Disable, DriverOff, StreamedOff
  <2>2. Disable(ok).num_buffers = obj.num_buffers /\ Disable(ok).streamEn = FALSE
    BY <2>1, <1>3 DEF Shapes
  <2>3. Disable(ok).qd_buf_count = 0
    BY <2>1, <1>3 DEF Shapes
  <2>4. DriverOff(ok).on = FALSE /\ DriverOff(ok).queued = {}
    BY <2>1, <1>3 DEF Drivers
  <2> QED BY <1>1, <1>2, <2>2, <2>3, <2>4
<1> QED BY <1>1, <1>3, <1>4, <1>5

\* A step that stops the stream, when disable_streaming_locked() is called.
LEMMA Stopping ==
  ASSUME Typed, NEW t \in Threads, NEW l, Goto(t, l), Watch(t),
         pc[t] \in HoldingPCs \ {"qOn"},
         l \notin {"qOn", "dqbuf", "sameOff", "sameEn", "sameCount"}, ctx' = ctx,
         NEW ok \in OffResults, drv' = DriverOff(ok),
         obj'.streamEn = Disable(ok).streamEn,
         obj'.qd_buf_count = Disable(ok).qd_buf_count,
         obj'.num_buffers = Disable(ok).num_buffers,
         l = "resizeSet" => ok
  PROVE  Stops(t)
<1>1. Moved(t) /\ pc'[t] = l
  BY Going
<1>2. StreamKept \/ StreamStopped
  BY Disabled DEF StreamKept, StreamStopped
<1>3. obj'.num_buffers = obj.num_buffers
  BY Disabled
<1>4. (ok => ~obj'.streamEn) /\ (ok \/ "off" \in Faults) /\ ok \in BOOLEAN
  BY Disabled
<1> QED BY <1>1, <1>2, <1>3, <1>4 DEF Stops

\* The same when it was not called.
LEMMA NotStopping ==
  ASSUME Typed, NEW t \in Threads, NEW l, Goto(t, l), Watch(t),
         pc[t] \in HoldingPCs \ {"qOn"},
         l \notin {"qOn", "dqbuf", "sameOff", "sameEn", "sameCount", "resizeSet",
                   "closeShared"},
         ctx' = ctx, StreamKept, obj'.num_buffers = obj.num_buffers
  PROVE  Stops(t)
<1>1. Moved(t) /\ pc'[t] = l
  BY Going
<1> QED BY <1>1 DEF Stops

LEMMA ControlKinds ==
  ASSUME Typed, ControlCall \/ ControlStep
  PROVE  \/ \E s \in Sizes : CreateOverlay(s)
         \/ LeftAlone(Ctl) \/ Stops(Ctl)
<1>0. /\ Ctl \in Threads /\ pc \in [Threads -> ControlPCs \cup DataPCs]
      /\ obj \in Shapes /\ drv \in Drivers
  BY DEF Typed, Shape, LocalShape, Threads
<1>1. ASSUME NEW s \in Sizes, CreateOverlay(s) PROVE \E r \in Sizes : CreateOverlay(r)
  BY <1>1
<1>2. ASSUME NEW p \in Positions, SetPosition(p) PROVE LeftAlone(Ctl)
  <2>1. pc[Ctl] = "idle" /\ Goto(Ctl, "posLock") /\ UNCHANGED <<obj, drv, ctx>>
    BY <1>2 DEF SetPosition
  <2> QED BY <1>0, <2>1, Aside, Untouched
<1>3. ASSUME NEW r \in Rotations, SetParameter(r) PROVE LeftAlone(Ctl)
  BY <1>0, <1>3 DEF SetParameter, LeftAlone, Moved, StreamKept
<1>4. CASE Commit \/ DestroyOverlay
  <2>1. /\ pc[Ctl] = "idle" /\ \E l \in {"commit", "destroy"} : Goto(Ctl, l)
        /\ UNCHANGED <<obj, drv, ctx>>
    BY <1>4 DEF Commit, DestroyOverlay, Acquire
  <2> QED BY <1>0, <2>1, Aside, Untouched
<1>5. CASE PositionSet
  <2>1. pc[Ctl] = "pos" /\ Goto(Ctl, "idle") /\ UNCHANGED <<obj, ctx>>
    BY <1>5 DEF PositionSet, Return
  <2>2. drv'.on = drv.on /\ drv'.queued = drv.queued
    BY <1>0, <1>5 DEF PositionSet, Drivers
  <2> QED BY <1>0, <2>1, <2>2, Aside DEF StreamKept
<1>6. CASE CommitNothing
  <2>1. /\ pc[Ctl] = "commit" /\ Goto(Ctl, "commitUnlock") /\ UNCHANGED <<drv, ctx>>
        /\ obj' = [obj EXCEPT !.controlReady = TRUE]
    BY <1>6 DEF CommitNothing
  <2>2. StreamKept /\ obj'.num_buffers = obj.num_buffers /\ obj'.dataReady = obj.dataReady
    BY <1>0, <2>1 DEF StreamKept, Shapes
  <2> QED BY <1>0, <2>1, <2>2, Aside
<1>7. ASSUME NEW off \in OffResults, CommitBegin(off) PROVE Stops(Ctl)
  <2>1. pc[Ctl] = "commit" /\ ctx' = ctx /\ Watch(Ctl)
    BY <1>7 DEF CommitBegin
  <2>2. CASE /\ obj' = [Disable(off) EXCEPT !.controlReady = TRUE]
             /\ drv' = DriverOff(off)
             /\ \E l \in {"commitSet", "commitUnlock"} : Goto(Ctl, l)
    <3>1. /\ obj'.streamEn = Disable(off).streamEn
          /\ obj'.qd_buf_count = Disable(off).qd_buf_count
          /\ obj'.num_buffers = Disable(off).num_buffers
      <4>1. Disable(off) \in Shapes
        BY Disabled
      <4> QED BY <2>2, <4>1 DEF Shapes
    <3> QED BY <1>0, <2>1, <2>2, <3>1, Stopping DEF HoldingPCs
  <2>3. CASE /\ obj' = [obj EXCEPT !.controlReady = TRUE] /\ drv' = drv
             /\ Goto(Ctl, "commitUnlock")
    <3>1. StreamKept /\ obj'.num_buffers = obj.num_buffers
      BY <1>0, <2>3 DEF Shapes, StreamKept
    <3> QED BY <1>0, <2>1, <2>3, <3>1, NotStopping DEF HoldingPCs
  <2> QED BY <1>7, <2>2, <2>3 DEF CommitBegin
<1>8. CASE CommitSet
  <2>1. /\ pc[Ctl] = "commitSet" /\ UNCHANGED <<obj, ctx>>
        /\ \E l \in {"commitEnd", "commitUnlock"} : Goto(Ctl, l)
    BY <1>8 DEF CommitSet
  <2>2. drv'.on = drv.on /\ drv'.queued = drv.queued
    BY <1>0, <1>8 DEF CommitSet, Drivers
  <2> QED BY <1>0, <2>1, <2>2, Aside DEF StreamKept
<1>9. CASE CommitEnd
  <2>1. /\ pc[Ctl] \in {"commitUnlock", "commitEnd"} /\ Goto(Ctl, "idle")
        /\ UNCHANGED <<obj, drv, ctx>>
    BY <1>9 DEF CommitEnd, Return
  <2> QED BY <1>0, <2>1, Aside, Untouched
<1>10. ASSUME NEW off \in OffResults, DestroyStop(off) PROVE Stops(Ctl)
  <2>1. /\ pc[Ctl] = "destroy" /\ Goto(Ctl, "destroyShared") /\ ctx' = ctx /\ Watch(Ctl)
        /\ obj' = Disable(off) /\ drv' = DriverOff(off)
    BY <1>10 DEF DestroyStop
  <2> QED BY <1>0, <2>1, Stopping DEF HoldingPCs
<1>11. CASE DestroyShared
  <2>1. /\ pc[Ctl] = "destroyShared" /\ Goto(Ctl, "idle") /\ UNCHANGED <<drv, ctx>>
        /\ obj' = LastSide(obj)
    BY <1>11 DEF DestroyShared, Return
  <2>2. StreamKept /\ obj'.num_buffers = obj.num_buffers /\ obj'.dataReady = obj.dataReady
    BY <1>0, <2>1 DEF StreamKept, LastSide, Shapes
  <2> QED BY <1>0, <2>1, <2>2, Aside
<1>12. CASE Acquire(Ctl, "posLock", "pos")
  <2>1. pc[Ctl] = "posLock" /\ Goto(Ctl, "pos") /\ UNCHANGED <<obj, drv, ctx>>
    BY <1>12 DEF Acquire
  <2> QED BY <1>0, <2>1, Aside, Untouched
<1> QED BY <1>1, <1>2, <1>3, <1>4, <1>5, <1>6, <1>7, <1>8, <1>9, <1>10, <1>11, <1>12
     DEF ControlCall, ControlStep

\* The steps with cases of their own.
OwnCase(u) ==
  \/ InitializeShared(u) \/ CloseShared(u)
  \/ SameOff(u) \/ SameEn(u) \/ SameCount(u)
  \/ \E n \in 1..Requested : ResizeSet(u, n)
  \/ \E b \in Buffers : Dequeued(u, b)
  \/ Queued(u) \/ EnableStreaming(u)

LEMMA DataKinds ==
  ASSUME Typed, NEW u \in Users, DataCall(u) \/ DataStep(u)
  PROVE  LeftAlone(u) \/ Stops(u) \/ OwnCase(u)
<1>0. /\ u \in Threads /\ pc \in [Threads -> ControlPCs \cup DataPCs]
      /\ obj \in Shapes /\ drv \in Drivers
  BY DEF Typed, Shape, LocalShape, Threads
<1>1. CASE Initialize(u)
  <2>1. /\ pc[u] = "idle" /\ UNCHANGED <<obj, drv>>
        /\ ctx = "offered" /\ ctx' \in {"attaching", "none"}
        /\ Goto(u, "attach") \/ pc' = pc
    BY <1>1 DEF Initialize
  <2>2. Moved(u) /\ pc'[u] \in {"idle", "attach"}
    BY <1>0, <2>1, Going DEF Moved
  <2> QED BY <2>1, <2>2, Untouched DEF LeftAlone
<1>2. ASSUME NEW s \in Sizes, ResizeSame(u, s) PROVE LeftAlone(u)
  <2>1. /\ pc[u] = "idle" /\ Goto(u, "same") /\ UNCHANGED <<drv, ctx>> /\ Watch(u)
        /\ obj' = [obj EXCEPT !.dataReady = FALSE]
    BY <1>2 DEF ResizeSame
  <2>2. StreamKept /\ obj'.num_buffers = obj.num_buffers
    BY <1>0, <2>1 DEF StreamKept, Shapes
  <2>3. Moved(u) /\ pc'[u] = "same"
    BY <1>0, <2>1, Going
  <2> QED BY <2>1, <2>2, <2>3 DEF LeftAlone
<1>3. ASSUME NEW l \in {"resizeLock", "cropLock", "qLock"}, NEW a, Start(u, l, a)
      PROVE  LeftAlone(u)
  <2>1. pc[u] = "idle" /\ Goto(u, l) /\ UNCHANGED <<obj, drv, ctx>>
    BY <1>3 DEF Start
  <2> QED BY <1>0, <2>1, Aside, Untouched
<1>4. CASE (\E n \in Optimal : SetOptimal(u, n)) \/ SetCacheable(u)
  <2>1. pc[u] = "idle" /\ UNCHANGED <<pc, drv, ctx>>
    BY <1>4 DEF SetOptimal, SetCacheable
  <2>2. StreamKept /\ obj'.num_buffers = obj.num_buffers /\ obj'.dataReady = obj.dataReady
    BY <1>0, <1>4 DEF SetOptimal, SetCacheable, StreamKept, Shapes
  <2> QED BY <2>1, <2>2 DEF LeftAlone, Moved
<1>5. ASSUME NEW l \in {"dq", "close", "resize", "crop", "q"}, NEW k, Acquire(u, k, l),
             k \in {"idle", "resizeLock", "cropLock", "qLock"}
      PROVE  LeftAlone(u)
  <2>1. pc[u] = k /\ Goto(u, l) /\ UNCHANGED <<obj, drv, ctx>>
    BY <1>5 DEF Acquire
  <2> QED BY <1>0, <1>5, <2>1, Aside, Untouched
<1>6. CASE SameTest(u)
  <2>1. /\ pc[u] = "same" /\ UNCHANGED <<obj, drv, ctx>>
        /\ \E l \in {"idle", "sameOff"} : Goto(u, l)
    BY <1>6 DEF SameTest, Return
  <2> QED BY <1>0, <2>1, Aside, Untouched
<1>7. ASSUME NEW off \in OffResults, ResizeBegin(u, off) PROVE Stops(u)
  <2>1. /\ pc[u] = "resize" /\ ctx' = ctx /\ Watch(u)
        /\ obj' = Disable(off) /\ drv' = DriverOff(off)
        /\ (off /\ Goto(u, "resizeSet")) \/ Goto(u, "idle")
    BY <1>7 DEF ResizeBegin, Return
  <2> QED BY <1>0, <2>1, Stopping DEF HoldingPCs
<1>8. ASSUME NEW off \in OffResults, CropBegin(u, off) PROVE Stops(u)
  <2>1. pc[u] = "crop" /\ ctx' = ctx /\ Watch(u)
    BY <1>8 DEF CropBegin
  <2>2. CASE /\ obj' = [Disable(off) EXCEPT !.dataReady = TRUE] /\ drv' = DriverOff(off)
             /\ Goto(u, "cropSet")
    <3>1. /\ obj'.streamEn = Disable(off).streamEn
          /\ obj'.qd_buf_count = Disable(off).qd_buf_count
          /\ obj'.num_buffers = Disable(off).num_buffers
      <4>1. Disable(off) \in Shapes
        BY Disabled
      <4> QED BY <2>2, <4>1 DEF Shapes
    <3> QED BY <1>0, <2>1, <2>2, <3>1, Stopping DEF HoldingPCs
  <2>3. CASE obj' = [obj EXCEPT !.dataReady = TRUE] /\ drv' = drv /\ Goto(u, "idle")
    <3>1. StreamKept /\ obj'.num_buffers = obj.num_buffers
      BY <1>0, <2>3 DEF Shapes, StreamKept
    <3> QED BY <1>0, <2>1, <2>3, <3>1, NotStopping DEF HoldingPCs
  <2> QED BY <1>8, <2>2, <2>3 DEF CropBegin, Return
<1>9. CASE CropSet(u)
  <2>1. pc[u] = "cropSet" /\ Goto(u, "idle") /\ UNCHANGED <<obj, ctx>>
    BY <1>9 DEF CropSet, Return
  <2>2. drv'.on = drv.on /\ drv'.queued = drv.queued
    BY <1>0, <1>9 DEF CropSet, Drivers
  <2> QED BY <1>0, <2>1, <2>2, Aside DEF StreamKept
<1>10. CASE DequeueRefused(u)
  <2>1. pc[u] = "dq" /\ Goto(u, "idle") /\ UNCHANGED <<obj, drv, ctx>>
    BY <1>10 DEF DequeueRefused, Return
  <2> QED BY <1>0, <2>1, Aside, Untouched
<1>11. CASE DequeuePoll(u)
  <2>1. pc[u] = "dq" /\ Goto(u, "dqbuf") /\ UNCHANGED <<obj, drv, ctx>> /\ Ready
    BY <1>11 DEF DequeuePoll
  <2>2. obj.qd_buf_count >= 0
    <3>1. obj.qd_buf_count >= obj.optimalQBufCnt
      BY <1>11 DEF DequeuePoll
    <3>2. obj.qd_buf_count \in Int /\ obj.optimalQBufCnt \in Nat
      BY <1>0 DEF Shapes
    <3> QED BY <3>1, <3>2
  <2>3. Moved(u) /\ pc'[u] = "dqbuf"
    BY <1>0, <2>1, Going
  <2> QED BY <2>1, <2>2, <2>3, Untouched DEF LeftAlone
<1>12. ASSUME NEW off \in OffResults, DequeueFails(u, off) PROVE Stops(u)
  <2>1. /\ pc[u] \in {"dq", "dqbuf"} /\ ctx' = ctx /\ Watch(u) /\ Goto(u, "idle")
        /\ obj' = Disable(off) /\ drv' = DriverOff(off)
    BY <1>12 DEF DequeueFails, Return
  <2> QED BY <1>0, <2>1, Stopping DEF HoldingPCs
<1>13. CASE QueueFails(u)
  <2>1. pc[u] = "q" /\ Goto(u, "idle") /\ UNCHANGED <<obj, drv, ctx>>
    BY <1>13 DEF QueueFails, Return
  <2> QED BY <1>0, <2>1, Aside, Untouched
<1>14. ASSUME NEW off \in OffResults, CloseStop(u, off) PROVE Stops(u)
  <2>1. /\ pc[u] = "close" /\ ctx' = ctx /\ Watch(u) /\ Goto(u, "closeShared")
        /\ obj' = Disable(off) /\ drv' = DriverOff(off)
    BY <1>14 DEF CloseStop
  <2> QED BY <1>0, <2>1, Stopping DEF HoldingPCs
<1>15. CASE \/ \E s \in Sizes : ResizeInput(u, s)
            \/ \E c \in Crops : SetCrop(u, c)
            \/ \E b \in Buffers : QueueBuffer(u, b)
  BY <1>3, <1>15 DEF ResizeInput, SetCrop, QueueBuffer
<1>16. CASE \/ DequeueBuffer(u) \/ DataClose(u)
            \/ Acquire(u, "resizeLock", "resize") \/ Acquire(u, "cropLock", "crop")
            \/ Acquire(u, "qLock", "q")
  BY <1>5, <1>16 DEF DequeueBuffer, DataClose
<1>17. CASE OwnCase(u)
  BY <1>17
<1> QED BY <1>1, <1>2, <1>4, <1>6, <1>7, <1>8, <1>9, <1>10, <1>11, <1>12, <1>13, <1>14,
           <1>15, <1>16, <1>17 DEF DataCall, DataStep, OwnCase


\* What those do, field by field.
Attaches(u) ==
  /\ pc[u] = "attach" /\ pc'[u] = "idle" /\ ctx' = "attached"
  /\ obj'.streamEn = obj.streamEn /\ obj'.qd_buf_count = 0
  /\ obj'.num_buffers = obj.num_buffers
  /\ drv' = drv

Leaves(u) ==
  /\ pc[u] = "closeShared" /\ pc'[u] = "idle" /\ ctx' = "none"
  /\ StreamKept /\ obj'.num_buffers = obj.num_buffers

TurnsOff(u) ==
  /\ Watch(u) /\ pc[u] = "sameOff" /\ pc'[u] = "sameEn" /\ ctx' = ctx
  /\ obj' = obj /\ drv'.on = FALSE /\ drv'.queued = {}

ClearsFlag(u) ==
  /\ Watch(u) /\ pc[u] = "sameEn" /\ pc'[u] = "sameCount" /\ ctx' = ctx
  /\ obj'.streamEn = FALSE /\ obj'.qd_buf_count = obj.qd_buf_count
  /\ obj'.num_buffers = obj.num_buffers /\ obj'.dataReady = obj.dataReady
  /\ drv' = drv

ClearsCount(u) ==
  /\ Watch(u) /\ pc[u] = "sameCount" /\ pc'[u] = "idle" /\ ctx' = ctx
  /\ obj'.streamEn = obj.streamEn /\ obj'.qd_buf_count = 0
  /\ obj'.num_buffers = obj.num_buffers /\ obj'.dataReady = obj.dataReady
  /\ drv' = drv

Allocates(u) ==
  /\ Watch(u) /\ pc[u] = "resizeSet" /\ pc'[u] = "idle" /\ ctx' = ctx
  /\ obj'.streamEn = obj.streamEn /\ obj'.qd_buf_count = obj.qd_buf_count
  /\ drv'.on = drv.on /\ drv'.queued \in {drv.queued, {}}

TakesBack(u) ==
  /\ Watch(u) /\ pc[u] = "dqbuf" /\ pc'[u] = "idle" /\ ctx' = ctx
  /\ obj'.streamEn = obj.streamEn /\ obj'.qd_buf_count = obj.qd_buf_count - 1
  /\ obj'.num_buffers = obj.num_buffers
  /\ drv'.on = drv.on /\ Ready
  /\ \E b \in Buffers \cap drv.queued : drv'.queued = drv.queued \ {b}

Room == IF obj.qd_buf_count < obj.num_buffers THEN 1 ELSE 0

Gives(u) ==
  /\ Watch(u) /\ pc[u] = "q" /\ ctx' = ctx
  /\ arg[u] \in Buffers /\ arg[u] < obj.num_buffers /\ arg[u] \notin drv.queued
  /\ obj'.streamEn = obj.streamEn /\ obj'.qd_buf_count = obj.qd_buf_count + Room
  /\ obj'.num_buffers = obj.num_buffers
  /\ drv'.on = drv.on /\ drv'.queued = drv.queued \cup {arg[u]}
  /\ \/ obj.streamEn /\ pc'[u] = "idle"
     \/ ~obj.streamEn /\ pc'[u] = "qOn" /\ obj'.dataReady

Starts(u) ==
  /\ Watch(u) /\ pc[u] = "qOn" /\ pc'[u] = "idle" /\ ctx' = ctx
  /\ obj'.qd_buf_count = obj.qd_buf_count /\ obj'.num_buffers = obj.num_buffers
  /\ drv'.queued = drv.queued
  /\ \/ obj'.streamEn = TRUE /\ drv'.on = TRUE
     \/ /\ ~obj.dataReady \/ "on" \in Faults
        /\ obj'.streamEn = FALSE \/ obj'.streamEn = obj.streamEn
        /\ drv'.on = drv.on

OwnKind(u) ==
  \/ Attaches(u) \/ Leaves(u)
  \/ TurnsOff(u) \/ ClearsFlag(u) \/ ClearsCount(u)
  \/ Allocates(u) \/ TakesBack(u) \/ Gives(u) \/ Starts(u)

LEMMA OwnKinds ==
  ASSUME Typed, NEW u \in Users, OwnCase(u)
  PROVE  LeftAlone(u) \/ (Moved(u) /\ OwnKind(u))
<1>0. u \in Threads /\ obj \in Shapes /\ drv \in Drivers
  BY DEF Typed, Shape, Threads
<1>a. ASSUME NEW l, Goto(u, l) PROVE Moved(u) /\ pc'[u] = l
  BY <1>0, <1>a, Going
<1>1. CASE InitializeShared(u)
  <2>1. /\ pc[u] = "attach" /\ Goto(u, "idle") /\ ctx' = "attached" /\ drv' = drv
        /\ obj' = [obj EXCEPT !.refCnt = obj.refCnt + 1, !.dataReady = FALSE,
                              !.qd_buf_count = 0, !.optimalQBufCnt = Default,
                              !.attributes_changed = FALSE,
                              !.mappedbufcount = obj.num_buffers]
    BY <1>1 DEF InitializeShared, Return
  <2>2. /\ obj'.streamEn = obj.streamEn /\ obj'.qd_buf_count = 0
        /\ obj'.num_buffers = obj.num_buffers
    BY <1>0, <2>1 DEF Shapes
  <2> QED BY <1>a, <2>1, <2>2 DEF OwnKind, Attaches
<1>2. CASE CloseShared(u)
  <2> DEFINE o == [obj EXCEPT !.dataReady = FALSE]
  <2>1. /\ pc[u] = "closeShared" /\ Goto(u, "idle") /\ ctx' = "none" /\ drv' = drv
        /\ obj' = LastSide(o)
    BY <1>2 DEF CloseShared, Return
  <2>2. o \in Shapes /\ o.streamEn = obj.streamEn /\ o.qd_buf_count = obj.qd_buf_count
        /\ o.num_buffers = obj.num_buffers
    BY <1>0, FlagTyped DEF Shapes
  <2> HIDE DEF o
  <2>3. /\ obj'.streamEn = o.streamEn /\ obj'.qd_buf_count = o.qd_buf_count
        /\ obj'.num_buffers = o.num_buffers
    BY <2>1, <2>2 DEF LastSide, Shapes
  <2> QED BY <1>a, <2>1, <2>2, <2>3 DEF OwnKind, Leaves, StreamKept
<1>3. CASE SameOff(u)
  <2>1. pc[u] = "sameOff" /\ UNCHANGED <<obj, ctx>> /\ Watch(u)
    BY <1>3 DEF SameOff
  <2>2. CASE drv' = StreamedOff(drv) /\ Goto(u, "sameEn")
    <3>1. drv'.on = FALSE /\ drv'.queued = {}
      BY <1>0, <2>2 DEF StreamedOff, Drivers
    <3> QED BY <1>a, <2>1, <2>2, <3>1 DEF OwnKind, TurnsOff
  <2>3. CASE drv' = drv /\ Goto(u, "idle")
    BY <1>0, <2>1, <2>3, Aside, Untouched
  <2> QED BY <1>3, <2>2, <2>3 DEF SameOff, Return
<1>4. CASE SameEn(u)
  <2>1. /\ pc[u] = "sameEn" /\ Goto(u, "sameCount") /\ UNCHANGED <<drv, ctx>> /\ Watch(u)
        /\ obj' = [obj EXCEPT !.streamEn = FALSE]
    BY <1>4 DEF SameEn
  <2>2. /\ obj'.streamEn = FALSE /\ obj'.qd_buf_count = obj.qd_buf_count
        /\ obj'.num_buffers = obj.num_buffers /\ obj'.dataReady = obj.dataReady
    BY <1>0, <2>1 DEF Shapes
  <2> QED BY <1>a, <2>1, <2>2 DEF OwnKind, ClearsFlag
<1>5. CASE SameCount(u)
  <2>1. /\ pc[u] = "sameCount" /\ Goto(u, "idle") /\ UNCHANGED <<drv, ctx>> /\ Watch(u)
        /\ obj' = [obj EXCEPT !.qd_buf_count = 0]
    BY <1>5 DEF SameCount, Return
  <2>2. /\ obj'.streamEn = obj.streamEn /\ obj'.qd_buf_count = 0
        /\ obj'.num_buffers = obj.num_buffers /\ obj'.dataReady = obj.dataReady
    BY <1>0, <2>1 DEF Shapes
  <2> QED BY <1>a, <2>1, <2>2 DEF OwnKind, ClearsCount
<1>6. ASSUME NEW n \in 1..Requested, ResizeSet(u, n) PROVE Moved(u) /\ OwnKind(u)
  <2>1. pc[u] = "resizeSet" /\ Goto(u, "idle") /\ ctx' = ctx /\ Watch(u)
    BY <1>6 DEF ResizeSet, Return
  <2>2. \/ obj' = [obj EXCEPT !.size = arg[u], !.num_buffers = n, !.mappedbufcount = n,
                      !.dataReady = FALSE, !.controlReady = TRUE,
                      !.attributes_changed = FALSE]
        \/ obj' = obj \/ obj' = [obj EXCEPT !.size = arg[u]]
    BY <1>6 DEF ResizeSet
  <2>3. obj'.streamEn = obj.streamEn /\ obj'.qd_buf_count = obj.qd_buf_count
    BY <1>0, <2>2 DEF Shapes
  <2>4. \/ drv' = [drv EXCEPT !.attr = saved[u], !.queued = {}]
        \/ drv' = drv \/ drv' = [drv EXCEPT !.attr = saved[u]]
    BY <1>6 DEF ResizeSet
  <2>5. drv'.on = drv.on /\ drv'.queued \in {drv.queued, {}}
    BY <1>0, <2>4 DEF Drivers
  <2> QED BY <1>a, <2>1, <2>3, <2>5 DEF OwnKind, Allocates
<1>7. ASSUME NEW b \in Buffers, Dequeued(u, b) PROVE Moved(u) /\ OwnKind(u)
  <2>1. /\ pc[u] = "dqbuf" /\ Goto(u, "idle") /\ ctx' = ctx /\ Watch(u) /\ Ready
        /\ b \in drv.queued
        /\ obj' = [obj EXCEPT !.qd_buf_count = obj.qd_buf_count - 1]
        /\ drv' = [drv EXCEPT !.queued = drv.queued \ {b}]
    BY <1>7 DEF Dequeued, Return
  <2>2. /\ obj'.streamEn = obj.streamEn /\ obj'.qd_buf_count = obj.qd_buf_count - 1
        /\ obj'.num_buffers = obj.num_buffers
    BY <1>0, <2>1 DEF Shapes
  <2>3. drv'.on = drv.on /\ drv'.queued = drv.queued \ {b}
    BY <1>0, <2>1 DEF Drivers
  <2> QED BY <1>a, <2>1, <2>2, <2>3 DEF OwnKind, TakesBack
<1>8. CASE Queued(u)
  <2> DEFINE k == Room
             o == [obj EXCEPT !.qd_buf_count = obj.qd_buf_count + k]
  <2>1. /\ pc[u] = "q" /\ arg[u] \notin drv.queued /\ arg[u] < obj.num_buffers
        /\ ctx' = ctx /\ Watch(u)
        /\ drv' = [drv EXCEPT !.queued = drv.queued \cup {arg[u]}]
    BY <1>8 DEF Queued
  <2>2. arg[u] \in Buffers
    BY <2>1 DEF Typed, Arguments
  <2>3. drv'.on = drv.on /\ drv'.queued = drv.queued \cup {arg[u]}
    BY <1>0, <2>1 DEF Drivers
  <2>4. \/ obj' = o /\ obj.streamEn /\ Goto(u, "idle")
        \/ obj' = [o EXCEPT !.dataReady = TRUE] /\ ~obj.streamEn /\ Goto(u, "qOn")
    BY <1>8 DEF Queued, Return, Room
  <2>5. /\ o.qd_buf_count = obj.qd_buf_count + k /\ o.num_buffers = obj.num_buffers
        /\ o.streamEn = obj.streamEn
        /\ {"qd_buf_count", "num_buffers", "dataReady", "streamEn"} \subseteq DOMAIN o
    BY <1>0 DEF Shapes
  <2> HIDE DEF o, k
  <2>6. /\ obj'.qd_buf_count = obj.qd_buf_count + k /\ obj'.num_buffers = obj.num_buffers
        /\ obj'.streamEn = obj.streamEn
        /\ \/ obj.streamEn /\ Goto(u, "idle")
           \/ obj'.dataReady /\ ~obj.streamEn /\ Goto(u, "qOn")
    BY <2>4, <2>5
  <2>7. Moved(u) /\ \/ obj.streamEn /\ pc'[u] = "idle"
                    \/ obj'.dataReady /\ ~obj.streamEn /\ pc'[u] = "qOn"
    BY <1>a, <2>6
  <2>8. obj'.qd_buf_count = obj.qd_buf_count + Room
    BY <2>6 DEF k
  <2> QED BY <2>1, <2>2, <2>3, <2>6, <2>7, <2>8 DEF OwnKind, Gives
<1>9. CASE EnableStreaming(u)
  <2>1. pc[u] = "qOn" /\ Goto(u, "idle") /\ ctx' = ctx /\ Watch(u)
    BY <1>9 DEF EnableStreaming, Return
  <2>2. CASE obj' = [obj EXCEPT !.streamEn = TRUE] /\ drv' = [drv EXCEPT !.on = TRUE]
    <3>1. /\ obj'.streamEn = TRUE /\ obj'.qd_buf_count = obj.qd_buf_count
          /\ obj'.num_buffers = obj.num_buffers
          /\ drv'.on = TRUE /\ drv'.queued = drv.queued
      BY <1>0, <2>2 DEF Shapes, Drivers
    <3> QED BY <1>a, <2>1, <3>1 DEF OwnKind, Starts
  <2>3. CASE /\ ~obj.dataReady \/ "on" \in Faults
             /\ obj' = [obj EXCEPT !.streamEn = FALSE] \/ obj' = obj
             /\ drv' = drv
    <3>1. /\ obj'.streamEn = FALSE \/ obj'.streamEn = obj.streamEn
          /\ obj'.qd_buf_count = obj.qd_buf_count
          /\ obj'.num_buffers = obj.num_buffers
      BY <1>0, <2>3 DEF Shapes
    <3> QED BY <1>a, <2>1, <2>3, <3>1 DEF OwnKind, Starts
  <2> QED BY <1>9, <2>2, <2>3 DEF EnableStreaming, MayFail
<1> QED BY <1>1, <1>2, <1>3, <1>4, <1>5, <1>6, <1>7, <1>8, <1>9 DEF OwnCase

Kind(t) == LeftAlone(t) \/ Stops(t) \/ (t \in Users /\ Moved(t) /\ OwnKind(t))

\* A step on the stream looks at what it overlaps; no other step does.
LEMMA ControlNotes ==
  ASSUME ControlCall \/ ControlStep
  PROVE  (\E s \in Sizes : CreateOverlay(s)) \/ overtaken' = overtaken \/ Watch(Ctl)
<1>1. CASE (\E p \in Positions : SetPosition(p)) \/ (\E r \in Rotations : SetParameter(r))
  BY <1>1 DEF SetPosition, SetParameter
<1>2. CASE \/ Commit \/ DestroyOverlay \/ PositionSet \/ CommitNothing \/ CommitSet
           \/ CommitEnd \/ DestroyShared \/ Acquire(Ctl, "posLock", "pos")
  BY <1>2 DEF Commit, DestroyOverlay, PositionSet, CommitNothing, CommitSet, CommitEnd,
              DestroyShared, Acquire
<1>3. ASSUME NEW off \in OffResults, CommitBegin(off) \/ DestroyStop(off) PROVE Watch(Ctl)
  BY <1>3 DEF CommitBegin, DestroyStop
<1> QED BY <1>1, <1>2, <1>3 DEF ControlCall, ControlStep

LEMMA DataNotes ==
  ASSUME NEW u \in Users, DataCall(u) \/ DataStep(u)
  PROVE  overtaken' = overtaken \/ Watch(u)
<1>1. CASE \/ Initialize(u) \/ SetCacheable(u) \/ DequeueBuffer(u) \/ DataClose(u)
           \/ InitializeShared(u) \/ CloseShared(u) \/ CropSet(u) \/ DequeueRefused(u)
           \/ DequeuePoll(u) \/ QueueFails(u) \/ SameTest(u)
  BY <1>1 DEF Initialize, SetCacheable, DequeueBuffer, DataClose, Acquire, InitializeShared,
              CloseShared, CropSet, DequeueRefused, DequeuePoll, QueueFails, SameTest
<1>2. CASE \/ Acquire(u, "resizeLock", "resize") \/ Acquire(u, "cropLock", "crop")
           \/ Acquire(u, "qLock", "q")
  BY <1>2 DEF Acquire
<1>3. CASE \/ \E s \in Sizes : ResizeInput(u, s)
           \/ \E c \in Crops : SetCrop(u, c)
           \/ \E b \in Buffers : QueueBuffer(u, b)
           \/ \E n \in Optimal : SetOptimal(u, n)
  BY <1>3 DEF ResizeInput, SetCrop, QueueBuffer, Start, SetOptimal
<1>4. CASE \/ SameOff(u) \/ SameEn(u) \/ SameCount(u) \/ Queued(u) \/ EnableStreaming(u)
           \/ \E s \in Sizes : ResizeSame(u, s)
           \/ \E n \in 1..Requested : ResizeSet(u, n)
           \/ \E b \in Buffers : Dequeued(u, b)
           \/ \E off \in OffResults : \/ ResizeBegin(u, off) \/ CropBegin(u, off)
                                      \/ DequeueFails(u, off) \/ CloseStop(u, off)
  BY <1>4 DEF SameOff, SameEn, SameCount, Queued, EnableStreaming, ResizeSame, ResizeSet,
              Dequeued, ResizeBegin, CropBegin, DequeueFails, CloseStop
<1> QED BY <1>1, <1>2, <1>3, <1>4 DEF DataCall, DataStep

\* Every step is the creation of an overlay or of one of these kinds.
LEMMA NextKinds ==
  ASSUME Typed, overtaken \in BOOLEAN, Next
  PROVE  \/ \E s \in Sizes : CreateOverlay(s)
         \/ \E t \in Threads : Kind(t) /\ overtaken' \in BOOLEAN /\ (overtaken => overtaken')
<1>1. ASSUME NEW t \in Threads, overtaken' = overtaken \/ Watch(t)
      PROVE  overtaken' \in BOOLEAN /\ (overtaken => overtaken')
  BY <1>1 DEF Watch
<1>2. CASE ControlCall \/ ControlStep
  <2>1. (\E s \in Sizes : CreateOverlay(s)) \/ LeftAlone(Ctl) \/ Stops(Ctl)
    BY <1>2, ControlKinds
  <2>2. Ctl \in Threads
    BY DEF Threads
  <2>3. CASE \E s \in Sizes : CreateOverlay(s)
    BY <2>3
  <2>4. CASE LeftAlone(Ctl) \/ Stops(Ctl)
    <3>1. CASE overtaken' = overtaken \/ Watch(Ctl)
      BY <1>1, <2>2, <2>4, <3>1 DEF Kind
    <3> QED BY <1>2, <3>1, ControlNotes
  <2> QED BY <2>1, <2>3, <2>4
<1>3. ASSUME NEW u \in Users, DataCall(u) \/ DataStep(u)
      PROVE  \E t \in Threads : Kind(t) /\ overtaken' \in BOOLEAN /\ (overtaken => overtaken')
  <2>1. LeftAlone(u) \/ Stops(u) \/ OwnCase(u)
    BY <1>3, DataKinds
  <2>2. LeftAlone(u) \/ Stops(u) \/ (Moved(u) /\ OwnKind(u))
    BY <2>1, OwnKinds
  <2>3. Kind(u)
    BY <2>2 DEF Kind
  <2>4. overtaken' = overtaken \/ Watch(u)
    BY <1>3, DataNotes
  <2> QED BY <1>1, <2>3, <2>4 DEF Threads
<1> QED BY <1>2, <1>3 DEF Next

\* A step that has overtaken nothing has the stream for itself.
LEMMA Undisturbed ==
  ASSUME NEW t \in Threads, Watch(t), ~overtaken'
  PROVE  /\ lock \in {None, t}
         /\ \A u \in Users \ {t} : pc[u] \notin StoppingPCs
BY DEF Watch

\* The mutex keeps all others from starting the stream, or allocating.
LEMMA HoldsAlone ==
  ASSUME Owner, NEW t \in Threads, lock \in {None, t}, NEW u \in Users, u # t
  PROVE  pc[u] \notin HoldingPCs
BY OverlayAssumption DEF Owner, Threads

-----------------------------------------------------------------------------
(* What holds whether or not a same-size resize has been overtaken: the    *)
(* count stays in range, and a thread that has polled finds a buffer or a  *)
(* stopped stream.                                                         *)

Polled ==
  \A u \in Users : pc[u] = "dqbuf" => (Ready \/ ~drv.on) /\ obj.qd_buf_count >= 0

Bounded == obj.qd_buf_count \in -1 .. Requested /\ Polled

LEMMA CreateBounded ==
  ASSUME Typed, Clients, NEW s \in Sizes, CreateOverlay(s)
  PROVE  Bounded'
<1>1. obj'.qd_buf_count = 0
  BY DEF CreateOverlay, NewObject, NoObject
<1>2. pc' = pc /\ ctx = "none"
  BY DEF CreateOverlay
<1>3. \A u \in Users : pc'[u] # "dqbuf"
  BY <1>2 DEF Clients
<1>4. 0 \in -1 .. Requested
  BY OverlayAssumption
<1> QED BY <1>1, <1>3, <1>4 DEF Bounded, Polled

LEMMA KindBounded ==
  ASSUME Typed, Owner, Clients, Bounded, NEW t \in Threads, Kind(t)
  PROVE  Bounded'
<1>0. /\ 0 \in -1 .. Requested /\ Requested \in Int
      /\ obj.qd_buf_count \in Int /\ obj.num_buffers \in 1 .. Requested
  BY OverlayAssumption DEF Typed, Shape, Shapes, Sizings
<1>1. CASE LeftAlone(t)
  BY <1>1 DEF LeftAlone, Moved, StreamKept, Bounded, Polled, Ready, Threads
<1>2. CASE Stops(t)
  <2>1. CASE StreamKept
    BY <1>2, <2>1 DEF Stops, Moved, StreamKept, Bounded, Polled, Ready, Threads
  <2>2. CASE StreamStopped
    BY <1>0, <2>2 DEF StreamStopped, Bounded, Polled
  <2> QED BY <1>2, <2>1, <2>2 DEF Stops
<1>3. CASE t \in Users /\ Moved(t) /\ OwnKind(t)
  <2>1. \A v \in Users \ {t} : pc'[v] = pc[v]
    BY <1>3 DEF Moved, Threads
  <2>2. CASE Attaches(t)
    <3>1. \A v \in Users : pc'[v] # "dqbuf"
      BY <1>3, <2>1, <2>2 DEF Attaches, Clients
    <3> QED BY <1>0, <2>2, <3>1 DEF Attaches, Bounded, Polled
  <2>3. CASE Leaves(t)
    BY <2>1, <2>3 DEF Leaves, StreamKept, Bounded, Polled, Ready
  <2>4. CASE TurnsOff(t)
    BY <2>1, <2>4 DEF TurnsOff, Bounded, Polled
  <2>5. CASE ClearsFlag(t)
    BY <2>1, <2>5 DEF ClearsFlag, Bounded, Polled, Ready
  <2>6. CASE ClearsCount(t)
    BY <1>0, <2>1, <2>6 DEF ClearsCount, Bounded, Polled, Ready
  <2>7. CASE Allocates(t) \/ TakesBack(t) \/ Gives(t) \/ Starts(t)
    <3>1. pc[t] \in HoldingPCs /\ pc'[t] # "dqbuf"
      BY <2>7 DEF Allocates, TakesBack, Gives, Starts, HoldingPCs
    <3>2. \A v \in Users : pc'[v] # "dqbuf"
      BY <1>3, <2>1, <3>1 DEF Owner, Threads, HoldingPCs
    <3>3. obj'.qd_buf_count \in -1 .. Requested
      <4>1. CASE Allocates(t) \/ Starts(t)
        BY <4>1 DEF Allocates, Starts, Bounded
      <4>2. CASE TakesBack(t)
        <5>1. obj.qd_buf_count >= 0 /\ obj'.qd_buf_count = obj.qd_buf_count - 1
          BY <1>3, <4>2 DEF TakesBack, Bounded, Polled
        <5> QED BY <1>0, <5>1 DEF Bounded
      <4>3. CASE Gives(t)
        <5>1. obj'.qd_buf_count = obj.qd_buf_count + Room
          BY <4>3 DEF Gives
        <5> QED BY <1>0, <5>1 DEF Bounded, Room
      <4> QED BY <2>7, <4>1, <4>2, <4>3
    <3> QED BY <3>2, <3>3 DEF Bounded, Polled
  <2> QED BY <1>3, <2>2, <2>3, <2>4, <2>5, <2>6, <2>7 DEF OwnKind
<1> QED BY <1>1, <1>2, <1>3 DEF Kind

-----------------------------------------------------------------------------
(* Until a same-size resize is overtaken the stream of the object is the   *)
(* device's, but for the moment such a resize is at; a thread about to     *)
(* allocate the buffers, or to start the stream, has seen it stopped.      *)

Streams ==
  /\ (\A u \in Users : pc[u] # "sameEn") => obj.streamEn = drv.on
  /\ \A u \in Users : pc[u] \in {"qOn", "resizeSet", "sameEn", "sameCount"} => ~drv.on

LEMMA CreateStreams ==
  ASSUME Typed, Clients, NEW s \in Sizes, CreateOverlay(s)
  PROVE  Streams'
BY DEF CreateOverlay, NewObject, NoObject, Streams

LEMMA KindStreams ==
  ASSUME Typed, Owner, Clients, Streams, ~overtaken', NEW t \in Threads, Kind(t)
  PROVE  Streams'
<1>0. drv.on \in BOOLEAN
  BY DEF Typed, Shape, Drivers
<1>1. CASE LeftAlone(t)
  BY <1>1 DEF LeftAlone, Moved, StreamKept, Streams, Threads
<1>2. CASE Stops(t)
  <2>1. Watch(t) /\ Moved(t) /\ pc[t] \notin StoppingPCs /\ pc'[t] \notin StoppingPCs
    BY <1>2 DEF Stops, HoldingPCs, StoppingPCs
  <2>2. \A u \in Users : pc[u] \notin StoppingPCs /\ pc'[u] \notin StoppingPCs
    BY <2>1, Undisturbed DEF Moved, Threads
  <2>3. obj.streamEn = drv.on
    BY <2>2 DEF Streams, StoppingPCs
  <2>4. obj'.streamEn = drv'.on /\ (drv'.on => drv.on)
    BY <1>2, <2>3 DEF Stops, StreamKept, StreamStopped
  <2>5. \A u \in Users : pc'[u] \in {"qOn", "resizeSet"} => ~drv'.on
    BY <1>2, <2>1, <2>4 DEF Stops, Streams, Moved, Threads
  <2> QED BY <2>2, <2>4, <2>5 DEF Streams, StoppingPCs
<1>3. CASE t \in Users /\ Moved(t) /\ OwnKind(t)
  <2>1. \A v \in Users \ {t} : pc'[v] = pc[v]
    BY <1>3 DEF Moved, Threads
  <2>2. CASE Attaches(t)
    BY <2>1, <2>2 DEF Attaches, Streams
  <2>3. CASE Leaves(t)
    BY <2>1, <2>3 DEF Leaves, StreamKept, Streams
  <2>4. CASE TurnsOff(t)
    BY <1>3, <2>1, <2>4 DEF TurnsOff, Streams
  <2>5. CASE ClearsFlag(t)
    <3>1. drv.on = FALSE
      BY <1>0, <1>3, <2>5 DEF ClearsFlag, Streams
    <3> QED BY <1>3, <2>1, <2>5, <3>1 DEF ClearsFlag, Streams
  <2>6. CASE ClearsCount(t)
    <3>1. \A v \in Users : pc[v] # "sameEn"
      BY <2>6, Undisturbed DEF ClearsCount, StoppingPCs
    <3> QED BY <2>1, <2>6, <3>1 DEF ClearsCount, Streams
  <2>7. CASE Allocates(t) \/ TakesBack(t) \/ Gives(t) \/ Starts(t)
    <3>1. Watch(t) /\ pc[t] \notin StoppingPCs /\ pc'[t] \in {"idle", "qOn"}
      BY <2>7 DEF Allocates, TakesBack, Gives, Starts, StoppingPCs
    <3>2. \A v \in Users : pc[v] # "sameEn" /\ pc[v] # "sameCount"
      BY <3>1, Undisturbed DEF StoppingPCs
    <3>3. obj.streamEn = drv.on
      BY <3>2 DEF Streams
    <3>4. \A v \in Users \ {t} : pc'[v] \notin {"qOn", "resizeSet", "sameEn", "sameCount"}
      BY <2>1, <3>1, <3>2, Undisturbed, HoldsAlone DEF HoldingPCs
    <3>5. CASE Allocates(t) \/ TakesBack(t)
      BY <3>3, <3>4, <3>5 DEF Allocates, TakesBack, Streams
    <3>6. CASE Gives(t)
      BY <3>3, <3>4, <3>6 DEF Gives, Streams
    <3>7. CASE Starts(t)
      <4>1. drv.on = FALSE /\ pc'[t] = "idle"
        BY <1>0, <1>3, <3>7 DEF Starts, Streams
      <4> QED BY <3>3, <3>4, <3>7, <4>1 DEF Starts, Streams
    <3> QED BY <2>7, <3>5, <3>6, <3>7
  <2> QED BY <1>3, <2>2, <2>3, <2>4, <2>5, <2>6, <2>7 DEF OwnKind
<1> QED BY <1>1, <1>2, <1>3 DEF Kind

-----------------------------------------------------------------------------
(* The invariant the first theorems rest on.                               *)

IInv ==
  /\ Typed /\ Owner /\ Counted /\ Clients /\ Bounded
  /\ overtaken \in BOOLEAN
  /\ overtaken \/ Streams

LEMMA InitIInv == Init => IInv
<1> SUFFICES ASSUME Init PROVE IInv
  OBVIOUS
<1>1. Typed
  BY InitTyped
<1>2. Owner
  BY OverlayAssumption DEF Init, Owner, HoldingPCs
<1>3. PICK s \in Sizes : obj = NoObject(s)
  BY DEF Init
<1>4. Counted /\ Streams
  BY <1>3 DEF Init, NoObject, Counted, Streams, Threads
<1>5. Clients /\ Bounded
  BY <1>3, OverlayAssumption DEF Init, NoObject, Clients, Bounded, Polled, Threads
<1>6. overtaken = FALSE
  BY DEF Init
<1> QED BY <1>1, <1>2, <1>4, <1>5, <1>6 DEF IInv

LEMMA NextIInv == ASSUME Races = {}, IInv, Next PROVE IInv'
<1>1. Typed /\ Owner /\ Counted /\ Clients /\ Bounded /\ overtaken \in BOOLEAN
  BY DEF IInv
<1>2. (Typed /\ Owner /\ Counted /\ Clients)'
  <2>1. CASE ControlCall \/ ControlStep
    BY <1>1, <2>1, ControlShape, ControlArguments, ControlOwner, ControlCounted,
       ControlClients DEF Typed
  <2>2. ASSUME NEW u \in Users, DataCall(u) \/ DataStep(u)
        PROVE  (Typed /\ Owner /\ Counted /\ Clients)'
    BY <1>1, <2>2, DataShape, DataArguments, DataOwner, DataCounted, DataClients DEF Typed
  <2> QED BY <2>1, <2>2 DEF Next
<1>3. CASE \E s \in Sizes : CreateOverlay(s)
  <2>1. Bounded' /\ Streams'
    BY <1>1, <1>3, CreateBounded, CreateStreams
  <2>2. overtaken' = FALSE
    BY <1>3 DEF CreateOverlay
  <2> QED BY <1>2, <2>1, <2>2 DEF IInv
<1>4. ASSUME NEW t \in Threads, Kind(t), overtaken' \in BOOLEAN, overtaken => overtaken'
      PROVE  IInv'
  <2>1. Bounded'
    BY <1>1, <1>4, KindBounded
  <2>2. ASSUME ~overtaken' PROVE Streams'
    BY <1>1, <1>4, <2>2, KindStreams DEF IInv
  <2> QED BY <1>2, <1>4, <2>1, <2>2 DEF IInv
<1> QED BY <1>1, <1>3, <1>4, NextKinds

LEMMA StutterIInv == ASSUME IInv, UNCHANGED vars PROVE IInv'
BY DEF vars, IInv, Typed, Shape, SharedShape, LocalShape, Arguments, Owner, Counted,
       Clients, Bounded, Polled, Streams, Ready

LEMMA Inductive == Races = {} /\ Spec => []IInv
<1>1. ASSUME Races = {}, IInv, [Next]_vars PROVE IInv'
  BY <1>1, NextIInv, StutterIInv
<1>2. CASE Races = {}
  BY <1>1, <1>2, InitIInv, PTL DEF Spec
<1> QED BY <1>2

\* In every reachable state the process-shared mutex lives as long as one of
\* the two sides has the object (destroy_shared_overlayobj), for any users and
\* whatever calls of the device fail.
THEOREM MutexOutlives == Races = {} /\ Spec => []MutexOutlivesUse
<1>1. IInv => MutexOutlivesUse
  BY DEF IInv, Counted, MutexOutlivesUse
<1> QED BY <1>1, Inductive, PTL

\* VIDIOC_DQBUF after poll() does not wait in the kernel (dequeueBuffer), as
\* long as commit() unlocks only once: a same-size resize without the mutex can
\* stop the stream in between, but not take the buffer poll() has seen.
THEOREM DequeueNeverBlocks == Races = {} /\ Spec => []DqNeverBlocks
<1>1. IInv => DqNeverBlocks
  BY DEF IInv, Bounded, Polled, DqNeverBlocks
<1> QED BY <1>1, Inductive, PTL

\* resizeInput() allocates the buffers anew only when the stream is off,
\* whatever has failed before and whoever started it, until a same-size resize
\* is overtaken.
THEOREM ReallocatedQuietly == Races = {} /\ Spec => ReallocateQuiet
<1>1. ASSUME IInv, [Next]_vars
      PROVE  [(\E u \in Users : pc[u] = "resizeSet" /\ pc'[u] = "idle")
                => ~drv.on \/ overtaken]_vars
  BY <1>1 DEF IInv, Streams
<1>2. CASE Races = {}
  BY <1>1, <1>2, Inductive, PTL DEF Spec, ReallocateQuiet
<1> QED BY <1>2

\* The types: two references at most, and a count of queued buffers between -1
\* (a same-size resize has cleared it under a dequeueBuffer()) and the number of
\* buffers, whatever overtakes what.
THEOREM TypeCorrect == Races = {} /\ Spec => []TypeOK
<1>1. ASSUME IInv PROVE TypeOK
  <2>1. obj.refCnt \in 0 .. 2
    BY <1>1 DEF IInv, Counted
  <2>2. obj.qd_buf_count \in -1 .. Requested
    BY <1>1 DEF IInv, Bounded
  <2>3. obj \in Objects
    BY <1>1, <2>1, <2>2 DEF IInv, Typed, Shape, Shapes, Objects, Sizings, Mappings
  <2>4. pc \in [Threads -> WaitingPCs \cup HoldingPCs \cup OtherPCs]
    <3>1. ControlPCs \cup DataPCs \subseteq WaitingPCs \cup HoldingPCs \cup OtherPCs
      BY DEF ControlPCs, DataPCs, ClosingPCs, WaitingPCs, HoldingPCs, OtherPCs
    <3> QED BY <1>1, <3>1 DEF IInv, Typed, Shape, LocalShape
  <2> QED BY <1>1, <2>3, <2>4
           DEF IInv, Typed, Shape, SharedShape, LocalShape, Drivers, TypeOK
<1> QED BY <1>1, Inductive, PTL

-----------------------------------------------------------------------------
(* The count.  VIDIOC_STREAMON must not fail: queueBuffer() ignores its    *)
(* result, and leaves queued buffers that no later stop gives back.        *)

Counting ==
  /\ drv.queued \subseteq 0 .. obj.num_buffers - 1
  /\ (\A u \in Users : pc[u] \notin {"sameEn", "sameCount"})
       => obj.qd_buf_count = Cardinality(drv.queued)
  /\ drv.queued # {} => drv.on \/ \E u \in Users : pc[u] = "qOn"
  /\ \A u \in Users :
       /\ pc[u] = "qOn" => obj.dataReady /\ drv.queued # {}
       /\ pc[u] \in {"sameEn", "sameCount"} => drv.queued = {}
  /\ ctx \in {"offered", "attaching"} => ~drv.on /\ drv.queued = {}

\* A device without buffers, nothing counted, and nobody about to start it.
LEMMA EmptyCounting ==
  ASSUME obj'.qd_buf_count = 0, drv'.queued = {}, ~drv'.on,
         \A u \in Users : pc'[u] # "qOn"
  PROVE  Counting'
BY FS_EmptySet DEF Counting

LEMMA CreateCounting ==
  ASSUME Typed, Clients, NEW s \in Sizes, CreateOverlay(s)
  PROVE  Counting'
<1>1. obj'.qd_buf_count = 0 /\ drv'.queued = {} /\ ~drv'.on
  BY DEF CreateOverlay, NewObject, NoObject
<1>2. \A u \in Users : pc'[u] # "qOn"
  BY DEF CreateOverlay, Clients
<1> QED BY <1>1, <1>2, EmptyCounting

\* A step that leaves device and count alone.
LEMMA KeptCounting ==
  ASSUME Counting, NEW t \in Threads, Moved(t),
         pc[t] \notin {"qOn", "sameEn", "sameCount"},
         pc'[t] \notin {"qOn", "sameEn", "sameCount"},
         StreamKept, obj'.num_buffers = obj.num_buffers,
         \/ obj'.dataReady = obj.dataReady
         \/ \A u \in Users : pc[u] # "qOn",
         ctx' \in {"offered", "attaching"} => ctx \in {"offered", "attaching"}
  PROVE  Counting'
<1>1. \A u \in Users : \A l \in {"qOn", "sameEn", "sameCount"} : pc'[u] = l <=> pc[u] = l
  BY DEF Moved, Threads
<1> QED BY <1>1 DEF Counting, StreamKept

LEMMA KindCounting ==
  ASSUME Typed, Owner, Clients, Streams, Counting, ~overtaken', "on" \notin Faults,
         NEW t \in Threads, Kind(t)
  PROVE  Counting'
<1>0. obj.num_buffers \in 1 .. Requested /\ drv.on \in BOOLEAN /\ obj.dataReady \in BOOLEAN
  BY DEF Typed, Shape, Shapes, Drivers, Sizings
<1>a. ASSUME Watch(t), pc[t] # "qOn" PROVE \A u \in Users : pc[u] # "qOn"
  BY <1>a, Undisturbed, HoldsAlone DEF HoldingPCs
<1>b. ASSUME Watch(t), pc[t] \notin StoppingPCs
      PROVE  \A u \in Users : pc[u] \notin {"sameEn", "sameCount"}
  BY <1>b, Undisturbed DEF StoppingPCs
<1>1. CASE LeftAlone(t)
  <2>1. obj'.dataReady = obj.dataReady \/ \A u \in Users : pc[u] # "qOn"
    BY <1>1, <1>a DEF LeftAlone
  <2> QED BY <1>1, <2>1, KeptCounting DEF LeftAlone
<1>2. CASE Stops(t)
  <2>1. /\ Watch(t) /\ Moved(t)
        /\ pc[t] \notin StoppingPCs \cup {"qOn"} /\ pc'[t] \notin StoppingPCs \cup {"qOn"}
    BY <1>2 DEF Stops, HoldingPCs, StoppingPCs
  <2>2. \A u \in Users : pc[u] # "qOn"
    BY <1>a, <2>1
  <2>3. CASE StreamKept
    BY <1>2, <2>1, <2>2, <2>3, KeptCounting DEF Stops, StoppingPCs
  <2>4. CASE StreamStopped
    <3>1. \A u \in Users : pc'[u] # "qOn"
      BY <2>1, <2>2 DEF Moved, Threads
    <3> QED BY <2>4, <3>1, EmptyCounting DEF StreamStopped
  <2> QED BY <1>2, <2>3, <2>4 DEF Stops
<1>3. CASE t \in Users /\ Moved(t) /\ OwnKind(t)
  <2>0. \A v \in Users \ {t} : pc'[v] = pc[v]
    BY <1>3 DEF Moved, Threads
  <2>1. CASE Attaches(t)
    <3>1. \A v \in Users : pc'[v] # "qOn"
      BY <1>3, <2>0, <2>1 DEF Attaches, Clients
    <3>2. ~drv.on /\ drv.queued = {}
      BY <1>3, <2>1 DEF Attaches, Clients, Counting
    <3> QED BY <2>1, <3>1, <3>2, EmptyCounting DEF Attaches
  <2>2. CASE Leaves(t)
    <3>1. \A v \in Users : pc[v] # "qOn"
      BY <1>3, <2>2 DEF Leaves, Clients, ClosingPCs
    <3> QED BY <1>3, <2>2, <3>1, KeptCounting DEF Leaves
  <2>3. CASE TurnsOff(t)
    <3>1. \A v \in Users : pc'[v] # "qOn" /\ pc[v] \notin {"sameEn", "sameCount"}
      BY <2>0, <2>3, <1>a, Undisturbed DEF TurnsOff, StoppingPCs
    <3>2. ctx' \notin {"offered", "attaching"}
      BY <1>3, <2>3 DEF TurnsOff, Clients
    <3> QED BY <1>3, <2>3, <3>1, <3>2 DEF TurnsOff, Counting
  <2>4. CASE ClearsFlag(t)
    <3>1. \A v \in Users : pc'[v] # "qOn"
      BY <2>0, <2>4, <1>a DEF ClearsFlag
    <3>2. drv.queued = {} /\ ~drv.on /\ ctx' \notin {"offered", "attaching"}
      BY <1>3, <2>4 DEF ClearsFlag, Clients, Counting, Streams
    <3> QED BY <1>3, <2>4, <3>1, <3>2 DEF ClearsFlag, Counting
  <2>5. CASE ClearsCount(t)
    <3>1. \A v \in Users : pc'[v] # "qOn"
      BY <2>0, <2>5, <1>a DEF ClearsCount
    <3>2. drv.queued = {} /\ ~drv.on
      BY <1>3, <2>5 DEF ClearsCount, Counting, Streams
    <3> QED BY <2>5, <3>1, <3>2, EmptyCounting DEF ClearsCount
  <2>6. CASE Allocates(t)
    <3>1. \A v \in Users : pc[v] # "qOn" /\ pc[v] \notin {"sameEn", "sameCount"}
      BY <2>6, <1>a, <1>b DEF Allocates, StoppingPCs
    <3>2. \A v \in Users : pc'[v] # "qOn"
      BY <2>0, <2>6, <3>1 DEF Allocates
    <3>3. ~drv.on
      BY <1>3, <2>6 DEF Allocates, Streams
    <3>4. drv.queued = {} /\ obj.qd_buf_count = 0
      BY <3>1, <3>3, FS_EmptySet DEF Counting
    <3> QED BY <2>6, <3>2, <3>3, <3>4, EmptyCounting DEF Allocates
  <2>7. ASSUME TakesBack(t) \/ Gives(t) \/ Starts(t)
        PROVE  /\ ctx' \notin {"offered", "attaching"}
               /\ \A v \in Users : pc[v] \notin {"sameEn", "sameCount"}
               /\ \A v \in Users : pc'[v] \notin {"sameEn", "sameCount"}
               /\ \A v \in Users \ {t} : pc'[v] # "qOn"
               /\ obj.qd_buf_count = Cardinality(drv.queued)
    <3>1. Watch(t) /\ pc[t] \in HoldingPCs /\ pc[t] \notin StoppingPCs
      BY <2>7 DEF TakesBack, Gives, Starts, HoldingPCs, StoppingPCs
    <3>2. \A v \in Users : pc[v] \notin {"sameEn", "sameCount"}
      BY <1>b, <3>1
    <3>3. pc'[t] \in {"idle", "qOn"} /\ ctx' = ctx /\ pc[t] \notin {"idle", "attach"}
      BY <2>7 DEF TakesBack, Gives, Starts
    <3>4. \A v \in Users \ {t} : pc'[v] # "qOn"
      BY <2>0, <3>1, Undisturbed, HoldsAlone DEF HoldingPCs
    <3>5. ctx \notin {"offered", "attaching"}
      BY <1>3, <3>3 DEF Clients
    <3> QED BY <2>0, <3>2, <3>3, <3>4, <3>5 DEF Counting
  <2>8. CASE TakesBack(t)
    <3>1. PICK b \in drv.queued : drv'.queued = drv.queued \ {b}
      BY <2>8 DEF TakesBack
    <3>2. IsFiniteSet(drv.queued)
      <4>1. IsFiniteSet(0 .. obj.num_buffers - 1)
        BY <1>0, FS_Interval
      <4> QED BY <4>1, FS_Subset DEF Counting
    <3>3. Cardinality(drv'.queued) = Cardinality(drv.queued) - 1
      BY <3>1, <3>2, FS_RemoveElement
    <3>4. obj'.qd_buf_count = Cardinality(drv'.queued)
      BY <2>7, <2>8, <3>3 DEF TakesBack
    <3>5. pc'[t] = "idle" /\ drv'.on /\ obj'.num_buffers = obj.num_buffers
      BY <2>8 DEF TakesBack, Ready
    <3> QED BY <1>3, <2>7, <2>8, <3>1, <3>4, <3>5 DEF Counting
  <2>9. CASE Gives(t)
    <3>1. /\ arg[t] \in 0 .. obj.num_buffers - 1 /\ arg[t] \notin drv.queued
          /\ drv'.queued = drv.queued \cup {arg[t]} /\ drv'.on = drv.on
          /\ obj'.num_buffers = obj.num_buffers
          /\ obj'.qd_buf_count = obj.qd_buf_count + Room
      BY <1>0, <2>9 DEF Gives, Buffers
    <3> DEFINE top == obj.num_buffers - 1
    <3>2. 0 \in Int /\ top \in Int /\ 0 <= top /\ top + 1 = obj.num_buffers
      BY <1>0
    <3>3. IsFiniteSet(0 .. top) /\ Cardinality(0 .. top) = top + 1
      BY <3>2, FS_Interval
    <3>4. IsFiniteSet(drv.queued) /\ drv'.queued \subseteq 0 .. top
      <4>1. drv.queued \subseteq 0 .. top
        BY DEF Counting
      <4>2. IsFiniteSet(drv.queued)
        BY <3>3, <4>1, FS_Subset
      <4> QED BY <3>1, <4>1, <4>2
    <3>5. /\ Cardinality(drv.queued) \in Nat
          /\ Cardinality(drv'.queued) = Cardinality(drv.queued) + 1
          /\ Cardinality(drv'.queued) <= top + 1
      <4>1. Cardinality(drv.queued) \in Nat
        BY <3>4, FS_CardinalityType
      <4>2. Cardinality(drv'.queued) = Cardinality(drv.queued) + 1
        BY <3>1, <3>4, FS_AddElement
      <4>3. Cardinality(drv'.queued) <= Cardinality(0 .. top)
        BY <3>3, <3>4, FS_Subset
      <4> QED BY <3>3, <4>1, <4>2, <4>3
    <3>6. Room = 1
      BY <2>7, <2>9, <3>2, <3>5 DEF Room
    <3>7. obj'.qd_buf_count = Cardinality(drv'.queued)
      BY <2>7, <2>9, <3>1, <3>5, <3>6
    <3>8. drv'.queued \subseteq 0 .. obj'.num_buffers - 1
      BY <3>1, <3>4
    <3>9. \/ obj.streamEn /\ pc'[t] = "idle"
          \/ pc'[t] = "qOn" /\ obj'.dataReady
      BY <2>9 DEF Gives
    <3>10. obj.streamEn = drv.on
      BY <2>7, <2>9 DEF Streams
    <3> QED BY <1>3, <2>7, <2>9, <3>1, <3>7, <3>8, <3>9, <3>10 DEF Counting
  <2>10. CASE Starts(t)
    <3>1. obj.dataReady /\ drv.queued # {}
      BY <1>3, <2>10 DEF Starts, Counting
    <3>2. /\ obj'.qd_buf_count = obj.qd_buf_count /\ obj'.num_buffers = obj.num_buffers
          /\ drv'.queued = drv.queued /\ drv'.on = TRUE /\ pc'[t] = "idle"
      BY <2>10, <3>1 DEF Starts
    <3> QED BY <1>3, <2>7, <2>10, <3>2 DEF Counting
  <2> QED BY <1>3, <2>1, <2>2, <2>3, <2>4, <2>5, <2>6, <2>8, <2>9, <2>10 DEF OwnKind
<1> QED BY <1>1, <1>2, <1>3 DEF Kind

LEMMA InductiveCount ==
  Races = {} /\ "on" \notin Faults /\ Spec => [](IInv /\ (overtaken \/ Counting))
<1>1. Init => Counting
  <2> SUFFICES ASSUME Init PROVE Counting
    OBVIOUS
  <2>1. PICK s \in Sizes : obj = NoObject(s)
    BY DEF Init
  <2> QED BY <2>1, FS_EmptySet DEF Init, NoObject, Counting, Threads
<1>2. ASSUME "on" \notin Faults, IInv, overtaken \/ Counting, [Next]_vars
      PROVE  overtaken' \/ Counting'
  <2>1. Typed /\ Owner /\ Clients /\ overtaken \in BOOLEAN
    BY <1>2 DEF IInv
  <2>2. CASE \E s \in Sizes : CreateOverlay(s)
    BY <2>1, <2>2, CreateCounting
  <2>3. ASSUME NEW t \in Threads, Kind(t), overtaken => overtaken', ~overtaken'
        PROVE  Counting'
    BY <1>2, <2>1, <2>3, KindCounting DEF IInv
  <2>4. CASE UNCHANGED vars
    BY <1>2, <2>4 DEF vars, Counting
  <2> QED BY <1>2, <2>1, <2>2, <2>3, <2>4, NextKinds
<1>3. CASE Races = {} /\ "on" \notin Faults
  BY <1>1, <1>2, <1>3, Inductive, PTL DEF Spec
<1> QED BY <1>3

\* Whenever the mutex is free, qd_buf_count is the number of buffers the device
\* has and streamEn says whether it streams, for any number of buffers and any
\* failing calls but VIDIOC_STREAMON (queueBuffer, dequeueBuffer and whatever
\* stops the stream, same-size resizes that nobody overtakes included).
THEOREM CountFollowsDriver ==
  Races = {} /\ "on" \notin Faults /\ Spec => []CountMatchesDriver
<1>1. IInv /\ (overtaken \/ Counting) => CountMatchesDriver
  BY DEF IInv, Streams, Counting, CountMatchesDriver, StoppingPCs
<1> QED BY <1>1, InductiveCount, PTL

-----------------------------------------------------------------------------
(* The refinement.  VIDIOC_STREAMOFF must not fail either: data_close()    *)
(* ignores its result.                                                     *)

\* A client that has closed has left the device off and empty.
Quiet == \A u \in Users : pc[u] = "closeShared" => ~drv.on /\ drv.queued = {}

LEMMA KindQuiet ==
  ASSUME Typed, Clients, Quiet, Clients', Streams', Counting', "off" \notin Faults,
         NEW t \in Threads, Kind(t)
  PROVE  Quiet'
<1> SUFFICES ASSUME NEW u \in Users, pc'[u] = "closeShared"
             PROVE  ~drv'.on /\ drv'.queued = {}
  BY DEF Quiet
<1>1. CASE LeftAlone(t)
  <2>1. pc[u] = "closeShared"
    BY <1>1 DEF LeftAlone, Moved, Threads
  <2> QED BY <1>1, <2>1 DEF LeftAlone, StreamKept, Quiet
<1>2. CASE Stops(t) /\ u # t
  <2>1. pc[u] = "closeShared"
    BY <1>2 DEF Stops, Moved, Threads
  <2> QED BY <1>2, <2>1 DEF Stops, StreamKept, StreamStopped, Quiet
<1>3. CASE Stops(t) /\ u = t
  <2>1. \A v \in Users : pc'[v] \notin {"sameEn", "qOn"}
    BY DEF Clients, ClosingPCs
  <2>2. ~drv'.on
    BY <1>3, <2>1 DEF Stops, Streams
  <2> QED BY <2>1, <2>2 DEF Counting
<1>4. CASE t \in Users /\ Moved(t) /\ OwnKind(t)
  <2>1. u # t
    BY <1>4 DEF OwnKind, Attaches, Leaves, TurnsOff, ClearsFlag, ClearsCount, Allocates,
                TakesBack, Gives, Starts
  <2>2. pc[u] = "closeShared"
    BY <1>4, <2>1 DEF Moved, Threads
  <2>3. pc[t] = "idle"
    BY <1>4, <2>1, <2>2 DEF Clients, ClosingPCs
  <2> QED BY <1>4, <2>3 DEF OwnKind, Attaches, Leaves, TurnsOff, ClearsFlag, ClearsCount,
                            Allocates, TakesBack, Gives, Starts
<1> QED BY <1>1, <1>2, <1>3, <1>4 DEF Kind

LEMMA InductiveQuiet ==
  Races = {} /\ "on" \notin Faults /\ "off" \notin Faults /\ Spec
    => [](IInv /\ (overtaken \/ (Counting /\ Quiet)))
<1>1. Init => Quiet
  BY DEF Init, Quiet, Threads
<1>2. ASSUME "off" \notin Faults, IInv, IInv', overtaken \/ Counting,
             overtaken' \/ Counting', overtaken \/ Quiet, [Next]_vars
      PROVE  overtaken' \/ Quiet'
  <2>1. /\ Typed /\ Clients /\ Clients' /\ overtaken \in BOOLEAN
        /\ overtaken' \/ (Streams' /\ Counting')
    BY <1>2 DEF IInv
  <2>2. CASE \E s \in Sizes : CreateOverlay(s)
    BY <2>1, <2>2 DEF CreateOverlay, Quiet, Clients
  <2>3. ASSUME NEW t \in Threads, Kind(t), overtaken => overtaken', ~overtaken'
        PROVE  Quiet'
    BY <1>2, <2>1, <2>3, KindQuiet
  <2>4. CASE UNCHANGED vars
    BY <1>2, <2>4 DEF vars, Quiet
  <2> QED BY <1>2, <2>1, <2>2, <2>3, <2>4, NextKinds
<1>3. CASE Races = {} /\ "on" \notin Faults /\ "off" \notin Faults
  BY <1>1, <1>2, <1>3, InductiveCount, PTL DEF Spec
<1> QED BY <1>3

Switched == [Switch!Next]_(Switch!vars)

LEMMA SwitchUnmoved ==
  ASSUME (ctx' = "attached") <=> (ctx = "attached"), drv'.on = drv.on,
         drv'.queued = drv.queued
  PROVE  Switched
BY DEF Switched, Switch!vars

LEMMA SwitchStops ==
  ASSUME (ctx' = "attached") <=> (ctx = "attached"), drv'.on = FALSE, drv'.queued = {}
  PROVE  Switched
BY DEF Switched, Switch!Next, Switch!Stop

LEMMA KindSwitched ==
  ASSUME Typed, Owner, Clients, Streams, Counting, Quiet, ~overtaken', "on" \notin Faults,
         NEW t \in Threads, Kind(t)
  PROVE  Switched
<1>0. drv.on \in BOOLEAN
  BY DEF Typed, Shape, Drivers
<1>1. CASE LeftAlone(t)
  BY <1>1, SwitchUnmoved DEF LeftAlone, StreamKept
<1>2. CASE Stops(t)
  BY <1>2, SwitchUnmoved, SwitchStops DEF Stops, StreamKept, StreamStopped
<1>3. CASE t \in Users /\ Moved(t) /\ OwnKind(t)
  <2>1. CASE Attaches(t)
    <3>1. ctx = "attaching" /\ ctx' = "attached" /\ drv' = drv
      BY <1>3, <2>1 DEF Attaches, Clients
    <3> QED BY <3>1 DEF Switched, Switch!Next, Switch!Connect
  <2>2. CASE Leaves(t)
    <3>1. /\ ctx = "attached" /\ ctx' = "none" /\ ~drv.on /\ drv.queued = {}
          /\ drv'.on = drv.on /\ drv'.queued = drv.queued
      BY <1>3, <2>2 DEF Leaves, StreamKept, Clients, Quiet
    <3> QED BY <3>1 DEF Switched, Switch!Next, Switch!Disconnect
  <2>3. CASE TurnsOff(t)
    BY <2>3, SwitchStops DEF TurnsOff
  <2>4. CASE ClearsFlag(t) \/ ClearsCount(t)
    BY <2>4, SwitchUnmoved DEF ClearsFlag, ClearsCount
  <2>5. CASE Allocates(t)
    <3>1. drv.on = FALSE
      BY <1>0, <1>3, <2>5 DEF Allocates, Streams
    <3> QED BY <2>5, <3>1, SwitchUnmoved, SwitchStops DEF Allocates
  <2>6. CASE TakesBack(t)
    <3>1. PICK b \in Buffers : b \in drv.queued /\ drv'.queued = drv.queued \ {b}
      BY <2>6 DEF TakesBack
    <3>2. drv.queued # {b}
      BY <2>6, FS_Singleton DEF TakesBack, Ready
    <3> QED BY <2>6, <3>1, <3>2 DEF TakesBack, Switched, Switch!Next, Switch!TakeBack, Ready
  <2>7. CASE Gives(t)
    <3>1. ctx = "attached"
      BY <1>3, <2>7 DEF Gives, Clients
    <3> QED BY <2>7, <3>1 DEF Gives, Switched, Switch!Next, Switch!Give
  <2>8. CASE Starts(t)
    <3>1. /\ ctx = "attached" /\ ctx' = ctx /\ obj.dataReady
          /\ ~drv.on /\ drv.queued # {} /\ drv'.queued = drv.queued
      BY <1>3, <2>8 DEF Starts, Clients, Streams, Counting
    <3>2. drv'.on = TRUE
      BY <2>8, <3>1 DEF Starts
    <3> QED BY <3>1, <3>2 DEF Switched, Switch!Next, Switch!Start
  <2> QED BY <1>3, <2>1, <2>2, <2>3, <2>4, <2>5, <2>6, <2>7, <2>8 DEF OwnKind
<1> QED BY <1>1, <1>2, <1>3 DEF Kind

LEMMA CreateSwitched ==
  ASSUME NEW s \in Sizes, CreateOverlay(s)
  PROVE  Switched
<1>1. ctx = "none" /\ ctx' = "offered" /\ drv'.on = FALSE /\ drv'.queued = {}
  BY DEF CreateOverlay
<1> QED BY <1>1, SwitchStops

\* The two processes with their mutex and the device implement StreamSwitch
\* until a same-size resize is overtaken: the stream starts only for a connected
\* client that has queued something, each stop gives every buffer back, the
\* buffer shown is not taken away, and a client that leaves leaves the display
\* quiet (TIOverlay.cpp's data side).
THEOREM OverlayImplementsSwitch ==
  Races = {} /\ "on" \notin Faults /\ "off" \notin Faults /\ Spec => ImplementsSwitch
<1>1. Init => Switch!Init
  BY DEF Init, Switch!Init
<1>2. ASSUME "on" \notin Faults, IInv, overtaken \/ (Counting /\ Quiet), [Next]_vars
      PROVE  [Switch!Next \/ overtaken']_(Switch!vars)
  <2>1. Typed /\ Owner /\ Clients /\ overtaken \in BOOLEAN /\ (overtaken \/ Streams)
    BY <1>2 DEF IInv
  <2>2. Switched => [Switch!Next \/ overtaken']_(Switch!vars)
    BY DEF Switched
  <2>3. CASE \E s \in Sizes : CreateOverlay(s)
    BY <2>2, <2>3, CreateSwitched
  <2>4. ASSUME NEW t \in Threads, Kind(t), overtaken => overtaken', ~overtaken'
        PROVE  Switched
    BY <1>2, <2>1, <2>4, KindSwitched
  <2>5. CASE UNCHANGED vars
    BY <2>5, <2>2, SwitchUnmoved DEF vars
  <2> QED BY <1>2, <2>1, <2>2, <2>3, <2>4, <2>5, NextKinds
<1>3. CASE Races = {} /\ "on" \notin Faults /\ "off" \notin Faults
  BY <1>1, <1>2, <1>3, InductiveQuiet, PTL DEF Spec, ImplementsSwitch
<1> QED BY <1>3

-----------------------------------------------------------------------------
(* The attributes.  VIDIOC_STREAMOFF and the calls that set them must not    *)
(* fail: commit() has copied the stage to the object by then, and setCrop()  *)
(* keeps the crop window it has not set.  Queueing, dequeueing, starting and *)
(* allocating may.                                                           *)

\* Only commit() puts the object's attributes before the device's, and the crop
\* window is no part of what it changes.
Shown ==
  IF pc[Ctl] = "commitSet" THEN saved[Ctl].crop = data.crop ELSE drv.attr = data

\* What a client has read back is what the device has.
ReadBack ==
  \A u \in Users :
    /\ pc[u] = "resizeSet" => saved[u] = drv.attr
    /\ pc[u] = "cropSet" => saved[u].pos = drv.attr.pos

\* Nobody has cropped before the client is there.
Uncropped == ctx \in {"offered", "attaching"} => data.crop = FullCrop

Attributed == Shown /\ ReadBack /\ Uncropped

Setting == {"commitSet", "resizeSet", "cropSet"}

\* A step that sets no attribute: a thread that has read some keeps them.
LEMMA KeptAttributed ==
  ASSUME Attributed, data' = data, drv'.attr = drv.attr,
         NEW t \in Threads, NEW l, Goto(t, l), l \notin Setting, pc[t] # "commitSet",
         \A v \in Threads \ {t} : saved'[v] = saved[v],
         ctx' = ctx \/ ctx' \in {"none", "attached"}
                \/ (ctx = "offered" /\ ctx' = "attaching"),
         pc \in [Threads -> ControlPCs \cup DataPCs]
  PROVE  Attributed'
<1>1. \A v \in Threads : IF v = t THEN pc'[v] = l ELSE pc'[v] = pc[v] /\ saved'[v] = saved[v]
  BY DEF Goto
<1>2. Ctl \in Threads /\ \A u \in Users : u \in Threads
  BY DEF Threads
<1>3. Shown'
  BY <1>1, <1>2 DEF Attributed, Shown, Setting
<1>4. ReadBack'
  BY <1>1, <1>2 DEF Attributed, ReadBack, Setting
<1>5. Uncropped'
  BY DEF Attributed, Uncropped
<1> QED BY <1>3, <1>4, <1>5 DEF Attributed

\* One that moves no thread.
LEMMA StillAttributed ==
  ASSUME Attributed, UNCHANGED <<data, pc, saved>>, drv'.attr = drv.attr,
         ctx' = ctx \/ ctx' \in {"none", "attached"}
  PROVE  Attributed'
BY DEF Attributed, Shown, ReadBack, Uncropped

\* The stream's end leaves the attributes.
LEMMA AttributesStay ==
  ASSUME Typed, NEW ok PROVE DriverOff(ok).attr = drv.attr
BY DEF DriverOff, StreamedOff, Typed, Shape, Drivers

\* Who returns forgets what it has read; the others do not.
LEMMA OthersKeep ==
  ASSUME Typed, NEW t \in Threads, Return(t)
  PROVE  Goto(t, "idle") /\ \A v \in Threads \ {t} : saved'[v] = saved[v]
BY DEF Return, Typed, Shape, LocalShape

LEMMA OnlyOne ==
  ASSUME Owner, NEW t \in Threads, pc[t] \in HoldingPCs, NEW v \in Threads, v # t
  PROVE  pc[v] \notin Setting
BY DEF Owner, HoldingPCs, Setting

LEMMA ControlAttributed ==
  ASSUME Typed, Owner, Clients, Attributed, "set" \notin Faults, "off" \notin Faults,
         ControlCall \/ ControlStep
  PROVE  Attributed'
<1> USE DEF Threads
<1>0. pc \in [Threads -> ControlPCs \cup DataPCs] /\ Ctl \in Threads
  BY DEF Typed, Shape, LocalShape
<1>a. ASSUME NEW off \in OffResults PROVE off = TRUE
  BY <1>a DEF OffResults
<1>1. ASSUME NEW s \in Sizes, CreateOverlay(s) PROVE Attributed'
  <2>1. /\ pc' = pc /\ pc[Ctl] = "idle" /\ drv'.attr = NewAttributes /\ data' = NewAttributes
        /\ ctx = "none"
    BY <1>1 DEF CreateOverlay
  <2>2. \A u \in Users : pc'[u] \in {"idle", "attach"}
    BY <2>1 DEF Clients
  <2> QED BY <2>1, <2>2 DEF Attributed, Shown, ReadBack, Uncropped, NewAttributes
<1>2. ASSUME NEW p \in Positions, SetPosition(p) PROVE Attributed'
  BY <1>0, <1>2, KeptAttributed DEF SetPosition, Setting
<1>3. ASSUME NEW r \in Rotations, SetParameter(r) PROVE Attributed'
  BY <1>3, StillAttributed DEF SetParameter
<1>4. CASE Commit \/ DestroyOverlay
  BY <1>0, <1>4, KeptAttributed DEF Commit, DestroyOverlay, Acquire, Setting
<1>5. CASE PositionSet
  <2>1. /\ data' = [data EXCEPT !.pos = stage.pos]
        /\ drv' = [drv EXCEPT !.attr.pos = stage.pos]
        /\ ctx' = ctx /\ Return(Ctl) /\ pc[Ctl] = "pos"
    BY <1>5 DEF PositionSet, MayFail
  <2>2. drv.attr = data /\ data \in Attributes /\ drv \in Drivers
    BY <2>1 DEF Attributed, Shown, Typed, Shape, SharedShape
  <2>3. drv'.attr = data' /\ data'.crop = data.crop
    BY <2>1, <2>2 DEF Attributes, Drivers
  <2>4. \A u \in Users : pc[u] \notin Setting /\ pc'[u] = pc[u]
    BY <1>0, <2>1, OnlyOne, OverlayAssumption DEF HoldingPCs, Return, Goto
  <2>5. pc'[Ctl] = "idle"
    BY <1>0, <2>1 DEF Return, Goto
  <2> QED BY <2>1, <2>3, <2>4, <2>5
          DEF Attributed, Shown, ReadBack, Uncropped, Setting
<1>6. CASE CommitNothing
  BY <1>0, <1>6, KeptAttributed DEF CommitNothing, Setting
<1>7. ASSUME NEW off \in OffResults, CommitBegin(off) PROVE Attributed'
  <2>1. /\ data' = [data EXCEPT !.pos = stage.pos, !.rot = stage.rot]
        /\ drv' = DriverOff(off)
        /\ saved' = [saved EXCEPT ![Ctl] = drv.attr]
        /\ Goto(Ctl, "commitSet")
        /\ ctx' = ctx /\ pc[Ctl] = "commit"
    BY <1>a, <1>7 DEF CommitBegin, MayFail
  <2>2. drv.attr = data /\ data'.crop = data.crop
    BY <2>1 DEF Attributed, Shown, Typed, Shape, SharedShape, Attributes
  <2>3. saved'[Ctl].crop = data'.crop /\ pc'[Ctl] = "commitSet"
    BY <1>0, <2>1, <2>2 DEF Goto, Typed, Shape, LocalShape
  <2>4. \A u \in Users : pc'[u] \notin Setting
    BY <1>0, <2>1, OnlyOne, OverlayAssumption DEF HoldingPCs, Goto
  <2> QED BY <2>1, <2>2, <2>3, <2>4 DEF Attributed, Shown, ReadBack, Uncropped, Setting
<1>8. CASE CommitSet
  <2>1. /\ drv' = [drv EXCEPT !.attr =
                     [pos |-> data.pos, rot |-> data.rot, crop |-> saved[Ctl].crop]]
        /\ Goto(Ctl, "commitEnd") /\ data' = data /\ ctx' = ctx /\ pc[Ctl] = "commitSet"
    BY <1>8 DEF CommitSet, MayFail
  <2>2. drv'.attr = [pos |-> data.pos, rot |-> data.rot, crop |-> data.crop]
    BY <2>1 DEF Attributed, Shown, Typed, Shape, Drivers
  <2>3. drv'.attr = data'
    BY <2>1, <2>2 DEF Typed, Shape, SharedShape, Attributes
  <2>4. pc'[Ctl] = "commitEnd" /\ \A u \in Users : pc'[u] \notin Setting
    BY <1>0, <2>1, OnlyOne, OverlayAssumption DEF HoldingPCs, Goto
  <2> QED BY <2>1, <2>3, <2>4 DEF Attributed, Shown, ReadBack, Uncropped, Setting
<1>9. CASE CommitEnd \/ DestroyShared
  BY <1>0, <1>9, KeptAttributed, OthersKeep DEF CommitEnd, DestroyShared, Setting
<1>10. ASSUME NEW off \in OffResults, DestroyStop(off) PROVE Attributed'
  BY <1>0, <1>10, KeptAttributed, AttributesStay DEF DestroyStop, Setting
<1>11. CASE Acquire(Ctl, "posLock", "pos")
  BY <1>0, <1>11, KeptAttributed DEF Acquire, Setting
<1> QED BY <1>1, <1>2, <1>3, <1>4, <1>5, <1>6, <1>7, <1>8, <1>9, <1>10, <1>11
        DEF ControlCall, ControlStep

LEMMA DataAttributed ==
  ASSUME Typed, Owner, Clients, Attributed, "set" \notin Faults, "off" \notin Faults,
         NEW u \in Users, DataCall(u) \/ DataStep(u)
  PROVE  Attributed'
<1> USE DEF Threads
<1>0. /\ pc \in [Threads -> ControlPCs \cup DataPCs] /\ u \in Threads /\ u # Ctl
      /\ pc[u] # "commitSet"
  BY OverlayAssumption DEF Typed, Shape, LocalShape, DataPCs, ClosingPCs
<1>a. ASSUME NEW off \in OffResults PROVE off = TRUE
  BY <1>a DEF OffResults
<1>1. CASE Initialize(u)
  BY <1>0, <1>1, KeptAttributed, StillAttributed DEF Initialize, Setting
<1>2. ASSUME NEW s \in Sizes, ResizeSame(u, s) \/ ResizeInput(u, s) PROVE Attributed'
  BY <1>0, <1>2, KeptAttributed DEF ResizeSame, ResizeInput, Start, Setting
<1>3. ASSUME NEW n \in Optimal, SetOptimal(u, n) PROVE Attributed'
  BY <1>3, StillAttributed DEF SetOptimal
<1>4. CASE SetCacheable(u)
  BY <1>4, StillAttributed DEF SetCacheable
<1>5. ASSUME NEW l, NEW a, l \notin Setting, Start(u, l, a) PROVE Attributed'
  BY <1>0, <1>5, KeptAttributed DEF Start
<1>6. ASSUME NEW c \in Crops, SetCrop(u, c) PROVE Attributed'
  BY <1>5, <1>6 DEF SetCrop, Setting
<1>7. CASE DequeueBuffer(u) \/ DataClose(u)
  BY <1>0, <1>7, KeptAttributed DEF DequeueBuffer, DataClose, Acquire, Setting
<1>8. ASSUME NEW b \in Buffers, QueueBuffer(u, b) PROVE Attributed'
  BY <1>5, <1>8 DEF QueueBuffer, Setting
<1>9. CASE InitializeShared(u)
  <2>1. pc[u] = "attach" /\ data' = [data EXCEPT !.crop = FullCrop] /\ drv' = drv
        /\ ctx' = "attached" /\ Return(u)
    BY <1>9 DEF InitializeShared
  <2>2. data.crop = FullCrop
    BY <2>1 DEF Clients, Attributed, Uncropped
  <2>3. data' = data
    BY <2>1, <2>2 DEF Typed, Shape, SharedShape, Attributes
  <2> QED BY <1>0, <2>1, <2>3, KeptAttributed, OthersKeep DEF Setting
<1>10. ASSUME NEW off \in OffResults, CloseStop(u, off) \/ DequeueFails(u, off)
       PROVE Attributed'
  BY <1>0, <1>10, KeptAttributed, AttributesStay, OthersKeep
     DEF CloseStop, DequeueFails, Setting
<1>11. ASSUME NEW off \in OffResults, ResizeBegin(u, off) PROVE Attributed'
  <2>1. /\ drv'.attr = drv.attr /\ data' = data /\ ctx' = ctx /\ pc[u] = "resize"
        /\ saved' = [saved EXCEPT ![u] = drv.attr] /\ Goto(u, "resizeSet")
    BY <1>a, <1>11, AttributesStay DEF ResizeBegin, MayFail
  <2>2. \A v \in Threads \ {u} : pc'[v] \notin Setting
    BY <1>0, <2>1, OnlyOne DEF HoldingPCs, Goto
  <2>3. pc'[u] = "resizeSet" /\ saved'[u] = drv.attr
    BY <1>0, <2>1 DEF Goto, Typed, Shape, LocalShape
  <2>4. drv.attr = data
    BY <1>0, <2>1, OnlyOne DEF HoldingPCs, Setting, Attributed, Shown
  <2> QED BY <1>0, <2>1, <2>2, <2>3, <2>4 DEF Attributed, Shown, ReadBack, Uncropped, Setting
<1>12. ASSUME NEW off \in OffResults, CropBegin(u, off) PROVE Attributed'
  <2>1. /\ drv'.attr = drv.attr /\ data' = data /\ ctx' = ctx /\ pc[u] = "crop"
        /\ saved' = [saved EXCEPT ![u] = drv.attr] /\ Goto(u, "cropSet")
    BY <1>a, <1>12, AttributesStay DEF CropBegin, MayFail
  <2>2. \A v \in Threads \ {u} : pc'[v] \notin Setting
    BY <1>0, <2>1, OnlyOne DEF HoldingPCs, Goto
  <2>3. pc'[u] = "cropSet" /\ saved'[u] = drv.attr
    BY <1>0, <2>1 DEF Goto, Typed, Shape, LocalShape
  <2>4. drv.attr = data
    BY <1>0, <2>1, OnlyOne DEF HoldingPCs, Setting, Attributed, Shown
  <2> QED BY <1>0, <2>1, <2>2, <2>3, <2>4 DEF Attributed, Shown, ReadBack, Uncropped, Setting
<1>13. ASSUME NEW n \in 1 .. Requested, ResizeSet(u, n) PROVE Attributed'
  <2>1. /\ drv'.attr \in {drv.attr, saved[u]} /\ data' = data /\ ctx' = ctx
        /\ Return(u) /\ pc[u] = "resizeSet"
    BY <1>13 DEF ResizeSet, Typed, Shape, Drivers
  <2>2. drv'.attr = drv.attr
    BY <2>1 DEF Attributed, ReadBack
  <2> QED BY <1>0, <2>1, <2>2, KeptAttributed, OthersKeep DEF Setting
<1>14. CASE CropSet(u)
  <2>1. /\ data' = [data EXCEPT !.crop = arg[u]] /\ ctx' = ctx /\ Return(u)
        /\ drv' = [drv EXCEPT !.attr.crop = arg[u], !.attr.pos = saved[u].pos]
        /\ pc[u] = "cropSet"
    BY <1>14 DEF CropSet, MayFail
  <2>2. drv.attr = data /\ data \in Attributes /\ drv \in Drivers
    BY <1>0, <2>1, OnlyOne
       DEF HoldingPCs, Setting, Attributed, Shown, Typed, Shape, SharedShape
  <2>3. saved[u].pos = drv.attr.pos /\ ctx = "attached"
    BY <2>1 DEF Attributed, ReadBack, Clients
  <2>4. drv'.attr = data'
    BY <2>1, <2>2, <2>3 DEF Attributes, Drivers
  <2>5. \A v \in Threads : pc'[v] \notin Setting
    BY <1>0, <2>1, OnlyOne DEF HoldingPCs, Return, Goto, Setting
  <2> QED BY <1>0, <2>1, <2>3, <2>4, <2>5
          DEF Attributed, Shown, ReadBack, Uncropped, Setting
<1>15. CASE DequeueRefused(u) \/ QueueFails(u) \/ CloseShared(u)
  BY <1>0, <1>15, KeptAttributed, OthersKeep DEF DequeueRefused, QueueFails, CloseShared,
                                                 Setting
<1>16. CASE DequeuePoll(u)
  BY <1>0, <1>16, KeptAttributed DEF DequeuePoll, Setting
<1>17. ASSUME NEW b \in Buffers, Dequeued(u, b) PROVE Attributed'
  <2>1. drv'.attr = drv.attr
    BY <1>17 DEF Dequeued, Typed, Shape, Drivers
  <2> QED BY <1>0, <1>17, <2>1, KeptAttributed, OthersKeep DEF Dequeued, Setting
<1>18. CASE Queued(u) \/ EnableStreaming(u)
  <2>1. drv'.attr = drv.attr
    BY <1>18 DEF Queued, EnableStreaming, Typed, Shape, Drivers
  <2>2. /\ data' = data /\ ctx' = ctx
        /\ Return(u) \/ (Goto(u, "qOn") /\ saved' = saved)
    BY <1>18 DEF Queued, EnableStreaming
  <2> QED BY <1>0, <2>1, <2>2, KeptAttributed, OthersKeep DEF Setting
<1>19. CASE \/ Acquire(u, "resizeLock", "resize") \/ Acquire(u, "cropLock", "crop")
            \/ Acquire(u, "qLock", "q")
  BY <1>0, <1>19, KeptAttributed DEF Acquire, Setting
<1>20. CASE SameTest(u) \/ SameOff(u) \/ SameEn(u) \/ SameCount(u)
  <2>1. /\ UNCHANGED <<data, ctx>> /\ drv'.attr = drv.attr
        /\ \/ Return(u)
           \/ \E l \in {"sameOff", "sameEn", "sameCount"} : Goto(u, l) /\ saved' = saved
    BY <1>20 DEF SameTest, SameOff, SameEn, SameCount, StreamedOff, Typed, Shape, Drivers
  <2> QED BY <1>0, <2>1, KeptAttributed, OthersKeep DEF Setting
<1> QED BY <1>1, <1>2, <1>3, <1>4, <1>6, <1>7, <1>8, <1>9, <1>10, <1>11, <1>12, <1>13, <1>14,
           <1>15, <1>16, <1>17, <1>18, <1>19, <1>20 DEF DataCall, DataStep

\* AttributesApplied: what resizeInput(), setCrop() and commit() read from the
\* device and write again undoes nothing the other side has set meanwhile.
THEOREM AttributesKept ==
  ASSUME Races = {}, "set" \notin Faults, "off" \notin Faults
  PROVE  Spec => []AttributesApplied
<1>1. Init => Attributed
  BY DEF Init, Attributed, Shown, ReadBack, Uncropped, NewAttributes, Threads
<1>2. IInv /\ Attributed /\ [Next]_vars => Attributed'
  <2>1. ASSUME Attributed, UNCHANGED vars PROVE Attributed'
    BY <2>1, StillAttributed DEF vars
  <2> QED BY <2>1, ControlAttributed, DataAttributed DEF IInv, Next
<1>3. IInv /\ Attributed => AttributesApplied
  <2>1. ASSUME IInv, lock = None PROVE pc[Ctl] # "commitSet"
    BY <2>1, OverlayAssumption DEF IInv, Owner, HoldingPCs, Threads
  <2> QED BY <2>1 DEF Attributed, Shown, AttributesApplied
<1> QED BY <1>1, <1>2, <1>3, Inductive, PTL DEF Spec

=============================================================================
