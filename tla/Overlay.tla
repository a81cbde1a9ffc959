------------------------------ MODULE Overlay ------------------------------
(***************************************************************************)
(* liboverlay (TIOverlay.cpp): one overlay, the object its two sides share *)
(* in an ashmem region, and the V4L2 device behind it.  The control side   *)
(* is SurfaceFlinger, which serialises its calls; the data side is a       *)
(* client such as the media server, whose threads share one data context.  *)
(* The module keeps the reference count of the region, its process-shared  *)
(* mutex with every place that takes, releases or forgets it, the flags    *)
(* controlReady, dataReady and streamEn, the count of queued buffers, and  *)
(* the attributes each side reads back from the device and writes again.   *)
(*                                                                         *)
(* Pixels, formats, managers, colour keys and the clone device are left    *)
(* out (nothing registers requestOverlayClone, so the link descriptors     *)
(* stay -1).  A critical section is two steps where it reads and then      *)
(* writes, or asks and then acts.                                          *)
(***************************************************************************)
EXTENDS Integers, FiniteSets

CONSTANTS
  Ctl,           \* SurfaceFlinger's thread
  Users,         \* threads of the data side's process
  Feeders,       \* those of them that only queue and dequeue buffers
  None,          \* owner of a free mutex
  Requested,     \* NUM_OVERLAY_BUFFERS_REQUESTED
  Default,       \* NUM_BUFFERS_TO_BE_QUEUED_FOR_OPTIMAL_PERFORMANCE
  Optimal,       \* counts OPTIMAL_QBUF_CNT is set to
  Sizes, Positions, Rotations, Crops,
  NoPos, NoRot, FullCrop,  \* the attributes of a new overlay
  OffScreen,     \* the positions that do not fit the display
  Clamped,       \* what setPosition() makes of one of those
  Faults,        \* driver calls that may fail
  Races          \* windows in which other threads run: see WindowsClosed

Threads == Users \cup {Ctl}

DriverCalls == {"on", "off", "q", "dq", "set", "req"}
Windows == {"commit", "attach"}

ASSUME OverlayAssumption ==
  /\ Ctl \notin Users
  /\ None \notin Threads
  /\ Feeders \subseteq Users
  /\ Requested \in Nat \ {0}
  /\ Default \in Nat
  /\ Optimal \subseteq 0..Requested
  /\ NoPos \in Positions /\ NoRot \in Rotations /\ FullCrop \in Crops
  /\ OffScreen \subseteq Positions
  /\ Clamped \in Positions \ OffScreen
  /\ NoPos \notin OffScreen
  /\ Faults \subseteq DriverCalls
  /\ Races \subseteq Windows

Buffers == 0 .. Requested - 1

Attributes == [pos : Positions, rot : Rotations, crop : Crops]
NewAttributes == [pos |-> NoPos, rot |-> NoRot, crop |-> FullCrop]

VARIABLES
  obj,         \* the overlay_object: its counters and flags
  data, stage, \* mCtl with mData's crop, and mCtlStage
  lock,        \* owner of overlayobj->lock
  drv,         \* the V4L2 device
  slot,        \* mOmapOverlays: does the control side have an overlay?
  ctx,         \* the data side: "none", "offered" its handle, "attached"
  pc,          \* where each thread is in its call
  arg,         \* the argument of the call: buffer, size, position or crop
  saved,       \* attributes a thread has read back from the device
  overtaken    \* history: a same-size resize has overlapped another thread's
               \* step on the stream of this overlay (see Watch)

vars == <<obj, data, stage, lock, drv, slot, ctx, pc, arg, saved, overtaken>>

Objects ==
  [refCnt : 0..2, alive : BOOLEAN, controlReady : BOOLEAN, dataReady : BOOLEAN,
   streamEn : BOOLEAN, qd_buf_count : -1..Requested, num_buffers : 1..Requested,
   optimalQBufCnt : Nat, attributes_changed : BOOLEAN, size : Sizes,
   mappedbufcount : 0..Requested]

NoObject(s) ==
  [refCnt |-> 0, alive |-> FALSE, controlReady |-> FALSE, dataReady |-> FALSE,
   streamEn |-> FALSE, qd_buf_count |-> 0, num_buffers |-> Requested,
   optimalQBufCnt |-> Default, attributes_changed |-> FALSE, size |-> s,
   mappedbufcount |-> 0]

\* Mutant of NewObject: refCnt stays 0.
NewObjectUncounted(s) == [NoObject(s) EXCEPT !.alive = TRUE]

\* createOverlay(): a fresh region, whose first reference is the control side's.
NewObject(s) == [NoObject(s) EXCEPT !.refCnt = 1, !.alive = TRUE]

WaitingPCs == {"posLock", "resizeLock", "cropLock", "qLock"}
HoldingPCs == {"pos", "commit", "commitSet", "commitUnlock", "destroy",
               "resize", "resizeSet", "crop", "cropSet", "dq", "dqbuf", "q", "qOn",
               "close"}
OtherPCs == {"idle", "commitEnd", "destroyShared", "attach", "same", "sameOff", "sameEn",
             "sameCount", "closeShared"}
\* Where a same-size resize, without the mutex, has seen the stream on and has
\* not finished stopping it.
StoppingPCs == {"sameOff", "sameEn", "sameCount"}

-----------------------------------------------------------------------------
(* The V4L2 device, as the code depends on it.                             *)

\* VIDIOC_STREAMOFF gives every queued buffer back.
StreamedOff(d) == [d EXCEPT !.on = FALSE, !.queued = {}]

\* poll() reports a buffer the display is done with: it keeps the one it shows.
Ready == drv.on /\ Cardinality(drv.queued) > 1

-----------------------------------------------------------------------------
(* The functions both sides share.                                         *)

Goto(t, l) == pc' = [pc EXCEPT ![t] = l]

\* History, in every step that changes the stream: has thread t, or the thread
\* with the mutex, overlapped a same-size resize, which takes no mutex?
Watch(t) ==
  overtaken' = (\/ overtaken
                \/ lock \notin {None, t}
                \/ \E u \in Users \ {t} : pc[u] \in StoppingPCs)

\* commit() between its two unlocks, closed unless the instance opens it.
WindowsClosed == "commit" \notin Races => pc[Ctl] # "commitEnd"

\* Mutant of Acquire: a mutex that is not PTHREAD_PROCESS_SHARED.
AcquireAnyway(t, from, to) ==
  /\ pc[t] = from
  /\ WindowsClosed
  /\ obj.alive
  /\ lock' = t
  /\ Goto(t, to)
  /\ UNCHANGED <<obj, data, stage, drv, slot, ctx, arg, saved, overtaken>>

\* pthread_mutex_lock(&overlayobj->lock)
Acquire(t, from, to) ==
  /\ pc[t] = from
  /\ WindowsClosed
  /\ obj.alive
  /\ lock = None
  /\ lock' = t
  /\ Goto(t, to)
  /\ UNCHANGED <<obj, data, stage, drv, slot, ctx, arg, saved, overtaken>>

\* pthread_mutex_unlock(&overlayobj->lock): a normal mutex does not check who
\* releases it.
Release == lock' = None

\* The call returns: its locals go.
Return(t) ==
  /\ Goto(t, "idle")
  /\ arg' = [arg EXCEPT ![t] = None]
  /\ saved' = [saved EXCEPT ![t] = NewAttributes]

\* Mutant of Disable: the count of queued buffers survives.
DisableKeepsCount(ok) ==
  IF ~obj.streamEn \/ ~ok THEN obj ELSE [obj EXCEPT !.streamEn = FALSE]

\* disable_streaming_locked(): the object afterwards; ok is VIDIOC_STREAMOFF's.
Disable(ok) ==
  IF ~obj.streamEn \/ ~ok THEN obj
  ELSE [obj EXCEPT !.streamEn = FALSE, !.qd_buf_count = 0]

\* Mutant of DriverOff: the stream is only marked as off.
DriverOffNever(ok) == drv

\* disable_streaming_locked(): the device afterwards.
DriverOff(ok) == IF ~obj.streamEn \/ ~ok THEN drv ELSE StreamedOff(drv)

\* The answers of VIDIOC_STREAMOFF; the ioctl is not made when streamEn is 0.
OffResults == IF obj.streamEn /\ "off" \in Faults THEN BOOLEAN ELSE {TRUE}

\* An ioctl of the given kind fails.
MayFail(call) == call \in Faults

\* Mutant of LastSide: whichever side leaves first destroys the mutex.
LastSideFirst(o) == [o EXCEPT !.refCnt = @ - 1, !.alive = FALSE]

\* destroy_shared_overlayobj(): the last side destroys the mutex and clears
\* the marker.
LastSide(o) == [o EXCEPT !.refCnt = @ - 1, !.alive = o.alive /\ o.refCnt # 1]

-----------------------------------------------------------------------------
(* The control side: SurfaceFlinger.                                       *)

Init ==
  /\ obj \in {NoObject(s) : s \in Sizes}
  /\ data = NewAttributes
  /\ stage = [pos |-> NoPos, rot |-> NoRot]
  /\ lock = None
  /\ drv = [on |-> FALSE, queued |-> {}, attr |-> NewAttributes]
  /\ slot = FALSE
  /\ ctx = "none"
  /\ pc = [t \in Threads |-> "idle"]
  /\ arg = [t \in Threads |-> None]
  /\ saved = [t \in Threads |-> NewAttributes]
  /\ overtaken = FALSE

\* createOverlay(), when every call it makes succeeds; when one fails it puts
\* everything back.  The device opens again once both sides have closed it.
CreateOverlay(s) ==
  /\ pc[Ctl] = "idle" /\ ~slot /\ ctx = "none"
  /\ obj' = NewObject(s)
  /\ data' = NewAttributes
  /\ stage' = [pos |-> NoPos, rot |-> NoRot]
  /\ lock' = None
  /\ drv' = [on |-> FALSE, queued |-> {}, attr |-> NewAttributes]
  /\ slot' = TRUE
  /\ ctx' = "offered"
  /\ overtaken' = FALSE
  /\ UNCHANGED <<pc, arg, saved>>

\* setPosition(): before the mutex is taken.  A position off the screen is an
\* error once the control side is ready and is clamped until then.
SetPosition(p) ==
  LET q == IF p \in OffScreen THEN Clamped ELSE p
  IN  /\ pc[Ctl] = "idle" /\ slot
      /\ obj.controlReady => p \notin OffScreen
      /\ q # data.pos
      /\ stage' = [stage EXCEPT !.pos = q]
      /\ Goto(Ctl, "posLock")
      /\ UNCHANGED <<obj, data, lock, drv, slot, ctx, arg, saved, overtaken>>

\* setPosition(): with the mutex.
PositionSet ==
  /\ pc[Ctl] = "pos"
  /\ data' = [data EXCEPT !.pos = stage.pos]
  /\ \/ drv' = [drv EXCEPT !.attr.pos = stage.pos]
     \/ MayFail("set") /\ UNCHANGED drv
  /\ Release /\ Return(Ctl)
  /\ UNCHANGED <<obj, stage, slot, ctx, overtaken>>

\* setParameter(OVERLAY_TRANSFORM): staged without the mutex.
SetParameter(r) ==
  /\ pc[Ctl] = "idle" /\ slot
  /\ stage.rot # r
  /\ stage' = [stage EXCEPT !.rot = r]
  /\ UNCHANGED <<obj, data, lock, drv, slot, ctx, pc, arg, saved, overtaken>>

\* commit(): the manager has been read; takes the mutex.
Commit == slot /\ Acquire(Ctl, "idle", "commit")

Staged == data.pos = stage.pos /\ data.rot = stage.rot

\* commit(): nothing has changed.
CommitNothing ==
  /\ pc[Ctl] = "commit" /\ Staged
  /\ obj' = [obj EXCEPT !.controlReady = TRUE]
  /\ Goto(Ctl, "commitUnlock")
  /\ UNCHANGED <<data, stage, lock, drv, slot, ctx, arg, saved, overtaken>>

\* commit(): copies the stage, reads the crop window, stops the stream.
CommitBegin(off) ==
  /\ pc[Ctl] = "commit" /\ ~Staged
  /\ data' = [data EXCEPT !.pos = stage.pos, !.rot = stage.rot]
  /\ \/ /\ obj' = [Disable(off) EXCEPT !.controlReady = TRUE]
        /\ drv' = DriverOff(off)
        /\ saved' = [saved EXCEPT ![Ctl] = drv.attr]
        /\ Goto(Ctl, IF off THEN "commitSet" ELSE "commitUnlock")
     \/ /\ MayFail("set")
        /\ obj' = [obj EXCEPT !.controlReady = TRUE]
        /\ Goto(Ctl, "commitUnlock")
        /\ UNCHANGED <<drv, saved>>
  /\ UNCHANGED <<stage, lock, slot, ctx, arg>>
  /\ Watch(Ctl)

\* commit(): the device takes the attributes and the mutex is released for
\* the first time; an ioctl that fails leaves it to the common exit.
CommitSet ==
  /\ pc[Ctl] = "commitSet"
  /\ \/ /\ drv' = [drv EXCEPT !.attr =
                     [pos |-> data.pos, rot |-> data.rot, crop |-> saved[Ctl].crop]]
        /\ Release /\ Goto(Ctl, "commitEnd")
     \/ /\ MayFail("set")
        /\ drv' \in {drv, [drv EXCEPT !.attr.rot = data.rot]}
        /\ Goto(Ctl, "commitUnlock")
        /\ UNCHANGED lock
  /\ UNCHANGED <<obj, data, stage, slot, ctx, arg, saved, overtaken>>

\* commit(), its common exit: unlocks, after the success path for the second
\* time and whoever has the mutex by then.
CommitEnd ==
  /\ pc[Ctl] \in {"commitUnlock", "commitEnd"}
  /\ Release /\ Return(Ctl)
  /\ UNCHANGED <<obj, data, stage, drv, slot, ctx, overtaken>>

\* destroyOverlay(), and control_close() for each overlay there is.
DestroyOverlay == slot /\ Acquire(Ctl, "idle", "destroy")

\* destroyOverlay(): disable_streaming(), whose result is ignored.
DestroyStop(off) ==
  /\ pc[Ctl] = "destroy"
  /\ obj' = Disable(off)
  /\ drv' = DriverOff(off)
  /\ Release /\ Goto(Ctl, "destroyShared")
  /\ UNCHANGED <<data, stage, slot, ctx, arg, saved>>
  /\ Watch(Ctl)

\* destroyOverlay(): close(fd), destroy_shared_overlayobj(), the slot.
DestroyShared ==
  /\ pc[Ctl] = "destroyShared"
  /\ "attach" \notin Races => \A u \in Users : pc[u] # "attach"
  /\ obj' = LastSide(obj)
  /\ slot' = FALSE
  /\ Return(Ctl)
  /\ UNCHANGED <<data, stage, lock, drv, ctx, overtaken>>

-----------------------------------------------------------------------------
(* The data side.                                                          *)

\* The data context is there, and none of its threads is closing it.
Open == ctx = "attached" /\ \A v \in Users : pc[v] \notin {"close", "closeShared"}

\* A thread of the client's process starts a call with argument a, to wait for
\* the mutex at l.
Start(u, l, a) ==
  /\ pc[u] = "idle" /\ Open
  /\ arg' = [arg EXCEPT ![u] = a]
  /\ Goto(u, l)
  /\ UNCHANGED <<obj, data, stage, lock, drv, slot, ctx, saved, overtaken>>

\* initialize(): open_shared_overlayobj() checks the marker.  A handle is used
\* once.
Initialize(u) ==
  /\ pc[u] = "idle" /\ ctx = "offered"
  /\ IF obj.alive THEN ctx' = "attaching" /\ Goto(u, "attach")
     ELSE ctx' = "none" /\ UNCHANGED pc
  /\ UNCHANGED <<obj, data, stage, lock, drv, slot, arg, saved, overtaken>>

\* initialize(): counts the reference, resets the object, maps the buffers.
InitializeShared(u) ==
  /\ pc[u] = "attach"
  /\ obj' = [obj EXCEPT !.refCnt = @ + 1, !.dataReady = FALSE, !.qd_buf_count = 0,
                        !.optimalQBufCnt = Default, !.attributes_changed = FALSE,
                        !.mappedbufcount = obj.num_buffers]
  /\ data' = [data EXCEPT !.crop = FullCrop]
  /\ ctx' = "attached"
  /\ Return(u)
  /\ UNCHANGED <<stage, lock, drv, slot, overtaken>>

SameInput(s) == obj.size = s /\ ~obj.attributes_changed

\* resizeInput(), same size: dataReady is cleared, without the mutex.
ResizeSame(u, s) ==
  /\ pc[u] = "idle" /\ Open /\ SameInput(s)
  /\ obj' = [obj EXCEPT !.dataReady = FALSE]
  /\ Goto(u, "same")
  /\ UNCHANGED <<data, stage, lock, drv, slot, ctx, arg, saved>>
  /\ Watch(u)

\* disable_streaming_locked(), called without the mutex: the test of streamEn.
SameTest(u) ==
  /\ pc[u] = "same"
  /\ IF obj.streamEn THEN Goto(u, "sameOff") /\ UNCHANGED <<arg, saved>> ELSE Return(u)
  /\ UNCHANGED <<obj, data, stage, lock, drv, slot, ctx, overtaken>>

\* disable_streaming_locked(), without the mutex: VIDIOC_STREAMOFF.
SameOff(u) ==
  /\ pc[u] = "sameOff"
  /\ \/ drv' = StreamedOff(drv) /\ Goto(u, "sameEn") /\ UNCHANGED <<arg, saved>>
     \/ MayFail("off") /\ Return(u) /\ UNCHANGED drv
  /\ UNCHANGED <<obj, data, stage, lock, slot, ctx>>
  /\ Watch(u)

\* disable_streaming_locked(), without the mutex: streamEn = 0.
SameEn(u) ==
  /\ pc[u] = "sameEn"
  /\ obj' = [obj EXCEPT !.streamEn = FALSE]
  /\ Goto(u, "sameCount")
  /\ UNCHANGED <<data, stage, lock, drv, slot, ctx, arg, saved>>
  /\ Watch(u)

\* disable_streaming_locked(), without the mutex: qd_buf_count = 0.
SameCount(u) ==
  /\ pc[u] = "sameCount"
  /\ obj' = [obj EXCEPT !.qd_buf_count = 0]
  /\ Return(u)
  /\ UNCHANGED <<data, stage, lock, drv, slot, ctx>>
  /\ Watch(u)

\* resizeInput(), another size or other attributes.
ResizeInput(u, s) == ~SameInput(s) /\ Start(u, "resizeLock", s)

\* resizeInput(): stops the stream, reads crop, position and rotation back.
ResizeBegin(u, off) ==
  /\ pc[u] = "resize"
  /\ obj' = Disable(off)
  /\ drv' = DriverOff(off)
  /\ \/ /\ off
        /\ saved' = [saved EXCEPT ![u] = drv.attr]
        /\ Goto(u, "resizeSet") /\ UNCHANGED <<lock, arg>>
     \/ /\ ~off \/ MayFail("set")
        /\ Release /\ Return(u)
  /\ UNCHANGED <<data, stage, slot, ctx>>
  /\ Watch(u)

\* Mutant of ResizeSet: the attributes are not given back to the device.
ResizeSetDefaults(u, n) ==
  /\ pc[u] = "resizeSet"
  /\ n <= obj.num_buffers
  /\ obj' = [obj EXCEPT !.size = arg[u], !.num_buffers = n, !.mappedbufcount = n,
                        !.dataReady = FALSE, !.controlReady = TRUE,
                        !.attributes_changed = FALSE]
  /\ drv' = [drv EXCEPT !.attr = NewAttributes, !.queued = {}]
  /\ Release /\ Return(u)
  /\ UNCHANGED <<data, stage, slot, ctx>>
  /\ Watch(u)

\* resizeInput(): the device is set up again with n buffers; VIDIOC_REQBUFS
\* forgets what was queued.
ResizeSet(u, n) ==
  /\ pc[u] = "resizeSet"
  /\ n <= obj.num_buffers
  /\ \/ /\ obj' = [obj EXCEPT !.size = arg[u], !.num_buffers = n, !.mappedbufcount = n,
                              !.dataReady = FALSE, !.controlReady = TRUE,
                              !.attributes_changed = FALSE]
        /\ drv' = [drv EXCEPT !.attr = saved[u], !.queued = {}]
     \/ /\ MayFail("req")
        /\ obj' \in {obj, [obj EXCEPT !.size = arg[u]]}
        /\ drv' \in {drv, [drv EXCEPT !.attr = saved[u]]}
  /\ Release /\ Return(u)
  /\ UNCHANGED <<data, stage, slot, ctx>>
  /\ Watch(u)

\* data_setParameter(OPTIMAL_QBUF_CNT, n): no mutex.
SetOptimal(u, n) ==
  /\ pc[u] = "idle" /\ ctx = "attached"
  /\ obj' = [obj EXCEPT !.optimalQBufCnt = n]
  /\ UNCHANGED <<data, stage, lock, drv, slot, ctx, pc, arg, saved, overtaken>>

\* data_setParameter(CACHEABLE_BUFFERS or MAINTAIN_COHERENCY): no mutex.
SetCacheable(u) ==
  /\ pc[u] = "idle" /\ ctx = "attached"
  /\ obj' = [obj EXCEPT !.attributes_changed = TRUE]
  /\ UNCHANGED <<data, stage, lock, drv, slot, ctx, pc, arg, saved, overtaken>>

\* setCrop(): nothing to do for the crop window it has already.
SetCrop(u, c) == c # data.crop /\ Start(u, "cropLock", c)

\* setCrop(): reads the position back and stops the stream.
CropBegin(u, off) ==
  /\ pc[u] = "crop"
  /\ \/ /\ off
        /\ obj' = [Disable(off) EXCEPT !.dataReady = TRUE]
        /\ drv' = DriverOff(off)
        /\ saved' = [saved EXCEPT ![u] = drv.attr]
        /\ Goto(u, "cropSet") /\ UNCHANGED <<lock, arg>>
     \/ /\ ~off \/ MayFail("set")
        /\ obj' = [obj EXCEPT !.dataReady = TRUE]
        /\ Release /\ Return(u) /\ UNCHANGED drv
  /\ UNCHANGED <<data, stage, slot, ctx>>
  /\ Watch(u)

\* setCrop(): the crop window, and the position as it was read.
CropSet(u) ==
  /\ pc[u] = "cropSet"
  /\ data' = [data EXCEPT !.crop = arg[u]]
  /\ \/ drv' = [drv EXCEPT !.attr.crop = arg[u], !.attr.pos = saved[u].pos]
     \/ MayFail("set") /\ drv' \in {drv, [drv EXCEPT !.attr.crop = arg[u]]}
  /\ Release /\ Return(u)
  /\ UNCHANGED <<obj, stage, slot, ctx, overtaken>>

\* dequeueBuffer() takes the mutex.
DequeueBuffer(u) == Open /\ Acquire(u, "idle", "dq")

\* Mutant of DequeueRefused: it returns with the mutex.
DequeueRefusedWithLock(u) ==
  /\ pc[u] = "dq"
  /\ ~obj.streamEn \/ obj.qd_buf_count < obj.optimalQBufCnt
  /\ Return(u)
  /\ UNCHANGED <<obj, data, stage, lock, drv, slot, ctx, overtaken>>

\* dequeueBuffer(): not streaming, or too few buffers queued.
DequeueRefused(u) ==
  /\ pc[u] = "dq"
  /\ ~obj.streamEn \/ obj.qd_buf_count < obj.optimalQBufCnt
  /\ Release /\ Return(u)
  /\ UNCHANGED <<obj, data, stage, drv, slot, ctx, overtaken>>

\* v4l2_overlay_dq_buf(): poll() says that a buffer is there.
DequeuePoll(u) ==
  /\ pc[u] = "dq"
  /\ obj.streamEn /\ obj.qd_buf_count >= obj.optimalQBufCnt
  /\ Ready
  /\ Goto(u, "dqbuf")
  /\ UNCHANGED <<obj, data, stage, lock, drv, slot, ctx, arg, saved, overtaken>>

\* dequeueBuffer(): poll() times out after 67 ms, or VIDIOC_DQBUF fails; the
\* stream is stopped, to be started by the next queueBuffer().
DequeueFails(u, off) ==
  /\ \/ /\ pc[u] = "dq"
        /\ obj.streamEn /\ obj.qd_buf_count >= obj.optimalQBufCnt
        /\ ~Ready \/ MayFail("dq")
     \/ pc[u] = "dqbuf" /\ (~drv.on \/ MayFail("dq"))
  /\ obj' = Disable(off)
  /\ drv' = DriverOff(off)
  /\ Release /\ Return(u)
  /\ UNCHANGED <<data, stage, slot, ctx>>
  /\ Watch(u)

\* dequeueBuffer(): VIDIOC_DQBUF, which blocks while no buffer is ready.
Dequeued(u, b) ==
  /\ pc[u] = "dqbuf" /\ Ready /\ b \in drv.queued
  /\ drv' = [drv EXCEPT !.queued = @ \ {b}]
  /\ obj' = [obj EXCEPT !.qd_buf_count = @ - 1]
  /\ Release /\ Return(u)
  /\ UNCHANGED <<data, stage, slot, ctx>>
  /\ Watch(u)

\* queueBuffer(): the index is checked before the mutex is taken.
QueueBuffer(u, b) == b < obj.num_buffers /\ Start(u, "qLock", b)

\* queueBuffer(): VIDIOC_QBUF refuses a buffer it has or does not know.
QueueFails(u) ==
  /\ pc[u] = "q"
  /\ arg[u] \in drv.queued \/ arg[u] >= obj.num_buffers \/ MayFail("q")
  /\ Release /\ Return(u)
  /\ UNCHANGED <<obj, data, stage, drv, slot, ctx, overtaken>>

\* queueBuffer(): VIDIOC_QBUF, the count, dataReady if the stream is off.
Queued(u) ==
  LET n == IF obj.qd_buf_count < obj.num_buffers THEN 1 ELSE 0
      o == [obj EXCEPT !.qd_buf_count = @ + n]
  IN  /\ pc[u] = "q"
      /\ arg[u] \notin drv.queued /\ arg[u] < obj.num_buffers
      /\ drv' = [drv EXCEPT !.queued = @ \cup {arg[u]}]
      /\ IF obj.streamEn
         THEN obj' = o /\ Release /\ Return(u)
         ELSE /\ obj' = [o EXCEPT !.dataReady = TRUE]
              /\ Goto(u, "qOn")
              /\ UNCHANGED <<lock, arg, saved>>
      /\ UNCHANGED <<data, stage, slot, ctx>>
  /\ Watch(u)

\* enable_streaming_locked(), from queueBuffer(), which ignores its result.
EnableStreaming(u) ==
  /\ pc[u] = "qOn"
  /\ \/ /\ obj.dataReady
        /\ obj' = [obj EXCEPT !.streamEn = TRUE]
        /\ drv' = [drv EXCEPT !.on = TRUE]
     \/ /\ ~obj.dataReady \/ MayFail("on")
        /\ obj' = IF obj.dataReady THEN [obj EXCEPT !.streamEn = FALSE] ELSE obj
        /\ UNCHANGED drv
  /\ Release /\ Return(u)
  /\ UNCHANGED <<data, stage, slot, ctx>>
  /\ Watch(u)

\* data_close(): the client closes when its other threads have left.
DataClose(u) ==
  /\ ctx = "attached" /\ \A v \in Users : pc[v] = "idle"
  /\ Acquire(u, "idle", "close")

\* Mutant of CloseStop: the buffers are unmapped under the running stream.
CloseStopNever(u, off) ==
  /\ pc[u] = "close"
  /\ Release /\ Goto(u, "closeShared")
  /\ UNCHANGED <<obj, data, stage, drv, slot, ctx, arg, saved>>
  /\ Watch(u)

\* data_close(): stops the stream, unmaps the buffers.
CloseStop(u, off) ==
  /\ pc[u] = "close"
  /\ obj' = Disable(off)
  /\ drv' = DriverOff(off)
  /\ Release /\ Goto(u, "closeShared")
  /\ UNCHANGED <<data, stage, slot, ctx, arg, saved>>
  /\ Watch(u)

\* data_close(): dataReady, then close_shared_overlayobj(), without the mutex.
CloseShared(u) ==
  /\ pc[u] = "closeShared"
  /\ obj' = LastSide([obj EXCEPT !.dataReady = FALSE])
  /\ ctx' = "none"
  /\ Return(u)
  /\ UNCHANGED <<data, stage, lock, drv, slot, overtaken>>

-----------------------------------------------------------------------------
\* Bounds: no call sets the position or the rotation of a new overlay again.
ControlCall ==
  \/ \E s \in Sizes : CreateOverlay(s)
  \/ \E p \in Positions \ {NoPos} : SetPosition(p)
  \/ \E r \in Rotations \ {NoRot} : SetParameter(r)
  \/ Commit
  \/ DestroyOverlay

ControlStep ==
  \/ Acquire(Ctl, "posLock", "pos")
  \/ PositionSet
  \/ CommitNothing
  \/ \E off \in OffResults : CommitBegin(off)
  \/ CommitSet
  \/ CommitEnd
  \/ \E off \in OffResults : DestroyStop(off)
  \/ DestroyShared

DataCall(u) ==
  \/ DequeueBuffer(u)
  \/ \E b \in Buffers : QueueBuffer(u, b)
  \/ /\ u \notin Feeders
     /\ \/ Initialize(u)
        \/ \E s \in Sizes : ResizeSame(u, s) \/ ResizeInput(u, s)
        \/ \E n \in Optimal : SetOptimal(u, n)
        \/ SetCacheable(u)
        \/ \E c \in Crops : SetCrop(u, c)
        \/ DataClose(u)

DataStep(u) ==
  \/ InitializeShared(u)
  \/ SameTest(u) \/ SameOff(u) \/ SameEn(u) \/ SameCount(u)
  \/ Acquire(u, "resizeLock", "resize")
  \/ \E off \in OffResults : ResizeBegin(u, off)
  \/ \E n \in 1..Requested : ResizeSet(u, n)
  \/ Acquire(u, "cropLock", "crop")
  \/ \E off \in OffResults : CropBegin(u, off)
  \/ CropSet(u)
  \/ DequeueRefused(u)
  \/ DequeuePoll(u)
  \/ \E off \in OffResults : DequeueFails(u, off)
  \/ \E b \in Buffers : Dequeued(u, b)
  \/ Acquire(u, "qLock", "q")
  \/ QueueFails(u)
  \/ Queued(u)
  \/ EnableStreaming(u)
  \/ \E off \in OffResults : CloseStop(u, off)
  \/ CloseShared(u)

Next ==
  \/ ControlCall
  \/ ControlStep
  \/ \E u \in Users : DataCall(u) \/ DataStep(u)

Step(t) == IF t = Ctl THEN ControlStep ELSE DataStep(t)

Spec == Init /\ [][Next]_vars

\* A thread that has the mutex and can run, runs.
FairSpec == Spec /\ WF_vars(\E t \in Threads : pc[t] \in HoldingPCs /\ Step(t))

-----------------------------------------------------------------------------
(* Properties.                                                             *)

TypeOK ==
  /\ obj \in Objects
  /\ data \in Attributes
  /\ stage \in [pos : Positions, rot : Rotations]
  /\ lock \in Threads \cup {None}
  /\ drv \in [on : BOOLEAN, queued : SUBSET Buffers, attr : Attributes]
  /\ slot \in BOOLEAN
  /\ ctx \in {"none", "offered", "attaching", "attached"}
  /\ pc \in [Threads -> WaitingPCs \cup HoldingPCs \cup OtherPCs]
  /\ arg \in [Threads -> Buffers \cup Sizes \cup Crops \cup {None}]
  /\ saved \in [Threads -> Attributes]
  /\ overtaken \in BOOLEAN

\* "Last side deallocated releases the mutex, otherwise the remaining side will
\* deadlock trying to use an already released mutex" (line 235): as long as a
\* side has the object, its mutex lives.
MutexOutlivesUse == slot \/ ctx = "attached" => obj.alive

\* With the mutex free, streamEn is what the device does, and qd_buf_count is
\* the number of buffers the device has: the count dequeueBuffer() trusts is
\* neither behind nor ahead of the device after any mix of resizes, commits,
\* crops and calls of either side, those that failed in the device included.
\* Two cases are out: VIDIOC_STREAMON fails (queueBuffer() ignores it, and
\* leaves buffers queued that no later stop gives back), or a same-size resize
\* overlaps another thread on the stream (overtaken), as it takes no mutex.
CountMatchesDriver ==
  lock = None /\ ~overtaken /\ (\A u \in Users : pc[u] \notin StoppingPCs) =>
    /\ obj.streamEn = drv.on
    /\ obj.qd_buf_count = Cardinality(drv.queued)

\* "Need to count Qd buffers to be sure we don't block DQ'ing when exiting"
\* (TIOverlay.h, line 131): the thread that calls VIDIOC_DQBUF after poll(), with
\* the mutex, finds a buffer or a stopped stream; it does not wait in the kernel.
DqNeverBlocks == \A u \in Users : pc[u] = "dqbuf" => Ready \/ ~drv.on

\* With the mutex free, the device shows the attributes of the object: what
\* resizeInput(), setCrop() and commit() read back and write again undoes
\* nothing that the other side has set in between.
AttributesApplied ==
  lock = None /\ slot => drv.attr = data

\* Buffers are allocated anew only while the device is not streaming from them,
\* unless a same-size resize has left streamEn behind the device.
ReallocateQuiet ==
  [][(\E u \in Users : pc[u] = "resizeSet" /\ pc'[u] = "idle")
       => ~drv.on \/ overtaken]_vars

\* No thread keeps the mutex: the other process waits for it.
LockReleased == lock # None ~> lock = None

-----------------------------------------------------------------------------
Switch == INSTANCE StreamSwitch
  WITH Frames <- Buffers, source <- ctx = "attached", on <- drv.on, held <- drv.queued

\* The two sides and the device together keep what StreamSwitch promises, in
\* every step up to the first one in which a same-size resize is overtaken.
ImplementsSwitch == Switch!Init /\ [][Switch!Next \/ overtaken']_(Switch!vars)
=============================================================================
