----------------------------- MODULE CameraHal -----------------------------
(***************************************************************************)
(* libcamera (CameraHal.cpp): the preview thread with its command and      *)
(* answer queues, the frame buffers, which the overlay allocates and which *)
(* circulate between the camera driver, the display and the video encoder, *)
(* and the calls of the camera service and of the encoder that meet the    *)
(* preview thread there.                                                   *)
(*                                                                         *)
(* A buffer is in the camera's queue, in the overlay's queue, with the     *)
(* encoder, or in several of them at once: the HAL keeps two arrays of     *)
(* flags and two counters to know.  nCameraBuffersQueued is left out: it   *)
(* only cuts a loop short that would do nothing.  mCounterSkipFrame is     *)
(* always 0, since mSkipFrameNumber never changes.  The video telephony    *)
(* mode (which copies its frames), zoom, formats and the commands no call  *)
(* sends (PREVIEW_CAF_START, PREVIEW_CAF_STOP, PREVIEW_CAPTURE_CANCEL and  *)
(* PREVIEW_FPS) are left out too.                                          *)
(***************************************************************************)
EXTENDS Integers, Sequences, FiniteSets

CONSTANTS
  NumBuffers,     \* what getBufferCount() answers
  EncoderFrames,  \* ENCODE_BUFFER_FRAMES
  Optimal,        \* NUM_BUFFERS_TO_BE_QUEUED_FOR_OPTIMAL_PERFORMANCE
  None,
  Modes,          \* "samsung" or "third": mCamMode is Trd_PART
  Faults,         \* calls that may fail
  Races           \* windows the callers are let into: see MayCall

FaultyCalls ==
  {"configure", "start", "stop", "thread", "dq", "qbuf", "show", "on", "hide", "map", "picture"}
Windows == {"overlay", "late"}

ASSUME CameraAssumption ==
  /\ NumBuffers \in Nat \ {0} /\ EncoderFrames \in Nat /\ Optimal \in Nat \ {0}
  /\ None \notin 0 .. NumBuffers
  /\ Modes \subseteq {"samsung", "third"} /\ Modes # {}
  /\ Faults \subseteq FaultyCalls
  /\ Races \subseteq Windows

Buffers == 0 .. NumBuffers - 1

VARIABLES
  mPreviewRunning, mFalsePreview,
  mOverlay,        \* is there an overlay?
  rec,             \* recording: its flags and iOutStandingBuffersWithEncoder
  mode,            \* mCamMode
  cam,             \* the V4L2 camera; and, as history, in cam.lost the buffers
                   \* that nobody is left to queue to it
  disp,            \* the overlay's stream
  dss,             \* buffers_queued_to_dss
  nOverlayBuffersQueued, mDSSActive,
  driver,          \* buffers_queued_to_camera_driver
  cmdQ, ackQ,      \* previewThreadCommandQ, previewThreadAckQ
  pc, frame,       \* the preview thread, and the frame it handles
  app,             \* the camera service: "idle", "closed" or what it awaits
  enc, rel,        \* frames the encoder reads, and the one it gives back
  pic              \* the picture thread

halVars == <<mPreviewRunning, mFalsePreview, mOverlay, rec, mode>>
dssVars == <<dss, nOverlayBuffersQueued, mDSSActive>>
queues  == <<cmdQ, ackQ>>
vars == <<halVars, cam, disp, dssVars, driver, queues, pc, frame, app, enc, rel, pic>>

NoFrame == [b |-> None, back |-> FALSE]
NoRelease == [b |-> None, at |-> "idle"]
NotRecording ==
  [enabled |-> FALSE, recorded |-> FALSE, counted |-> FALSE, mapped |-> FALSE,
   outstanding |-> 0]
ClosedCamera == [open |-> FALSE, on |-> "off", queued |-> {}, lost |-> {}]
DisplayIdle == [on |-> FALSE, queued |-> {}]

Commands == {"PREVIEW_START", "PREVIEW_STOP", "PREVIEW_CAPTURE", "PREVIEW_KILL"}
Answers == {"PREVIEW_ACK", "PREVIEW_NACK", "CAPTURE_ACK", "CAPTURE_NACK"}

\* What the constructor sets; it leaves buffers_queued_to_camera_driver as it
\* finds the memory.
Init ==
  /\ mPreviewRunning = FALSE /\ mFalsePreview = FALSE /\ mOverlay = FALSE
  /\ rec = NotRecording
  /\ mode \in Modes
  /\ cam = [ClosedCamera EXCEPT !.open = TRUE]
  /\ disp = DisplayIdle
  /\ dss = {} /\ nOverlayBuffersQueued = 0 /\ mDSSActive = FALSE
  /\ driver \in SUBSET Buffers
  /\ cmdQ = <<>> /\ ackQ = <<>>
  /\ pc = "loop" /\ frame = NoFrame
  /\ app = "idle"
  /\ enc = {} /\ rel = NoRelease
  /\ pic = "idle"

-----------------------------------------------------------------------------
(* The devices and the helpers.                                            *)

MayFail(call) == call \in Faults

\* VIDIOC_QBUF refuses a buffer that is queued already, and may fail for
\* another reason: then the callers only log, and the buffer is lost.
Accepts(b) == cam.open /\ b \notin cam.queued
QbufResults(b) ==
  IF ~Accepts(b) THEN {FALSE} ELSE IF MayFail("qbuf") THEN BOOLEAN ELSE {TRUE}
Queued(S) == [cam EXCEPT !.queued = @ \cup S, !.lost = @ \ S]
Lost(b) == IF Accepts(b) THEN [cam EXCEPT !.lost = @ \cup {b}] ELSE cam

\* SurfaceFlinger's side of the overlay stops the stream: its commit().
DisplayOff ==
  /\ disp.on
  /\ disp' = DisplayIdle
  /\ UNCHANGED <<halVars, cam, dssVars, driver, queues, pc, frame, app, enc, rel, pic>>

\* MessageQueue::put() on the two pipes.
Ask(c) == cmdQ' = Append(cmdQ, c) /\ app' = c
Answer(a) == ackQ' = Append(ackQ, a)

Taking(c) == pc \in {"poll", "get"} /\ cmdQ # <<>> /\ Head(cmdQ) = c

\* CameraDestroy(): the camera is closed and the overlay destroyed.
Destroy ==
  /\ cam' = ClosedCamera
  /\ mOverlay' = FALSE
  /\ IF mOverlay
     THEN /\ rec' = [rec EXCEPT !.mapped = FALSE]
          /\ disp' = DisplayIdle /\ dss' = {} /\ nOverlayBuffersQueued' = 0
     ELSE UNCHANGED <<rec, disp, dss, nOverlayBuffersQueued>>

\* A camera that has refused to stop: it still delivers frames.
Stuck == IF cam.on = "preview" THEN [cam EXCEPT !.on = "stuck"] ELSE cam
Delivers == cam.on \in {"preview", "stuck"}

\* CameraStop() with VIDIOC_STREAMOFF answering ok: the camera gives its
\* buffers back; a recorded overlay goes.  It does nothing for a false preview.
CameraStop(ok) ==
  IF mFalsePreview THEN UNCHANGED <<cam, rec, dss, nOverlayBuffersQueued, disp, mOverlay>>
  ELSE /\ cam' = IF ok THEN [cam EXCEPT !.on = "off", !.queued = {}, !.lost = {}] ELSE Stuck
       /\ dss' = IF rec.counted THEN {} ELSE dss
       /\ IF mOverlay /\ rec.recorded
          THEN /\ mOverlay' = FALSE /\ disp' = DisplayIdle /\ nOverlayBuffersQueued' = 0
               /\ rec' = [rec EXCEPT !.mapped = FALSE, !.recorded = FALSE]
          ELSE /\ rec' = [rec EXCEPT !.mapped = FALSE]
               /\ UNCHANGED <<mOverlay, disp, nOverlayBuffersQueued>>

\* What VIDIOC_STREAMOFF may answer.  Bound: it does not refuse twice in a row.
StopResults ==
  IF mFalsePreview THEN {TRUE}
  ELSE IF ~cam.open THEN {FALSE}
  ELSE IF MayFail("stop") /\ cam.on # "stuck" THEN BOOLEAN
  ELSE {TRUE}

-----------------------------------------------------------------------------
(* The preview thread: a frame.                                            *)

\* previewThread(): a frame, then a look at the commands; or a wait for one.
Loop ==
  /\ pc = "loop"
  /\ pc' = IF ~mPreviewRunning THEN "get" ELSE IF mOverlay THEN "dq" ELSE "poll"
  /\ UNCHANGED <<halVars, cam, disp, dssVars, driver, queues, frame, app, enc, rel, pic>>

NoCommand ==
  /\ pc = "poll" /\ cmdQ = <<>>
  /\ pc' = "loop"
  /\ UNCHANGED <<halVars, cam, disp, dssVars, driver, queues, frame, app, enc, rel, pic>>

\* Mutant of ToEncoder: the limit is gone.
ToEncoderUnlimited == rec.enabled

\* nextPreview(): is the frame one for the encoder?  Read without the lock.
ToEncoder == rec.enabled /\ rec.outstanding < EncoderFrames

\* nextPreview(): VIDIOC_DQBUF, which waits for a frame.
DqFrame(b) ==
  /\ pc = "dq" /\ Delivers /\ b \in cam.queued
  /\ cam' = [cam EXCEPT !.queued = @ \ {b}]
  /\ driver' = driver \ {b}
  /\ frame' = [b |-> b, back |-> ~ToEncoder]
  /\ pc' = IF ToEncoder THEN "count" ELSE "show"
  /\ UNCHANGED <<halVars, disp, dssVars, queues, app, enc, rel, pic>>

\* nextPreview(): VIDIOC_DQBUF fails, and the error callback is called.
DqFails ==
  /\ pc = "dq"
  /\ ~Delivers \/ MayFail("dq")
  /\ pc' = "poll"
  /\ UNCHANGED <<halVars, cam, disp, dssVars, driver, queues, frame, app, enc, rel, pic>>

\* nextPreview(): under mRecordingLock.
CountFrame ==
  /\ pc = "count"
  /\ rec' = [rec EXCEPT !.outstanding = @ + 1]
  /\ pc' = "send"
  /\ UNCHANGED <<mPreviewRunning, mFalsePreview, mOverlay, mode, cam, disp, dssVars,
                 driver, queues, frame, app, enc, rel, pic>>

\* nextPreview(): the encoder's callback.
SendFrame ==
  /\ pc = "send"
  /\ enc' = enc \cup {frame.b}
  /\ pc' = "show"
  /\ UNCHANGED <<halVars, cam, disp, dssVars, driver, queues, frame, app, rel, pic>>

\* Mutant of Recount: the new buffer's flag is dropped with the others.
RecountAll(b, n) == IF n # nOverlayBuffersQueued + 1 THEN {} ELSE dss \cup {b}

\* nextPreview(): the flags after mOverlay->queueBuffer(b) has answered that n
\* buffers are queued: on a disagreement only the new one is believed.
Recount(b, n) == IF n # nOverlayBuffersQueued + 1 THEN {b} ELSE dss \cup {b}

\* nextPreview(): the frame is queued to the overlay, unless it is flagged.  A
\* stream that is off is switched on; queueBuffer() does not tell when that fails.
ShowFrame ==
  /\ pc = "show" /\ mOverlay /\ frame.b \notin dss /\ frame.b \notin disp.queued
  /\ \E on \in BOOLEAN :
       /\ on \/ (~disp.on /\ MayFail("on"))
       /\ disp' = [on |-> on, queued |-> disp.queued \cup {frame.b}]
  /\ dss' = Recount(frame.b, Cardinality(disp'.queued))
  /\ nOverlayBuffersQueued' =
       nOverlayBuffersQueued + 1 - Cardinality((dss \cup {frame.b}) \ dss')
  /\ pc' = IF nOverlayBuffersQueued' >= Optimal THEN "hide" ELSE "back"
  /\ UNCHANGED <<halVars, cam, mDSSActive, driver, queues, frame, app, enc, rel, pic>>

\* nextPreview(): the frame is flagged, or queueBuffer() fails, or there is no
\* overlay to show it on.
ShowNothing ==
  /\ pc = "show"
  /\ ~mOverlay \/ frame.b \in dss \cup disp.queued \/ MayFail("show")
  /\ pc' = IF mOverlay /\ nOverlayBuffersQueued >= Optimal THEN "hide" ELSE "back"
  /\ UNCHANGED <<halVars, cam, disp, dssVars, driver, queues, frame, app, enc, rel, pic>>

\* nextPreview(): mOverlay->dequeueBuffer() gives a buffer back.
HideFrame(b) ==
  /\ pc = "hide" /\ disp.on /\ Cardinality(disp.queued) >= Optimal
  /\ b \in disp.queued
  /\ disp' = [disp EXCEPT !.queued = @ \ {b}]
  /\ dss' = dss \ {b}
  /\ nOverlayBuffersQueued' = nOverlayBuffersQueued - 1
  /\ mDSSActive' = TRUE
  /\ pc' = "back"
  /\ UNCHANGED <<halVars, cam, driver, queues, frame, app, enc, rel, pic>>

\* nextPreview(): "we need to find out if this buffer was queued after overlay
\* called stream off".
Reclaimed(d) == dss \ d.queued

\* nextPreview(): dequeueBuffer() fails: too few buffers, no stream, or the
\* driver, whose failure stops the stream.  The first time, buffers are
\* reclaimed.
HideFails ==
  /\ pc = "hide"
  /\ \/ /\ ~disp.on \/ Cardinality(disp.queued) < Optimal
        /\ UNCHANGED disp
     \/ MayFail("hide") /\ disp' = DisplayIdle
  /\ IF mDSSActive
     THEN /\ dss' = dss \ Reclaimed(disp')
          /\ nOverlayBuffersQueued' = nOverlayBuffersQueued - Cardinality(Reclaimed(disp'))
          /\ mDSSActive' = FALSE
     ELSE UNCHANGED dssVars
  /\ pc' = "back"
  /\ UNCHANGED <<halVars, cam, driver, queues, frame, app, enc, rel, pic>>

\* nextPreview(): a frame the encoder has not got goes back to the camera,
\* even while the overlay shows it; or VIDIOC_QBUF fails.
FrameBack ==
  /\ pc = "back"
  /\ IF frame.back
     THEN \E ok \in QbufResults(frame.b) :
            /\ cam' = IF ok THEN Queued({frame.b}) ELSE Lost(frame.b)
            /\ driver' = IF ok THEN driver \cup {frame.b} ELSE driver
     ELSE UNCHANGED <<cam, driver>>
  /\ frame' = NoFrame
  /\ pc' = "poll"
  /\ UNCHANGED <<halVars, disp, dssVars, queues, app, enc, rel, pic>>

-----------------------------------------------------------------------------
(* The preview thread: the commands.                                       *)

\* Mutant of Refuse: the break after the answer is missing.
RefuseTwice(yes, no) ==
  /\ IF mode = "third" THEN Destroy ELSE UNCHANGED <<cam, mOverlay, rec, disp, dss, nOverlayBuffersQueued>>
  /\ ackQ' = Append(Append(ackQ, IF mode = "third" THEN no ELSE yes), no)
  /\ pc' = "loop"

\* A command fails: a third party's camera is destroyed and the answer is no;
\* Samsung's application gets an error callback, and the answer is yes.
Refuse(yes, no) ==
  /\ IF mode = "third" THEN Destroy ELSE UNCHANGED <<cam, mOverlay, rec, disp, dss, nOverlayBuffersQueued>>
  /\ Answer(IF mode = "third" THEN no ELSE yes)
  /\ pc' = "loop"

\* PREVIEW_START while the preview runs.
StartAgain ==
  /\ Taking("PREVIEW_START") /\ mPreviewRunning
  /\ cmdQ' = Tail(cmdQ)
  /\ mFalsePreview' = FALSE
  /\ Answer("PREVIEW_NACK")
  /\ pc' = "loop"
  /\ UNCHANGED <<mPreviewRunning, mOverlay, rec, mode, cam, disp, dssVars, driver,
                 frame, app, enc, rel, pic>>

\* PREVIEW_START: CameraConfigure(), and CameraStart() up to VIDIOC_REQBUFS,
\* which frees the buffers the camera has and refuses while it streams.
StartReset ==
  /\ Taking("PREVIEW_START") /\ ~mPreviewRunning
  /\ cam.open /\ cam.on = "off"
  /\ cmdQ' = Tail(cmdQ)
  /\ mFalsePreview' = FALSE
  /\ nOverlayBuffersQueued' = 0
  /\ cam' = [cam EXCEPT !.queued = {}, !.lost = {}]
  /\ pc' = "start"
  /\ UNCHANGED <<mPreviewRunning, mOverlay, rec, mode, disp, dss, mDSSActive, driver,
                 ackQ, frame, app, enc, rel, pic>>

\* PREVIEW_START: CameraConfigure() or VIDIOC_REQBUFS fails.
StartFails ==
  /\ Taking("PREVIEW_START") /\ ~mPreviewRunning
  /\ ~cam.open \/ cam.on # "off" \/ MayFail("configure")
  /\ cmdQ' = Tail(cmdQ)
  /\ mFalsePreview' = FALSE
  /\ Refuse("PREVIEW_ACK", "PREVIEW_NACK")
  /\ UNCHANGED <<mPreviewRunning, mode, mDSSActive, driver, frame, app, enc, rel, pic>>

\* Mutant of ForCamera: one index too many.
ForCameraOneMore == 0 .. NumBuffers \ disp.queued

\* CameraStart(): the buffers it queues to the camera, "because it is being
\* held by Overlay" goes for the others.
ForCamera == Buffers \ disp.queued

\* CameraStart(): every buffer is queued to the camera or counted as the
\* overlay's, and the camera streams.  When the overlay gives one of those back,
\* nextPreview() only drops its flag: the camera does without it.
StartQueue ==
  /\ pc = "start"
  /\ ForCamera \cap cam.queued = {}
  /\ dss' = Buffers \ ForCamera
  /\ nOverlayBuffersQueued' = Cardinality(dss')
  /\ cam' = [Queued(ForCamera) EXCEPT !.on = "preview", !.lost = Buffers \ ForCamera]
  /\ driver' = driver \cup ForCamera
  /\ mPreviewRunning' = TRUE
  /\ Answer("PREVIEW_ACK")
  /\ pc' = "loop"
  /\ UNCHANGED <<mFalsePreview, mOverlay, rec, mode, disp, mDSSActive, cmdQ, frame,
                 app, enc, rel, pic>>

\* CameraStart(): VIDIOC_QBUF fails at buffer k, which the camera has already
\* or for another reason; or, after the last buffer, VIDIOC_STREAMON fails.  The
\* buffers before k stay queued.  The flags do not outlive the overlay a third
\* party's application loses.
StartStops(k) ==
  LET done    == ForCamera \cap 0 .. k - 1
      overlay == (Buffers \cap 0 .. k) \ ForCamera
  IN  /\ pc = "start"
      /\ done \cap cam.queued = {}
      /\ k \in ForCamera \cup {NumBuffers}
      /\ k \in cam.queued \/ MayFail("start")
      /\ driver' = driver \cup done
      /\ IF mode = "third"
         THEN Destroy
         ELSE /\ cam' = Queued(done)
              /\ dss' = (dss \ 0 .. k) \cup overlay
              /\ nOverlayBuffersQueued' = Cardinality(overlay)
              /\ UNCHANGED <<mOverlay, rec, disp>>
      /\ Answer(IF mode = "third" THEN "PREVIEW_NACK" ELSE "PREVIEW_ACK")
      /\ pc' = "loop"
      /\ UNCHANGED <<mPreviewRunning, mFalsePreview, mode, mDSSActive, cmdQ, frame,
                     app, enc, rel, pic>>

\* CameraStop() fails and, for a third party, CameraDestroy() follows.
StopFailed ==
  IF mode = "third"
  THEN /\ cam' = ClosedCamera /\ mOverlay' = FALSE
       /\ rec' = [rec EXCEPT !.mapped = FALSE, !.recorded = @ /\ ~mOverlay]
       /\ dss' = IF mOverlay \/ rec.counted THEN {} ELSE dss
       /\ nOverlayBuffersQueued' = IF mOverlay THEN 0 ELSE nOverlayBuffersQueued
       /\ disp' = IF mOverlay THEN DisplayIdle ELSE disp
  ELSE CameraStop(FALSE)

\* PREVIEW_STOP.
StopCommand(ok) ==
  /\ Taking("PREVIEW_STOP") /\ mPreviewRunning /\ ok \in StopResults
  /\ cmdQ' = Tail(cmdQ)
  /\ IF ok THEN CameraStop(TRUE) ELSE StopFailed
  /\ Answer(IF ~ok /\ mode = "third" THEN "PREVIEW_NACK" ELSE "PREVIEW_ACK")
  /\ mPreviewRunning' = FALSE /\ mFalsePreview' = FALSE
  /\ pc' = "loop"
  /\ UNCHANGED <<mode, mDSSActive, driver, frame, app, enc, rel, pic>>

\* Mutant of StopAgain: no answer.
StopAgainSilent ==
  /\ Taking("PREVIEW_STOP") /\ ~mPreviewRunning
  /\ cmdQ' = Tail(cmdQ)
  /\ pc' = "loop"
  /\ UNCHANGED <<halVars, cam, disp, dssVars, driver, ackQ, frame, app, enc, rel, pic>>

\* PREVIEW_STOP without a preview.
StopAgain ==
  /\ Taking("PREVIEW_STOP") /\ ~mPreviewRunning
  /\ cmdQ' = Tail(cmdQ)
  /\ Answer("PREVIEW_NACK")
  /\ pc' = "loop"
  /\ UNCHANGED <<halVars, cam, disp, dssVars, driver, frame, app, enc, rel, pic>>

\* PREVIEW_CAPTURE: the preview stops and the picture thread starts.
CaptureCommand ==
  /\ Taking("PREVIEW_CAPTURE")
  /\ mPreviewRunning => TRUE \in StopResults
  /\ cmdQ' = Tail(cmdQ)
  /\ IF mPreviewRunning THEN CameraStop(TRUE)
     ELSE UNCHANGED <<cam, rec, dss, nOverlayBuffersQueued, disp, mOverlay>>
  /\ mPreviewRunning' = FALSE
  /\ pic' = "begin"
  /\ Answer("CAPTURE_ACK")
  /\ pc' = "loop"
  /\ UNCHANGED <<mFalsePreview, mode, mDSSActive, driver, frame, app, enc, rel>>

\* PREVIEW_CAPTURE: CameraStop() fails, and the preview counts as running still.
CaptureStopFails ==
  /\ Taking("PREVIEW_CAPTURE") /\ mPreviewRunning /\ FALSE \in StopResults
  /\ cmdQ' = Tail(cmdQ)
  /\ StopFailed
  /\ Answer(IF mode = "third" THEN "CAPTURE_NACK" ELSE "CAPTURE_ACK")
  /\ pc' = "loop"
  /\ UNCHANGED <<mPreviewRunning, mFalsePreview, mode, mDSSActive, driver, frame, app,
                 enc, rel, pic>>

\* PREVIEW_CAPTURE: the picture thread cannot be created.
CaptureThreadFails ==
  /\ Taking("PREVIEW_CAPTURE") /\ MayFail("thread")
  /\ mPreviewRunning => TRUE \in StopResults
  /\ cmdQ' = Tail(cmdQ)
  /\ IF mode = "third" THEN (IF mPreviewRunning /\ ~mFalsePreview THEN StopFailed ELSE Destroy)
     ELSE IF mPreviewRunning THEN CameraStop(TRUE)
     ELSE UNCHANGED <<cam, rec, dss, nOverlayBuffersQueued, disp, mOverlay>>
  /\ mPreviewRunning' = FALSE
  /\ Answer("CAPTURE_NACK")
  /\ pc' = "loop"
  /\ UNCHANGED <<mFalsePreview, mode, mDSSActive, driver, frame, app, enc, rel, pic>>

\* PREVIEW_KILL: the thread's last command.
KillCommand(ok) ==
  /\ Taking("PREVIEW_KILL")
  /\ IF mPreviewRunning THEN ok \in StopResults ELSE ok
  /\ cmdQ' = Tail(cmdQ)
  /\ IF mPreviewRunning THEN CameraStop(ok)
     ELSE UNCHANGED <<cam, rec, dss, nOverlayBuffersQueued, disp, mOverlay>>
  /\ mPreviewRunning' = FALSE
  /\ Answer(IF ok THEN "PREVIEW_ACK" ELSE "PREVIEW_NACK")
  /\ pc' = "dead"
  /\ UNCHANGED <<mFalsePreview, mode, mDSSActive, driver, frame, app, enc, rel, pic>>

-----------------------------------------------------------------------------
(* CapturePicture(), in a thread of its own: the camera takes one picture. *)

PictureBegin ==
  /\ pic = "begin"
  /\ \/ /\ cam.open /\ cam.on = "off"
        /\ cam' = [cam EXCEPT !.on = "picture", !.queued = {}, !.lost = {}]
        /\ pic' = "shot"
     \/ /\ ~cam.open \/ cam.on # "off" \/ MayFail("picture")
        /\ pic' = "idle" /\ UNCHANGED cam
  /\ UNCHANGED <<halVars, disp, dssVars, driver, queues, pc, frame, app, enc, rel>>

\* The picture is there and the stream is stopped; after twelve failures of
\* VIDIOC_DQBUF, or one of VIDIOC_STREAMOFF, the stream stays on.
PictureShot ==
  /\ pic = "shot"
  /\ \/ cam' = [cam EXCEPT !.on = "off", !.queued = {}, !.lost = {}]
     \/ MayFail("picture") /\ UNCHANGED cam
  /\ pic' = "idle"
  /\ UNCHANGED <<halVars, disp, dssVars, driver, queues, pc, frame, app, enc, rel>>

-----------------------------------------------------------------------------
(* The calls of the camera service, one at a time.                         *)

\* What a caller outside the HAL waits for before its next call: recording is
\* over, every frame has been given back and the picture has been taken.  The
\* window "late" lets a call in while a frame is on its way to the encoder,
\* "overlay" lets setOverlay() in between two uses of the overlay.
MayCall ==
  /\ app = "idle" /\ ~rec.enabled /\ pic = "idle"
  /\ "late" \notin Races => enc = {} /\ rel = NoRelease /\ pc \notin {"count", "send"}

\* Mutant of StartPreview: it does not look at the overlay.
StartPreviewAnyway ==
  /\ MayCall
  /\ Ask("PREVIEW_START")
  /\ UNCHANGED <<halVars, cam, disp, dssVars, driver, ackQ, pc, frame, enc, rel, pic>>

\* startPreview(): without an overlay the preview only counts as running.
StartPreview ==
  /\ MayCall
  /\ IF mOverlay
     THEN Ask("PREVIEW_START") /\ UNCHANGED <<mPreviewRunning, mFalsePreview>>
     ELSE /\ mPreviewRunning' = TRUE /\ mFalsePreview' = TRUE
          /\ UNCHANGED <<cmdQ, app>>
  /\ UNCHANGED <<mOverlay, rec, mode, cam, disp, dssVars, driver, ackQ, pc, frame,
                 enc, rel, pic>>

\* stopPreview(), takePicture(), and the first part of the destructor.
Command(c) ==
  /\ MayCall
  /\ Ask(c)
  /\ UNCHANGED <<halVars, cam, disp, dssVars, driver, ackQ, pc, frame, enc, rel, pic>>

\* setOverlay(): the old overlay is destroyed; a false preview is restarted.
SetOverlay(o) ==
  /\ MayCall
  /\ "overlay" \notin Races => pc # "hide"
  /\ disp' = DisplayIdle
  /\ dss' = IF mOverlay THEN {} ELSE dss
  /\ nOverlayBuffersQueued' = IF mOverlay THEN 0 ELSE nOverlayBuffersQueued
  /\ mOverlay' = o
  /\ IF o /\ mFalsePreview
     THEN mPreviewRunning' = FALSE /\ Ask("PREVIEW_START")
     ELSE UNCHANGED <<mPreviewRunning, cmdQ, app>>
  /\ UNCHANGED <<mFalsePreview, rec, mode, cam, mDSSActive, driver, ackQ, pc, frame,
                 enc, rel, pic>>

\* startRecording(): a buffer of the overlay has no address, and the maps made
\* for the encoder before are gone.  (When the overlay has no handle, it returns
\* before it has changed anything here.)
StartRecordingFails ==
  /\ MayCall /\ mPreviewRunning /\ mOverlay /\ MayFail("map")
  /\ rec' = [rec EXCEPT !.counted = TRUE, !.mapped = FALSE]
  /\ UNCHANGED <<mPreviewRunning, mFalsePreview, mOverlay, mode, cam, disp, dssVars,
                 driver, queues, pc, frame, app, enc, rel, pic>>

\* startRecording(): the overlay's buffers are mapped for the encoder.
StartRecording ==
  /\ MayCall /\ mPreviewRunning /\ mOverlay
  /\ rec' = [enabled |-> TRUE, recorded |-> TRUE, counted |-> TRUE, mapped |-> TRUE,
             outstanding |-> 0]
  /\ UNCHANGED <<mPreviewRunning, mFalsePreview, mOverlay, mode, cam, disp, dssVars,
                 driver, queues, pc, frame, app, enc, rel, pic>>

\* Mutant of StopRecording: it unmaps the frames.
StopRecordingUnmaps ==
  /\ app = "idle" /\ rec.enabled
  /\ rec' = [rec EXCEPT !.enabled = FALSE, !.mapped = FALSE]
  /\ UNCHANGED <<mPreviewRunning, mFalsePreview, mOverlay, mode, cam, disp, dssVars,
                 driver, queues, pc, frame, app, enc, rel, pic>>

\* stopRecording(): every buffer not flagged as the camera's is queued to it,
\* those the encoder has included; taken are those VIDIOC_QBUF does not refuse.
StopRecording ==
  LET wanted == {b \in Buffers \ driver : Accepts(b)}
  IN  /\ app = "idle" /\ rec.enabled
      /\ rec' = [rec EXCEPT !.enabled = FALSE]
      /\ \E taken \in IF MayFail("qbuf") THEN SUBSET wanted ELSE {wanted} :
           /\ cam' = Queued(taken)
           /\ driver' = driver \cup taken
      /\ UNCHANGED <<mPreviewRunning, mFalsePreview, mOverlay, mode, disp, dssVars,
                     queues, pc, frame, app, enc, rel, pic>>

\* The answer arrives; after PREVIEW_KILL the destructor clears the rest.
TakeAnswer ==
  /\ ackQ # <<>> /\ app \in Commands
  /\ ackQ' = Tail(ackQ)
  /\ IF app = "PREVIEW_KILL"
     THEN /\ app' = "closed"
          /\ mFalsePreview' = FALSE
          /\ rec' = NotRecording
          /\ cam' = ClosedCamera /\ mOverlay' = FALSE /\ disp' = DisplayIdle
     ELSE app' = "idle" /\ UNCHANGED <<mFalsePreview, rec, cam, mOverlay, disp>>
  /\ UNCHANGED <<mPreviewRunning, mode, dssVars, driver, cmdQ, pc, frame, enc, rel, pic>>

\* openCameraHardware() again, in another memory.
Reopen ==
  /\ app = "closed"
  /\ mPreviewRunning' = FALSE /\ mFalsePreview' = FALSE /\ mOverlay' = FALSE
  /\ rec' = NotRecording
  /\ cam' = [ClosedCamera EXCEPT !.open = TRUE]
  /\ disp' = DisplayIdle
  /\ dss' = {} /\ nOverlayBuffersQueued' = 0 /\ mDSSActive' = FALSE
  /\ driver' \in SUBSET Buffers
  /\ cmdQ' = <<>> /\ ackQ' = <<>>
  /\ pc' = "loop" /\ frame' = NoFrame
  /\ app' = "idle"
  /\ UNCHANGED <<mode, enc, rel, pic>>

-----------------------------------------------------------------------------
(* The encoder gives a frame back: releaseRecordingFrame().                *)

\* Under mRecordingLock: the frame is found and counted.
ReleaseFrame(b) ==
  /\ rel = NoRelease /\ b \in enc
  /\ rec' = [rec EXCEPT !.outstanding = @ - 1]
  /\ enc' = enc \ {b}
  /\ rel' = [b |-> b, at |-> "queue"]
  /\ UNCHANGED <<mPreviewRunning, mFalsePreview, mOverlay, mode, cam, disp, dssVars,
                 driver, queues, pc, frame, app, pic>>

\* Mutant of ReleaseQueue: the frame is only counted.
ReleaseQueueNever ==
  /\ rel.at = "queue"
  /\ rel' = NoRelease
  /\ UNCHANGED <<halVars, cam, disp, dssVars, driver, queues, pc, frame, app, enc, pic>>

\* Without the lock: VIDIOC_QBUF, which fails if stopRecording() was first.
ReleaseQueue ==
  /\ rel.at = "queue"
  /\ \E ok \in QbufResults(rel.b) :
       /\ cam' = IF ok THEN Queued({rel.b}) ELSE Lost(rel.b)
       /\ rel' = IF ok THEN [rel EXCEPT !.at = "mark"] ELSE NoRelease
  /\ UNCHANGED <<halVars, disp, dssVars, driver, queues, pc, frame, app, enc, pic>>

ReleaseMark ==
  /\ rel.at = "mark"
  /\ driver' = driver \cup {rel.b}
  /\ rel' = NoRelease
  /\ UNCHANGED <<halVars, cam, disp, dssVars, queues, pc, frame, app, enc, pic>>

-----------------------------------------------------------------------------
PreviewStep ==
  \/ Loop \/ NoCommand
  \/ \E b \in Buffers : DqFrame(b) \/ HideFrame(b)
  \/ \E k \in 0 .. NumBuffers : StartStops(k)
  \/ DqFails \/ CountFrame \/ SendFrame
  \/ ShowFrame \/ ShowNothing \/ HideFails \/ FrameBack
  \/ StartAgain \/ StartReset \/ StartFails \/ StartQueue
  \/ \E ok \in BOOLEAN : StopCommand(ok) \/ KillCommand(ok)
  \/ StopAgain \/ CaptureCommand \/ CaptureStopFails \/ CaptureThreadFails

PictureStep == PictureBegin \/ PictureShot

ServiceCall ==
  \/ StartPreview \/ StartRecording \/ StartRecordingFails \/ StopRecording \/ Reopen
  \/ \E c \in Commands \ {"PREVIEW_START"} : Command(c)
  \/ \E o \in BOOLEAN : SetOverlay(o)

EncoderStep == (\E b \in Buffers : ReleaseFrame(b)) \/ ReleaseQueue \/ ReleaseMark

Next ==
  PreviewStep \/ PictureStep \/ ServiceCall \/ TakeAnswer \/ EncoderStep \/ DisplayOff

Spec == Init /\ [][Next]_vars

\* The preview thread waits for a frame and the camera has no buffer to put one
\* in: VIDIOC_DQBUF does not return.
Starved == pc = "dq" /\ Delivers /\ cam.queued = {}

\* The threads run, a camera with buffers delivers frames, and the encoder gives
\* back what it has; nobody has to call, and VIDIOC_DQBUF need not fail to wake
\* the thread of a starved camera.
Fairness ==
  /\ WF_vars(PreviewStep /\ ~Starved)
  /\ WF_vars(PictureStep) /\ WF_vars(TakeAnswer) /\ WF_vars(EncoderStep)

FairSpec == Spec /\ Fairness

-----------------------------------------------------------------------------
(* Properties.                                                             *)

PreviewPCs == {"loop", "get", "poll", "dq", "count", "send", "show", "hide", "back",
               "start", "dead"}

\* The types of the variables.
TypeOK ==
  /\ mPreviewRunning \in BOOLEAN /\ mFalsePreview \in BOOLEAN /\ mOverlay \in BOOLEAN
  /\ rec \in [enabled : BOOLEAN, recorded : BOOLEAN, counted : BOOLEAN, mapped : BOOLEAN,
              outstanding : Int]
  /\ mode \in Modes
  /\ cam \in [open : BOOLEAN, on : {"off", "preview", "stuck", "picture"},
             queued : SUBSET Buffers, lost : SUBSET Buffers]
  /\ disp \in [on : BOOLEAN, queued : SUBSET Buffers]
  /\ dss \in SUBSET Buffers /\ nOverlayBuffersQueued \in Int /\ mDSSActive \in BOOLEAN
  /\ driver \in SUBSET Buffers
  /\ cmdQ \in Seq(Commands) /\ ackQ \in Seq(Answers)
  /\ pc \in PreviewPCs
  /\ frame \in [b : Buffers \cup {None}, back : BOOLEAN]
  /\ app \in Commands \cup {"idle", "closed"}
  /\ enc \in SUBSET Buffers
  /\ rel \in [b : Buffers \cup {None}, at : {"idle", "queue", "mark"}]
  /\ pic \in {"idle", "begin", "shot"}

\* One answer for each command, and no other (the callers share one answer
\* queue: a stray answer would be taken for that of the next command).
OneAnswer ==
  (IF app \in Commands THEN 1 ELSE 0)
    = Len(cmdQ) + Len(ackQ) + (IF pc = "start" THEN 1 ELSE 0)

\* The overlay is there when the preview thread uses it without looking:
\* nextPreview() after queueBuffer() (CameraHal.cpp:1716-1728) and CameraStart()
\* after it has only warned (1239-1244).
OverlayThere == pc \in {"hide", "start"} => mOverlay

\* Between frames of a running preview the counter is the number of flags, and
\* no buffer of the overlay's queue is missing among them: a frame that is
\* being displayed is never queued a second time.
FlagsFollowOverlay ==
  pc \in {"loop", "poll", "dq"} /\ mPreviewRunning /\ mOverlay /\ cam.on = "preview" =>
    /\ nOverlayBuffersQueued = Cardinality(dss)
    /\ disp.queued \subseteq dss

\* While recording, a frame the encoder reads is not in the camera's queue,
\* where it would be overwritten, and the encoder has at most EncoderFrames.
EncoderKeepsFrames ==
  rec.enabled =>
    /\ enc \cap cam.queued = {}
    /\ Cardinality(enc) <= EncoderFrames
    /\ rec.outstanding = Cardinality(enc) + (IF pc = "send" THEN 1 ELSE 0)

\* Where the buffers are: while the camera delivers, each is in its queue, in
\* the preview thread's hands, with the encoder or on its way back from there,
\* unless VIDIOC_QBUF has failed for it or CameraStart() left it with the
\* overlay.  So a starved camera, whose thread is deaf to commands, waits for the
\* encoder or has lost every buffer it started with.
NoBufferMissing ==
  Delivers =>
    \A b \in Buffers :
      \/ b \in cam.queued \cup cam.lost \cup enc
      \/ rel.at = "queue" /\ rel.b = b
      \/ (pc \in {"count", "send"} \/ frame.back) /\ frame.b = b

\* releaseRecordingFrame() looks for its frame among the mapped ones: they are
\* there as long as the encoder has a frame (2329-2343).
ReleaseFindsFrame == enc # {} => rec.mapped

\* startPreview(), stopPreview(), setOverlay(), takePicture() and the destructor
\* return: each waits for the preview thread with nothing to wake it but the
\* answer.  The one exception is a camera that has lost all its buffers for good.
Answered ==
  []<>(cam.lost # Buffers) => \A c \in Commands : app = c ~> app # c

=============================================================================
