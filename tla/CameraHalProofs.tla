-------------------------- MODULE CameraHalProofs ---------------------------
(***************************************************************************)
(* Proofs about CameraHal, for any numbers of buffers and of frames at the *)
(* encoder, both modes, any failing calls, and callers that come at any    *)
(* moment except in the windows a theorem excludes by name.                *)
(*                                                                         *)
(* Asked is inductive by itself: a command in the queue is the one its     *)
(* caller waits for, so that the preview thread never meets another.       *)
(* Overlaid needs Asked: who waits for a start has an overlay until he is  *)
(* answered.  The actions fall into a few kinds for both, and each kind    *)
(* has a lemma: the thread answers a command, or the pending start, a      *)
(* caller asks, or neither happens.                                        *)
(*                                                                         *)
(* FrameInv needs Asked and "late" \notin Races: where each frame is that  *)
(* is on its way to the encoder, with it, or on its way back.              *)
(*                                                                         *)
(* FlagInv and Located hold in every window: how far the overlay's flags   *)
(* and count may be off, and where every buffer is.                        *)
(***************************************************************************)
EXTENDS CameraHal, SequenceTheorems, FiniteSetTheorems, TLAPS

Queues ==
  /\ cmdQ \in Seq(Commands) /\ ackQ \in Seq(Answers)
  /\ app \in Commands \cup {"idle", "closed"}

\* The thread works on a start only for its caller, and has ended once
\* PREVIEW_KILL is answered.
Asked ==
  /\ Queues
  /\ OneAnswer
  /\ cmdQ # <<>> => Head(cmdQ) = app
  /\ pc = "start" => app = "PREVIEW_START"
  /\ app = "PREVIEW_KILL" /\ ackQ # <<>> => pc = "dead"

\* startPreview() and setOverlay() ask for a start only with an overlay, and
\* it stays until the answer.
Overlaid ==
  /\ app = "PREVIEW_START" /\ ackQ = <<>> => mOverlay
  /\ "overlay" \notin Races => OverlayThere

CallInv == Asked /\ Overlaid

-----------------------------------------------------------------------------
(* The queues.                                                             *)

LEMMA Lengths ==
  ASSUME Queues
  PROVE  /\ Len(cmdQ) \in Nat /\ (cmdQ = <<>> <=> Len(cmdQ) = 0)
         /\ Len(ackQ) \in Nat /\ (ackQ = <<>> <=> Len(ackQ) = 0)
BY EmptySeq, LenProperties DEF Queues

LEMMA AnswerAppends ==
  ASSUME Queues, NEW a \in Answers, Answer(a)
  PROVE  ackQ' \in Seq(Answers) /\ Len(ackQ') = Len(ackQ) + 1 /\ ackQ' # <<>>
BY AppendProperties DEF Queues, Answer

\* A command that is taken was the only one, and no answer is there yet.
LEMMA TakingTakesTheOne ==
  ASSUME Asked, NEW c \in Commands, Taking(c)
  PROVE  /\ app = c /\ pc # "start"
         /\ Tail(cmdQ) \in Seq(Commands) /\ Len(Tail(cmdQ)) = 0 /\ Tail(cmdQ) = <<>>
         /\ ackQ = <<>>
<1>1. app = c /\ pc # "start" /\ cmdQ # <<>>
  BY DEF Asked, Taking
<1>2. Tail(cmdQ) \in Seq(Commands) /\ Len(Tail(cmdQ)) = Len(cmdQ) - 1
  BY <1>1, HeadTailProperties DEF Asked, Queues
<1>3. Len(cmdQ) = 1 /\ Len(ackQ) = 0
  <2>1. /\ Len(cmdQ) \in Nat /\ (cmdQ = <<>> <=> Len(cmdQ) = 0)
        /\ Len(ackQ) \in Nat
    BY Lengths DEF Asked
  <2>2. app \in Commands /\ OneAnswer
    BY <1>1 DEF Asked
  <2> QED BY <1>1, <2>1, <2>2 DEF OneAnswer
<1>4. Len(Tail(cmdQ)) = 0
  BY <1>2, <1>3
<1> QED BY <1>1, <1>2, <1>3, <1>4, Lengths, EmptySeq DEF Asked

-----------------------------------------------------------------------------
(* The kinds of steps.                                                     *)

\* The thread works on a frame, or another thread moves: no command is taken,
\* answered or asked.
LEMMA QuietStep ==
  ASSUME CallInv, UNCHANGED <<cmdQ, ackQ, app, mOverlay>>,
         pc' = pc \/ (pc \notin {"start", "dead"} /\ pc' # "start"),
         pc' = "hide" => pc = "hide" \/ mOverlay
  PROVE  CallInv'
BY DEF CallInv, Asked, Queues, OneAnswer, Overlaid, OverlayThere

LEMMA StillStep ==
  ASSUME CallInv, UNCHANGED <<cmdQ, ackQ, app, mOverlay, pc>> PROVE CallInv'
BY DEF CallInv, Asked, Queues, OneAnswer, Overlaid, OverlayThere

\* The thread answers the command it takes; the overlay may go.
LEMMA AnsweredStep ==
  ASSUME CallInv, NEW c \in Commands, Taking(c), NEW a \in Answers, Answer(a),
         cmdQ' = Tail(cmdQ), app' = app,
         pc' = (IF c = "PREVIEW_KILL" THEN "dead" ELSE "loop")
  PROVE  CallInv'
<1>1. /\ app = c /\ pc # "start" /\ ackQ = <<>>
      /\ cmdQ' \in Seq(Commands) /\ Len(cmdQ') = 0 /\ cmdQ' = <<>>
  BY TakingTakesTheOne DEF CallInv
<1>2. ackQ' \in Seq(Answers) /\ Len(ackQ') = 1 /\ ackQ' # <<>>
  BY <1>1, AnswerAppends, Lengths DEF CallInv, Asked
<1>3. pc' \notin {"start", "hide"} /\ (c = "PREVIEW_KILL" => pc' = "dead")
  OBVIOUS
<1> QED BY <1>1, <1>2, <1>3 DEF CallInv, Asked, Queues, OneAnswer, Overlaid, OverlayThere

\* The thread answers the start it has begun.
LEMMA StartedStep ==
  ASSUME CallInv, pc = "start", NEW a \in Answers, Answer(a), UNCHANGED <<cmdQ, app>>,
         pc' = "loop"
  PROVE  CallInv'
<1>1. app = "PREVIEW_START" /\ Len(cmdQ) = 0 /\ Len(ackQ) = 0
  <2>1. Len(cmdQ) \in Nat /\ Len(ackQ) \in Nat
    BY Lengths DEF CallInv, Asked
  <2>2. app = "PREVIEW_START" /\ OneAnswer
    BY DEF CallInv, Asked
  <2> QED BY <2>1, <2>2 DEF OneAnswer, Commands
<1>2. ackQ' \in Seq(Answers) /\ Len(ackQ') = 1 /\ ackQ' # <<>>
  BY <1>1, AnswerAppends DEF CallInv, Asked
<1> QED BY <1>1, <1>2 DEF CallInv, Asked, Queues, OneAnswer, Overlaid, OverlayThere

\* A caller asks; for a start there is an overlay.
LEMMA AskedStep ==
  ASSUME CallInv, app = "idle", NEW c \in Commands, Ask(c), UNCHANGED <<ackQ, pc>>,
         c = "PREVIEW_START" => mOverlay',
         "overlay" \notin Races /\ pc = "hide" => mOverlay'
  PROVE  CallInv'
<1>1. cmdQ = <<>> /\ ackQ = <<>> /\ Len(ackQ) = 0 /\ pc # "start"
  <2>1. /\ Len(cmdQ) \in Nat /\ (cmdQ = <<>> <=> Len(cmdQ) = 0)
        /\ Len(ackQ) \in Nat /\ (ackQ = <<>> <=> Len(ackQ) = 0)
    BY Lengths DEF CallInv, Asked
  <2>2. app \notin Commands /\ pc # "start" /\ OneAnswer
    BY DEF CallInv, Asked, Commands
  <2> QED BY <2>1, <2>2 DEF OneAnswer
<1>2. /\ cmdQ' \in Seq(Commands) /\ Len(cmdQ') = 1 /\ Head(cmdQ') = c
      /\ app' = c
  BY <1>1, AppendProperties DEF CallInv, Asked, Queues, Ask
<1> QED BY <1>1, <1>2 DEF CallInv, Asked, Queues, OneAnswer, Overlaid, OverlayThere

\* Without a command, the overlay is replaced.
LEMMA OverlayStep ==
  ASSUME CallInv, app = "idle", UNCHANGED <<cmdQ, ackQ, app, pc>>,
         "overlay" \notin Races => pc # "hide"
  PROVE  CallInv'
BY DEF CallInv, Asked, Queues, OneAnswer, Overlaid, OverlayThere

\* The start is begun: nobody else is answered before it.
LEMMA ResetStep ==
  ASSUME CallInv, Taking("PREVIEW_START"), cmdQ' = Tail(cmdQ),
         UNCHANGED <<ackQ, app, mOverlay>>, pc' = "start"
  PROVE  CallInv'
<1>1. /\ app = "PREVIEW_START" /\ ackQ = <<>>
      /\ cmdQ' \in Seq(Commands) /\ Len(cmdQ') = 0 /\ cmdQ' = <<>>
  BY TakingTakesTheOne DEF CallInv, Commands
<1>2. Len(ackQ') = 0
  BY <1>1, Lengths DEF CallInv, Asked
<1>3. mOverlay'
  BY <1>1 DEF CallInv, Overlaid
<1> QED BY <1>1, <1>2, <1>3
     DEF CallInv, Asked, Queues, OneAnswer, Overlaid, OverlayThere, Commands

\* The answer arrives: the destructor's is the thread's last.
LEMMA TakenStep == ASSUME CallInv, TakeAnswer PROVE CallInv'
<1>1. /\ Len(cmdQ) \in Nat /\ (cmdQ = <<>> <=> Len(cmdQ) = 0)
      /\ Len(ackQ) \in Nat /\ (ackQ = <<>> <=> Len(ackQ) = 0)
  BY Lengths DEF CallInv, Asked
<1>2. app \in Commands /\ ackQ # <<>> /\ OneAnswer
  BY DEF CallInv, Asked, TakeAnswer
<1>3. cmdQ = <<>> /\ Len(cmdQ) = 0 /\ Len(ackQ) = 1 /\ pc # "start"
  BY <1>1, <1>2 DEF OneAnswer
<1>4. ackQ' \in Seq(Answers) /\ Len(ackQ') = 0
  BY <1>2, <1>3, HeadTailProperties DEF TakeAnswer, CallInv, Asked, Queues
<1>5. UNCHANGED <<cmdQ, pc>>
  BY DEF TakeAnswer
<1>6. app' \in {"idle", "closed"}
  BY DEF TakeAnswer
<1>7. Asked'
  BY <1>3, <1>4, <1>5, <1>6 DEF CallInv, Asked, Queues, OneAnswer, Commands
<1>8. Overlaid'
  <2>1. CASE app = "PREVIEW_KILL"
    <3>1. pc = "dead"
      BY <2>1, <1>2 DEF CallInv, Asked
    <3> QED BY <3>1, <1>5, <1>6 DEF Overlaid, OverlayThere
  <2>2. CASE app # "PREVIEW_KILL"
    <3>1. mOverlay' = mOverlay
      BY <2>2 DEF TakeAnswer
    <3> QED BY <3>1, <1>5, <1>6 DEF CallInv, Overlaid, OverlayThere
  <2> QED BY <2>1, <2>2
<1> QED BY <1>7, <1>8 DEF CallInv

\* A new camera.
LEMMA ReopenStep == ASSUME CallInv, Reopen PROVE CallInv'
<1>1. cmdQ' = <<>> /\ ackQ' = <<>> /\ app' = "idle" /\ pc' = "loop"
  BY DEF Reopen
<1>2. <<>> \in Seq(Commands) /\ <<>> \in Seq(Answers) /\ Len(<<>>) = 0
  BY EmptySeq
<1>3. Queues'
  BY <1>1, <1>2 DEF Queues
<1>4. OneAnswer'
  BY <1>1, <1>2 DEF OneAnswer, Commands
<1> QED BY <1>1, <1>3, <1>4 DEF CallInv, Asked, Overlaid, OverlayThere

-----------------------------------------------------------------------------
(* Every step keeps the invariant.                                         *)

LEMMA CallInit == ASSUME Init PROVE CallInv
<1>1. cmdQ = <<>> /\ ackQ = <<>> /\ app = "idle" /\ pc = "loop"
  BY DEF Init
<1>2. <<>> \in Seq(Commands) /\ <<>> \in Seq(Answers) /\ Len(<<>>) = 0
  BY EmptySeq
<1>3. Queues
  BY <1>1, <1>2 DEF Queues
<1>4. OneAnswer
  BY <1>1, <1>2 DEF OneAnswer, Commands
<1> QED BY <1>1, <1>3, <1>4 DEF CallInv, Asked, Overlaid, OverlayThere

\* nextPreview() takes no command.
LEMMA FrameSteps ==
  ASSUME CallInv, \/ Loop \/ NoCommand \/ DqFails \/ CountFrame \/ SendFrame \/ ShowFrame
         \/ ShowNothing \/ HideFails \/ FrameBack
         \/ \E b \in Buffers : DqFrame(b) \/ HideFrame(b)
  PROVE CallInv'
<1>1. ASSUME Loop PROVE CallInv'
  BY <1>1, QuietStep DEF Loop, halVars, queues
<1>2. ASSUME NoCommand PROVE CallInv'
  BY <1>2, QuietStep DEF NoCommand, halVars, queues
<1>3. ASSUME NEW b \in Buffers, DqFrame(b) PROVE CallInv'
  BY <1>3, QuietStep DEF DqFrame, halVars, queues
<1>4. ASSUME DqFails PROVE CallInv'
  BY <1>4, QuietStep DEF DqFails, halVars, queues
<1>5. ASSUME CountFrame PROVE CallInv'
  BY <1>5, QuietStep DEF CountFrame, queues
<1>6. ASSUME SendFrame PROVE CallInv'
  BY <1>6, QuietStep DEF SendFrame, halVars, queues
<1>7. ASSUME ShowFrame PROVE CallInv'
  BY <1>7, QuietStep DEF ShowFrame, halVars, queues
<1>8. ASSUME ShowNothing PROVE CallInv'
  BY <1>8, QuietStep DEF ShowNothing, halVars, queues
<1>9. ASSUME NEW b \in Buffers, HideFrame(b) PROVE CallInv'
  BY <1>9, QuietStep DEF HideFrame, halVars, queues
<1>10. ASSUME HideFails PROVE CallInv'
  BY <1>10, QuietStep DEF HideFails, halVars, queues
<1>11. ASSUME FrameBack PROVE CallInv'
  BY <1>11, QuietStep DEF FrameBack, halVars, queues
<1> QED BY <1>1, <1>2, <1>3, <1>4, <1>5, <1>6, <1>7, <1>8, <1>9, <1>10, <1>11 DEF CallInv

\* The commands: one answer each, or the start that is answered later.
LEMMA CommandSteps ==
  ASSUME CallInv, \/ StartAgain \/ StartReset \/ StartFails \/ StartQueue \/ StopAgain
         \/ CaptureCommand \/ CaptureStopFails \/ CaptureThreadFails
         \/ \E k \in 0 .. NumBuffers : StartStops(k)
  PROVE CallInv'
<1>1. ASSUME StartAgain PROVE CallInv'
  BY <1>1, AnsweredStep DEF StartAgain, Commands, Answers
<1>2. ASSUME StartReset PROVE CallInv'
  BY <1>2, ResetStep DEF StartReset
<1>3. ASSUME StartFails PROVE CallInv'
  BY <1>3, AnsweredStep DEF StartFails, Refuse, Commands, Answers
<1>4. ASSUME StartQueue PROVE CallInv'
  BY <1>4, StartedStep DEF StartQueue, Commands, Answers
<1>5. ASSUME NEW k \in 0 .. NumBuffers, StartStops(k) PROVE CallInv'
  BY <1>5, StartedStep DEF StartStops, Commands, Answers
<1>6. ASSUME StopAgain PROVE CallInv'
  BY <1>6, AnsweredStep DEF StopAgain, Commands, Answers
<1>7. ASSUME CaptureCommand PROVE CallInv'
  BY <1>7, AnsweredStep DEF CaptureCommand, Commands, Answers
<1>8. ASSUME CaptureStopFails PROVE CallInv'
  BY <1>8, AnsweredStep DEF CaptureStopFails, Commands, Answers
<1>9. ASSUME CaptureThreadFails PROVE CallInv'
  BY <1>9, AnsweredStep DEF CaptureThreadFails, Commands, Answers
<1> QED BY <1>1, <1>2, <1>3, <1>4, <1>5, <1>6, <1>7, <1>8, <1>9 DEF CallInv

LEMMA StopSteps ==
  ASSUME CallInv, NEW ok \in BOOLEAN, StopCommand(ok) \/ KillCommand(ok) PROVE CallInv'
<1>1. ASSUME StopCommand(ok) PROVE CallInv'
  BY <1>1, AnsweredStep DEF StopCommand, Commands, Answers
<1>2. ASSUME KillCommand(ok) PROVE CallInv'
  BY <1>2, AnsweredStep DEF KillCommand, Commands, Answers
<1> QED BY <1>1, <1>2 DEF CallInv

\* The calls of the camera service.
LEMMA CallSteps ==
  ASSUME CallInv, ServiceCall PROVE CallInv'
<1>1. ASSUME StartPreview, mOverlay PROVE CallInv'
  BY <1>1, AskedStep DEF StartPreview, MayCall, Commands, CallInv, Overlaid, OverlayThere
<1>2. ASSUME StartPreview, ~mOverlay PROVE CallInv'
  BY <1>2, StillStep DEF StartPreview
<1>3. ASSUME StartRecording \/ StartRecordingFails PROVE CallInv'
  BY <1>3, StillStep DEF StartRecording, StartRecordingFails, queues
<1>4. ASSUME StopRecording PROVE CallInv'
  BY <1>4, StillStep DEF StopRecording, queues
<1>5. ASSUME Reopen PROVE CallInv'
  BY <1>5, ReopenStep DEF Reopen
<1>6. ASSUME NEW c \in Commands \ {"PREVIEW_START"}, Command(c) PROVE CallInv'
  BY <1>6, AskedStep DEF Command, MayCall, CallInv, Overlaid, OverlayThere, halVars
<1>7. ASSUME NEW o \in BOOLEAN, SetOverlay(o), o /\ mFalsePreview PROVE CallInv'
  BY <1>7, AskedStep DEF SetOverlay, MayCall, Commands
<1>8. ASSUME NEW o \in BOOLEAN, SetOverlay(o), ~(o /\ mFalsePreview) PROVE CallInv'
  BY <1>8, OverlayStep DEF SetOverlay, MayCall
<1> QED BY <1>1, <1>2, <1>3, <1>4, <1>5, <1>6, <1>7, <1>8 DEF ServiceCall

\* The picture thread, the encoder and the display.
LEMMA OtherSteps ==
  ASSUME CallInv, PictureStep \/ EncoderStep \/ DisplayOff PROVE CallInv'
<1>1. ASSUME PictureBegin PROVE CallInv'
  BY <1>1, StillStep DEF PictureBegin, halVars, queues
<1>2. ASSUME PictureShot PROVE CallInv'
  BY <1>2, StillStep DEF PictureShot, halVars, queues
<1>3. ASSUME NEW b \in Buffers, ReleaseFrame(b) PROVE CallInv'
  BY <1>3, StillStep DEF ReleaseFrame, queues
<1>4. ASSUME ReleaseQueue PROVE CallInv'
  BY <1>4, StillStep DEF ReleaseQueue, halVars, queues
<1>5. ASSUME ReleaseMark PROVE CallInv'
  BY <1>5, StillStep DEF ReleaseMark, halVars, queues
<1>6. ASSUME DisplayOff PROVE CallInv'
  BY <1>6, StillStep DEF DisplayOff, halVars, queues
<1> QED BY <1>1, <1>2, <1>3, <1>4, <1>5, <1>6 DEF PictureStep, EncoderStep

-----------------------------------------------------------------------------
(* The theorems.                                                           *)

LEMMA CallNext == ASSUME CallInv, [Next]_vars PROVE CallInv'
<1>1. CASE PreviewStep
  <2>1. ASSUME NEW b \in Buffers, DqFrame(b) \/ HideFrame(b) PROVE CallInv'
    BY <2>1, FrameSteps
  <2>2. ASSUME NEW k \in 0 .. NumBuffers, StartStops(k) PROVE CallInv'
    BY <2>2, CommandSteps
  <2>3. ASSUME NEW ok \in BOOLEAN, StopCommand(ok) \/ KillCommand(ok) PROVE CallInv'
    BY <2>3, StopSteps
  <2>4. CASE \/ Loop \/ NoCommand \/ DqFails \/ CountFrame \/ SendFrame \/ ShowFrame
             \/ ShowNothing \/ HideFails \/ FrameBack
    BY <2>4, FrameSteps
  <2>5. CASE \/ StartAgain \/ StartReset \/ StartFails \/ StartQueue \/ StopAgain
             \/ CaptureCommand \/ CaptureStopFails \/ CaptureThreadFails
    BY <2>5, CommandSteps
  <2> QED BY <1>1, <2>1, <2>2, <2>3, <2>4, <2>5 DEF PreviewStep
<1>2. CASE PictureStep \/ EncoderStep \/ DisplayOff
  BY <1>2, OtherSteps
<1>3. CASE ServiceCall
  BY <1>3, CallSteps
<1>4. CASE TakeAnswer
  BY <1>4, TakenStep
<1>5. CASE UNCHANGED vars
  <2>1. UNCHANGED <<cmdQ, ackQ, app, mOverlay, pc>>
    BY <1>5 DEF vars, halVars, queues
  <2> QED BY <2>1, StillStep
<1> QED BY <1>1, <1>2, <1>3, <1>4, <1>5 DEF Next

\* The inductive invariant of the commands (MessageQueue::put() and get(),
\* and the cases of previewThread()).
THEOREM CallsKept == Spec => []CallInv
<1>1. Init => CallInv
  BY CallInit
<1>2. CallInv /\ [Next]_vars => CallInv'
  BY CallNext
<1> QED BY <1>1, <1>2, PTL DEF Spec

\* OneAnswer: each command is answered once, and by nothing else, whichever
\* calls fail; the next caller does not take a stray answer for its own.
THEOREM AnsweredOnce == Spec => []OneAnswer
<1>1. CallInv => OneAnswer
  BY DEF CallInv, Asked
<1> QED BY <1>1, CallsKept, PTL

\* OverlayThere: nextPreview() after queueBuffer() and CameraStart() have an
\* overlay, unless setOverlay() is let in between.
THEOREM OverlayKept == ASSUME "overlay" \notin Races PROVE Spec => []OverlayThere
<1>1. CallInv => OverlayThere
  BY DEF CallInv, Overlaid
<1> QED BY <1>1, CallsKept, PTL

-----------------------------------------------------------------------------
(* Where the frames are that are on their way to the encoder, with it, or  *)
(* on their way back.                                                      *)

Recordings ==
  [enabled : BOOLEAN, recorded : BOOLEAN, counted : BOOLEAN, mapped : BOOLEAN,
   outstanding : Int]
Cameras ==
  [open : BOOLEAN, on : {"off", "preview", "stuck", "picture"},
   queued : SUBSET Buffers, lost : SUBSET Buffers]
Releases == [b : Buffers \cup {None}, at : {"idle", "queue", "mark"}]

Sending == pc \in {"count", "send"}

\* A frame that goes back to the camera when it has been shown.
Returning == pc \in {"show", "hide", "back"} /\ frame.back

\* What the thread holds from the camera to the overlay and back is a frame.
Held ==
  /\ enc \subseteq Buffers
  /\ rel.at # "idle" => rel.b \in Buffers
  /\ pc \in {"count", "send", "show", "hide", "back"} => frame.b \in Buffers

Devices == cam \in Cameras /\ rec \in Recordings /\ rel \in Releases /\ IsFiniteSet(enc)

\* A caller that waits began when no frame was at the encoder.
Alone ==
  app # "idle" => ~rec.enabled /\ enc = {} /\ rel = NoRelease /\ ~Sending

Mapped == rec.enabled \/ enc # {} \/ Sending => rec.mapped

\* While recording, a frame is in one place only.
Apart ==
  rec.enabled =>
    /\ enc \cap cam.queued = {}
    /\ rel.at = "queue" => rel.b \notin cam.queued \cup enc
    /\ Sending => ~frame.back /\ frame.b \notin cam.queued \cup enc
    /\ Returning => frame.b \notin enc
    /\ Sending \/ Returning => (rel.at = "queue" => rel.b # frame.b)

\* iOutStandingBuffersWithEncoder while recording.
Counted ==
  rec.enabled =>
    /\ rec.outstanding = Cardinality(enc) + (IF pc = "send" THEN 1 ELSE 0)
    /\ rec.outstanding <= EncoderFrames
    /\ pc = "count" => rec.outstanding < EncoderFrames

NothingLent == ~rec.enabled /\ enc = {} /\ rel = NoRelease

FrameInv == Devices /\ Held /\ Alone /\ Mapped /\ Apart /\ Counted

-----------------------------------------------------------------------------
(* The devices in the commands.                                            *)

LEMMA CameraForms ==
  ASSUME cam \in Cameras, NEW S \in SUBSET Buffers, NEW T,
         NEW m \in {"off", "preview", "stuck", "picture"}
  PROVE  /\ ClosedCamera \in Cameras
         /\ [ClosedCamera EXCEPT !.open = TRUE] \in Cameras
         /\ Stuck \in Cameras /\ Stuck.queued = cam.queued
         /\ Queued(S) \in Cameras /\ Queued(S).queued = cam.queued \cup S
         /\ [Queued(S) EXCEPT !.on = m, !.lost = Buffers \ S] \in Cameras
         /\ [cam EXCEPT !.queued = @ \ T] \in Cameras
         /\ [cam EXCEPT !.queued = @ \ T].queued = cam.queued \ T
         /\ [cam EXCEPT !.queued = {}, !.lost = {}] \in Cameras
         /\ [cam EXCEPT !.on = m, !.queued = {}, !.lost = {}] \in Cameras
         /\ [cam EXCEPT !.on = m, !.queued = {}, !.lost = {}].queued = {}
<1>1. ClosedCamera \in Cameras
  BY DEF Cameras, ClosedCamera
<1>2. [ClosedCamera EXCEPT !.open = TRUE] \in Cameras
  BY DEF Cameras, ClosedCamera
<1>3. Stuck \in Cameras /\ Stuck.queued = cam.queued
  BY DEF Cameras, Stuck
<1>4. Queued(S) \in Cameras /\ Queued(S).queued = cam.queued \cup S
  BY DEF Cameras, Queued
<1>5. [Queued(S) EXCEPT !.on = m, !.lost = Buffers \ S] \in Cameras
  BY <1>4 DEF Cameras
<1>6. /\ [cam EXCEPT !.queued = @ \ T] \in Cameras
      /\ [cam EXCEPT !.queued = @ \ T].queued = cam.queued \ T
  BY DEF Cameras
<1>7. /\ [cam EXCEPT !.queued = {}, !.lost = {}] \in Cameras
      /\ [cam EXCEPT !.on = m, !.queued = {}, !.lost = {}] \in Cameras
      /\ [cam EXCEPT !.on = m, !.queued = {}, !.lost = {}].queued = {}
  BY DEF Cameras
<1> QED BY <1>1, <1>2, <1>3, <1>4, <1>5, <1>6, <1>7

LEMMA Unmaps ==
  ASSUME rec \in Recordings
  PROVE  /\ [rec EXCEPT !.mapped = FALSE] \in Recordings
         /\ [rec EXCEPT !.mapped = FALSE].enabled = rec.enabled
BY DEF Recordings

LEMMA NotRecordingIsOne == NotRecording \in Recordings /\ ~NotRecording.enabled
BY DEF Recordings, NotRecording

LEMMA Forgets ==
  ASSUME rec \in Recordings, NEW y \in BOOLEAN
  PROVE  /\ [rec EXCEPT !.mapped = FALSE, !.recorded = y] \in Recordings
         /\ [rec EXCEPT !.mapped = FALSE, !.recorded = y].enabled = rec.enabled
BY DEF Recordings

LEMMA Disables ==
  ASSUME rec \in Recordings
  PROVE  /\ [rec EXCEPT !.enabled = FALSE] \in Recordings
         /\ ~[rec EXCEPT !.enabled = FALSE].enabled
         /\ [rec EXCEPT !.enabled = FALSE].mapped = rec.mapped
BY DEF Recordings

LEMMA Counts ==
  ASSUME rec \in Recordings, NEW n \in Int
  PROVE  /\ [rec EXCEPT !.outstanding = n] \in Recordings
         /\ [rec EXCEPT !.outstanding = n].outstanding = n
         /\ [rec EXCEPT !.outstanding = n].enabled = rec.enabled
         /\ [rec EXCEPT !.outstanding = n].mapped = rec.mapped
BY DEF Recordings

LEMMA QueuedForm ==
  ASSUME cam \in Cameras, NEW b \in Buffers
  PROVE  /\ Queued({b}) \in Cameras /\ Queued({b}).queued = cam.queued \cup {b}
         /\ Lost(b) \in Cameras /\ Lost(b).queued = cam.queued
BY DEF Cameras, Queued, Lost

\* What a command does to the devices.
Stopped == cam' \in Cameras /\ rec' \in Recordings /\ rec'.enabled = rec.enabled

LEMMA DestroyStops == ASSUME Devices, Destroy PROVE Stopped
<1>1. cam' \in Cameras
  BY CameraForms DEF Destroy, Devices
<1>2. rec' \in Recordings /\ rec'.enabled = rec.enabled
  BY Unmaps DEF Destroy, Devices
<1> QED BY <1>1, <1>2 DEF Stopped

LEMMA CameraStopStops ==
  ASSUME Devices, NEW ok \in BOOLEAN, CameraStop(ok) PROVE Stopped
<1>1. cam' \in Cameras
  BY CameraForms DEF CameraStop, Devices
<1>2. rec' \in Recordings /\ rec'.enabled = rec.enabled
  <2>1. \/ rec' = rec \/ rec' = [rec EXCEPT !.mapped = FALSE]
        \/ rec' = [rec EXCEPT !.mapped = FALSE, !.recorded = FALSE]
    BY DEF CameraStop
  <2> QED BY <2>1, Unmaps, Forgets DEF Devices
<1> QED BY <1>1, <1>2 DEF Stopped

LEMMA StopFailedStops == ASSUME Devices, StopFailed PROVE Stopped
<1>1. CASE mode = "third"
  <2>1. cam' \in Cameras
    BY <1>1, CameraForms DEF StopFailed, Devices
  <2>2. rec' = [rec EXCEPT !.mapped = FALSE, !.recorded = rec.recorded /\ ~mOverlay]
    BY <1>1 DEF StopFailed
  <2>3. (rec.recorded /\ ~mOverlay) \in BOOLEAN
    OBVIOUS
  <2>4. rec' \in Recordings /\ rec'.enabled = rec.enabled
    BY <2>2, <2>3, Forgets DEF Devices
  <2> QED BY <2>1, <2>4 DEF Stopped
<1>2. CASE mode # "third"
  BY <1>2, CameraStopStops DEF StopFailed
<1> QED BY <1>1, <1>2

-----------------------------------------------------------------------------
(* The kinds of steps.                                                     *)

\* No frame is with the encoder, and a caller waits or asks.
LEMMA BusyStep ==
  ASSUME FrameInv, Stopped, UNCHANGED <<enc, rel>>, pc' \notin {"count", "send"},
         UNCHANGED <<pc, frame>> \/ pc' \notin {"show", "hide", "back"},
         app \in Commands \cup {"closed"} \/ NothingLent
  PROVE  FrameInv'
<1>1. NothingLent /\ ~rec'.enabled
  BY DEF FrameInv, Alone, Stopped, Commands, NothingLent
<1>2. Devices'
  BY DEF FrameInv, Devices, Stopped
<1>3. Alone' /\ Mapped' /\ Apart' /\ Counted'
  BY <1>1 DEF Alone, Mapped, Apart, Counted, Sending, NothingLent
<1>4. Held'
  BY <1>1 DEF FrameInv, Held, NothingLent, NoRelease
<1> QED BY <1>2, <1>3, <1>4 DEF FrameInv

\* Frames leave the camera's queue, or nothing happens to them.
LEMMA KeptStep ==
  ASSUME FrameInv, UNCHANGED <<rec, enc, rel, app>>,
         cam' \in Cameras, cam'.queued \subseteq cam.queued,
         \/ UNCHANGED <<pc, frame>>
         \/ /\ pc \in {"show", "hide", "back"} /\ pc' \in {"show", "hide", "back"}
            /\ UNCHANGED frame
         \/ ~Sending /\ pc' \notin {"count", "send", "show", "hide", "back"}
  PROVE  FrameInv'
<1>1. Devices'
  BY DEF FrameInv, Devices
<1>2. Alone' /\ Mapped'
  BY DEF FrameInv, Alone, Mapped, Sending
<1>3. Apart'
  BY DEF FrameInv, Apart, Sending, Returning
<1>4. Counted'
  <2>1. CASE pc' = pc
    BY <2>1 DEF FrameInv, Counted
  <2>2. CASE pc' # pc
    <3>1. pc # "send" /\ pc' # "send" /\ pc' # "count"
      BY <2>2 DEF Sending
    <3> QED BY <3>1 DEF FrameInv, Counted
  <2> QED BY <2>1, <2>2
<1>5. Held'
  BY DEF FrameInv, Held, Sending
<1> QED BY <1>1, <1>2, <1>3, <1>4, <1>5 DEF FrameInv

\* The overlay is no matter here.
LEMMA ShownFrames ==
  ASSUME CallInv, FrameInv,
         \/ Loop \/ NoCommand \/ DqFails \/ ShowFrame \/ ShowNothing \/ HideFails
         \/ DisplayOff \/ \E b \in Buffers : HideFrame(b)
  PROVE  FrameInv'
<1>c. cam \in Cameras /\ cam.queued \subseteq cam.queued
  BY DEF FrameInv, Devices
<1>1. ASSUME Loop PROVE FrameInv'
  BY <1>1, KeptStep, <1>c DEF Loop, halVars, queues, Sending
<1>2. ASSUME NoCommand PROVE FrameInv'
  BY <1>2, KeptStep, <1>c DEF NoCommand, halVars, queues, Sending
<1>3. ASSUME DqFails PROVE FrameInv'
  BY <1>3, KeptStep, <1>c DEF DqFails, halVars, queues, Sending
<1>4. ASSUME ShowFrame PROVE FrameInv'
  BY <1>4, KeptStep, <1>c DEF ShowFrame, halVars, queues, Sending
<1>5. ASSUME ShowNothing PROVE FrameInv'
  BY <1>5, KeptStep, <1>c DEF ShowNothing, halVars, queues, Sending
<1>6. ASSUME NEW b \in Buffers, HideFrame(b) PROVE FrameInv'
  BY <1>6, KeptStep, <1>c DEF HideFrame, halVars, queues, Sending
<1>7. ASSUME HideFails PROVE FrameInv'
  BY <1>7, KeptStep, <1>c DEF HideFails, halVars, queues, Sending
<1>8. ASSUME DisplayOff PROVE FrameInv'
  BY <1>8, KeptStep, <1>c DEF DisplayOff, halVars, queues, Sending
<1> QED BY <1>1, <1>2, <1>3, <1>4, <1>5, <1>6, <1>7, <1>8

\* Commands come while no frame is at the encoder.
LEMMA CommandFrames ==
  ASSUME CallInv, FrameInv, \/ StartAgain \/ StartReset \/ StartFails \/ StopAgain
                            \/ CaptureCommand \/ CaptureStopFails \/ CaptureThreadFails
                            \/ StartQueue \/ \E k \in 0 .. NumBuffers : StartStops(k)
  PROVE  FrameInv'
<1>b. Devices /\ cam \in Cameras /\ rec \in Recordings
  BY DEF FrameInv, Devices
<1>u. ASSUME cam' = cam \/ cam' \in Cameras, rec' = rec PROVE Stopped
  BY <1>b, <1>u DEF Stopped
<1>t. ASSUME NEW c \in Commands, Taking(c) PROVE app \in Commands
  BY <1>t, TakingTakesTheOne DEF CallInv
<1>1. ASSUME StartAgain PROVE FrameInv'
  <2>1. Stopped
    BY <1>1, <1>b, <1>u DEF StartAgain
  <2>2. app \in Commands
    BY <1>1, <1>t DEF StartAgain, Commands
  <2> QED BY <1>1, <2>1, <2>2, BusyStep DEF StartAgain
<1>2. ASSUME StartReset PROVE FrameInv'
  <2>1. Stopped
    BY <1>2, <1>b, <1>u, CameraForms DEF StartReset
  <2>2. app \in Commands
    BY <1>2, <1>t DEF StartReset, Commands
  <2> QED BY <1>2, <2>1, <2>2, BusyStep DEF StartReset
<1>3. ASSUME StartFails PROVE FrameInv'
  <2>1. Stopped
    BY <1>3, <1>b, <1>u, DestroyStops DEF StartFails, Refuse
  <2>2. app \in Commands
    BY <1>3, <1>t DEF StartFails, Commands
  <2> QED BY <1>3, <2>1, <2>2, BusyStep DEF StartFails, Refuse
<1>4. ASSUME StopAgain PROVE FrameInv'
  <2>1. Stopped
    BY <1>4, <1>b, <1>u DEF StopAgain, halVars
  <2>2. app \in Commands
    BY <1>4, <1>t DEF StopAgain, Commands
  <2> QED BY <1>4, <2>1, <2>2, BusyStep DEF StopAgain
<1>5. ASSUME CaptureCommand PROVE FrameInv'
  <2>1. Stopped
    BY <1>5, <1>b, <1>u, CameraStopStops DEF CaptureCommand
  <2>2. app \in Commands
    BY <1>5, <1>t DEF CaptureCommand, Commands
  <2> QED BY <1>5, <2>1, <2>2, BusyStep DEF CaptureCommand
<1>6. ASSUME CaptureStopFails PROVE FrameInv'
  <2>1. Stopped
    BY <1>6, <1>b, <1>u, StopFailedStops DEF CaptureStopFails
  <2>2. app \in Commands
    BY <1>6, <1>t DEF CaptureStopFails, Commands
  <2> QED BY <1>6, <2>1, <2>2, BusyStep DEF CaptureStopFails
<1>7. ASSUME CaptureThreadFails PROVE FrameInv'
  <2>1. Stopped
    BY <1>7, <1>b, <1>u, CameraStopStops, StopFailedStops, DestroyStops DEF CaptureThreadFails
  <2>2. app \in Commands
    BY <1>7, <1>t DEF CaptureThreadFails, Commands
  <2> QED BY <1>7, <2>1, <2>2, BusyStep DEF CaptureThreadFails
<1>8. ASSUME StartQueue PROVE FrameInv'
  <2>1. Stopped
    BY <1>8, <1>b, <1>u, CameraForms DEF StartQueue, ForCamera
  <2>2. app \in Commands
    BY <1>8 DEF StartQueue, CallInv, Asked, Commands
  <2> QED BY <1>8, <2>1, <2>2, BusyStep DEF StartQueue
<1>9. ASSUME NEW k \in 0 .. NumBuffers, StartStops(k), mode = "third" PROVE FrameInv'
  <2>1. Stopped
    BY <1>9, <1>b, <1>u, DestroyStops DEF StartStops
  <2>2. app \in Commands
    BY <1>9 DEF StartStops, CallInv, Asked, Commands
  <2> QED BY <1>9, <2>1, <2>2, BusyStep DEF StartStops
<1>10. ASSUME NEW k \in 0 .. NumBuffers, StartStops(k), mode # "third" PROVE FrameInv'
  <2>1. PICK S \in SUBSET Buffers : cam' = Queued(S)
    BY <1>10 DEF StartStops, ForCamera
  <2>2. Stopped
    BY <1>10, <2>1, <1>b, CameraForms DEF StartStops, Stopped
  <2>3. app \in Commands
    BY <1>10 DEF StartStops, CallInv, Asked, Commands
  <2> QED BY <1>10, <2>2, <2>3, BusyStep DEF StartStops
<1> QED BY <1>1, <1>2, <1>3, <1>4, <1>5, <1>6, <1>7, <1>8, <1>9, <1>10

LEMMA StopFrames ==
  ASSUME CallInv, FrameInv, NEW ok \in BOOLEAN, StopCommand(ok) \/ KillCommand(ok)
  PROVE  FrameInv'
<1>b. Devices /\ cam \in Cameras /\ rec \in Recordings
  BY DEF FrameInv, Devices
<1>u. ASSUME cam' = cam \/ cam' \in Cameras, rec' = rec PROVE Stopped
  BY <1>b, <1>u DEF Stopped
<1>t. ASSUME NEW c \in Commands, Taking(c) PROVE app \in Commands
  BY <1>t, TakingTakesTheOne DEF CallInv
<1>1. ASSUME StopCommand(ok) PROVE FrameInv'
  <2>1. Stopped
    BY <1>1, <1>b, <1>u, CameraStopStops, StopFailedStops DEF StopCommand
  <2>2. app \in Commands
    BY <1>1, <1>t DEF StopCommand, Commands
  <2> QED BY <1>1, <2>1, <2>2, BusyStep DEF StopCommand
<1>2. ASSUME KillCommand(ok) PROVE FrameInv'
  <2>1. Stopped
    BY <1>2, <1>b, <1>u, CameraStopStops DEF KillCommand
  <2>2. app \in Commands
    BY <1>2, <1>t DEF KillCommand, Commands
  <2> QED BY <1>2, <2>1, <2>2, BusyStep DEF KillCommand
<1> QED BY <1>1, <1>2

\* The frame from the camera to the encoder, and back to the camera.
LEMMA DqFrames == ASSUME FrameInv, NEW b \in Buffers, DqFrame(b) PROVE FrameInv'
<1>1. /\ cam' \in Cameras /\ cam'.queued = cam.queued \ {b}
  BY CameraForms DEF DqFrame, FrameInv, Devices
<1>2. /\ b \in cam.queued /\ frame'.b = b /\ frame'.back = ~ToEncoder /\ pc = "dq"
      /\ pc' = IF ToEncoder THEN "count" ELSE "show"
      /\ UNCHANGED <<rec, enc, rel, app>>
  BY DEF DqFrame, halVars
<1>3. Devices'
  BY <1>1, <1>2 DEF FrameInv, Devices
<1>4. Alone' /\ Mapped'
  BY <1>2 DEF FrameInv, Alone, Mapped, Sending, ToEncoder
<1>5. Apart'
  <2>1. SUFFICES ASSUME rec.enabled PROVE Apart'
    BY <1>2 DEF Apart
  <2>2. b \notin enc /\ (rel.at = "queue" => rel.b # b)
    BY <1>2, <2>1 DEF FrameInv, Apart
  <2> QED BY <1>1, <1>2, <2>1, <2>2 DEF FrameInv, Apart, Sending, Returning
<1>6. Counted'
  BY <1>2 DEF FrameInv, Counted, ToEncoder
<1>7. Held'
  BY <1>2 DEF FrameInv, Held
<1> QED BY <1>3, <1>4, <1>5, <1>6, <1>7 DEF FrameInv

LEMMA CountFrames == ASSUME FrameInv, CountFrame PROVE FrameInv'
<1>1. /\ rec' \in Recordings /\ rec'.outstanding = rec.outstanding + 1
      /\ rec'.enabled = rec.enabled /\ rec'.mapped = rec.mapped
  <2>1. rec.outstanding + 1 \in Int /\ rec \in Recordings
    BY DEF FrameInv, Devices, Recordings
  <2>2. rec' = [rec EXCEPT !.outstanding = rec.outstanding + 1]
    BY DEF CountFrame
  <2> QED BY <2>1, <2>2, Counts
<1>2. pc = "count" /\ pc' = "send" /\ UNCHANGED <<cam, frame, enc, rel, app>>
  BY DEF CountFrame
<1>3. Devices'
  BY <1>1, <1>2 DEF FrameInv, Devices
<1>4. Alone' /\ Mapped'
  BY <1>1, <1>2 DEF FrameInv, Alone, Mapped, Sending
<1>5. Apart'
  BY <1>1, <1>2 DEF FrameInv, Apart, Sending, Returning
<1>6. Counted'
  <2>1. SUFFICES ASSUME rec.enabled PROVE Counted'
    BY <1>1 DEF Counted
  <2>2. rec.outstanding = Cardinality(enc) + 0 /\ rec.outstanding < EncoderFrames
    BY <1>2, <2>1 DEF FrameInv, Counted
  <2>3. rec.outstanding \in Int /\ EncoderFrames \in Int
    BY CameraAssumption DEF FrameInv, Devices, Recordings
  <2>4. Cardinality(enc)' = Cardinality(enc) /\ Cardinality(enc) \in Nat
    BY <1>2, FS_CardinalityType DEF FrameInv, Devices
  <2> QED BY <1>1, <1>2, <2>2, <2>3, <2>4 DEF Counted
<1>7. Held'
  BY <1>2 DEF FrameInv, Held
<1> QED BY <1>3, <1>4, <1>5, <1>6, <1>7 DEF FrameInv

LEMMA SendFrames == ASSUME FrameInv, SendFrame PROVE FrameInv'
<1>1. /\ pc = "send" /\ pc' = "show" /\ enc' = enc \cup {frame.b}
      /\ UNCHANGED <<rec, cam, frame, rel, app>>
  BY DEF SendFrame, halVars
<1>2. Devices' /\ (frame.b \notin enc => Cardinality(enc') = Cardinality(enc) + 1)
  BY <1>1, FS_AddElement DEF FrameInv, Devices
<1>3. Alone' /\ Mapped'
  BY <1>1 DEF FrameInv, Alone, Mapped, Sending
<1>4. Apart'
  BY <1>1 DEF FrameInv, Apart, Sending, Returning
<1>5. Counted'
  <2>1. SUFFICES ASSUME rec.enabled PROVE Counted'
    BY <1>1 DEF Counted
  <2>2. /\ rec.outstanding = Cardinality(enc) + 1 /\ rec.outstanding <= EncoderFrames
        /\ frame.b \notin enc
    BY <1>1, <2>1 DEF FrameInv, Counted, Apart, Sending
  <2>3. Cardinality(enc) \in Nat
    BY FS_CardinalityType DEF FrameInv, Devices
  <2> QED BY <1>1, <1>2, <2>2, <2>3 DEF Counted
<1>6. Held'
  BY <1>1 DEF FrameInv, Held
<1> QED BY <1>2, <1>3, <1>4, <1>5, <1>6 DEF FrameInv

LEMMA BackFrames == ASSUME FrameInv, FrameBack PROVE FrameInv'
<1>1. /\ pc = "back" /\ pc' = "poll" /\ frame' = NoFrame
      /\ UNCHANGED <<rec, enc, rel, app>>
  BY DEF FrameBack, halVars
<1>2. frame.b \in Buffers /\ cam \in Cameras
  BY <1>1 DEF FrameInv, Held, Devices
<1>3. CASE frame.back /\ cam' = Queued({frame.b})
  <2>1. cam' \in Cameras /\ cam'.queued = cam.queued \cup {frame.b}
    BY <1>2, <1>3, QueuedForm
  <2>2. Devices' /\ Held'
    BY <1>1, <2>1 DEF FrameInv, Devices, Held
  <2>3. Alone' /\ Mapped' /\ Counted'
    BY <1>1 DEF FrameInv, Alone, Mapped, Counted, Sending
  <2>4. Apart'
    <3>1. SUFFICES ASSUME rec.enabled PROVE Apart'
      BY <1>1 DEF Apart
    <3>2. frame.b \notin enc /\ (rel.at = "queue" => rel.b # frame.b)
      BY <1>1, <1>3, <3>1 DEF FrameInv, Apart, Returning
    <3> QED BY <1>1, <2>1, <3>1, <3>2 DEF FrameInv, Apart, Sending, Returning
  <2> QED BY <2>2, <2>3, <2>4 DEF FrameInv
<1>4. CASE cam' = cam \/ cam' = Lost(frame.b)
  <2>1. cam' \in Cameras /\ cam'.queued \subseteq cam.queued
    BY <1>2, <1>4, QueuedForm
  <2> QED BY <1>1, <2>1, KeptStep DEF Sending
<1> QED BY <1>3, <1>4 DEF FrameBack

\* The picture thread takes the camera's buffers.
LEMMA PictureFrames == ASSUME FrameInv, PictureStep PROVE FrameInv'
<1>1. cam \in Cameras /\ cam.queued \subseteq cam.queued
  BY DEF FrameInv, Devices
<1>2. cam' \in Cameras /\ cam'.queued \subseteq cam.queued
  BY <1>1, CameraForms DEF PictureStep, PictureBegin, PictureShot
<1>3. UNCHANGED <<rec, enc, rel, app, pc, frame>>
  BY DEF PictureStep, PictureBegin, PictureShot, halVars
<1> QED BY <1>2, <1>3, KeptStep

-----------------------------------------------------------------------------
(* The encoder gives a frame back.                                         *)

LEMMA ReleaseFrames == ASSUME FrameInv, NEW b \in Buffers, ReleaseFrame(b) PROVE FrameInv'
<1>1. /\ rec' \in Recordings /\ rec'.outstanding = rec.outstanding - 1
      /\ rec'.enabled = rec.enabled /\ rec'.mapped = rec.mapped
  <2>1. rec.outstanding - 1 \in Int /\ rec \in Recordings
    BY DEF FrameInv, Devices, Recordings
  <2>2. rec' = [rec EXCEPT !.outstanding = rec.outstanding - 1]
    BY DEF ReleaseFrame
  <2> QED BY <2>1, <2>2, Counts
<1>2. /\ b \in enc /\ enc' = enc \ {b} /\ rel' = [b |-> b, at |-> "queue"]
      /\ UNCHANGED <<cam, pc, frame, app>>
  BY DEF ReleaseFrame
<1>3. Devices' /\ Cardinality(enc') = Cardinality(enc) - 1
  BY <1>1, <1>2, FS_RemoveElement DEF FrameInv, Devices, Releases
<1>4. Alone' /\ Mapped' /\ Held'
  BY <1>1, <1>2 DEF FrameInv, Alone, Mapped, Held, Sending
<1>5. Apart'
  BY <1>1, <1>2 DEF FrameInv, Apart, Sending, Returning
<1>6. Counted'
  <2>1. SUFFICES ASSUME rec.enabled PROVE Counted'
    BY <1>1 DEF Counted
  <2>2. Cardinality(enc) \in Nat /\ rec.outstanding \in Int /\ EncoderFrames \in Int
    BY FS_CardinalityType, CameraAssumption DEF FrameInv, Devices, Recordings
  <2> QED BY <1>1, <1>2, <1>3, <2>1, <2>2 DEF FrameInv, Counted
<1> QED BY <1>3, <1>4, <1>5, <1>6 DEF FrameInv

LEMMA QueueFrames == ASSUME FrameInv, ReleaseQueue PROVE FrameInv'
<1>1. /\ rel.at = "queue" /\ rel.b \in Buffers /\ rel \in Releases /\ cam \in Cameras
      /\ UNCHANGED <<rec, enc, pc, frame, app>>
  BY DEF ReleaseQueue, FrameInv, Held, Devices, halVars
<1>2. rel' \in Releases /\ rel'.at # "queue" /\ (rel'.at # "idle" => rel'.b = rel.b)
  <2>1. rel' = NoRelease \/ rel' = [rel EXCEPT !.at = "mark"]
    BY DEF ReleaseQueue
  <2> QED BY <1>1, <2>1 DEF Releases, NoRelease
<1>3. cam' \in Cameras /\ cam'.queued \subseteq cam.queued \cup {rel.b}
  <2>1. cam' = Queued({rel.b}) \/ cam' = Lost(rel.b)
    BY DEF ReleaseQueue
  <2> QED BY <1>1, <2>1, QueuedForm
<1>4. Devices' /\ Held'
  BY <1>1, <1>2, <1>3 DEF FrameInv, Devices, Held
<1>5. Alone' /\ Mapped' /\ Counted'
  BY <1>1 DEF FrameInv, Alone, Mapped, Counted, Sending, NoRelease
<1>6. Apart'
  <2>1. SUFFICES ASSUME rec.enabled PROVE Apart'
    BY <1>1 DEF Apart
  <2>2. rel.b \notin enc /\ (Sending => rel.b # frame.b)
    BY <1>1, <2>1 DEF FrameInv, Apart
  <2> QED BY <1>1, <1>2, <1>3, <2>1, <2>2 DEF FrameInv, Apart, Sending, Returning
<1> QED BY <1>4, <1>5, <1>6 DEF FrameInv

LEMMA MarkFrames == ASSUME FrameInv, ReleaseMark PROVE FrameInv'
<1>1. /\ rel.at = "mark" /\ rel' = NoRelease
      /\ UNCHANGED <<rec, cam, enc, pc, frame, app>>
  BY DEF ReleaseMark, halVars
<1>2. Devices' /\ Held'
  BY <1>1 DEF FrameInv, Devices, Held, Releases, NoRelease
<1>3. Alone' /\ Mapped' /\ Counted'
  BY <1>1 DEF FrameInv, Alone, Mapped, Counted, Sending
<1>4. Apart'
  BY <1>1 DEF FrameInv, Apart, Sending, Returning, NoRelease
<1> QED BY <1>2, <1>3, <1>4 DEF FrameInv

-----------------------------------------------------------------------------
(* The calls of the camera service.                                        *)

LEMMA QuietCalls ==
  ASSUME FrameInv, "late" \notin Races, MayCall, UNCHANGED <<cam, rec, enc, rel, pc, frame>>
  PROVE  FrameInv'
<1>1. NothingLent /\ pc' \notin {"count", "send"}
  BY DEF MayCall, NothingLent
<1>2. Stopped
  BY DEF Stopped, FrameInv, Devices
<1> QED BY <1>1, <1>2, BusyStep

LEMMA RecordingFrames ==
  ASSUME FrameInv, "late" \notin Races, StartRecording PROVE FrameInv'
<1>1. /\ ~Sending /\ NothingLent /\ app = "idle"
      /\ UNCHANGED <<cam, enc, rel, pc, frame, app>>
  BY DEF StartRecording, MayCall, Sending, NothingLent
<1>2. rec' = [enabled |-> TRUE, recorded |-> TRUE, counted |-> TRUE, mapped |-> TRUE,
              outstanding |-> 0]
  BY DEF StartRecording
<1>3. rec' \in Recordings /\ rec'.mapped /\ rec'.outstanding = 0
  BY <1>2 DEF Recordings
<1>4. Devices' /\ Held'
  BY <1>1, <1>3 DEF FrameInv, Devices, Held
<1>5. Alone' /\ Mapped' /\ Apart'
  BY <1>1, <1>3 DEF Alone, Mapped, Apart, Sending, Returning, NothingLent, NoRelease
<1>6. Counted'
  <2>1. Cardinality(enc') = 0 /\ EncoderFrames \in Nat
    BY <1>1, FS_EmptySet, CameraAssumption DEF NothingLent
  <2> QED BY <1>1, <1>3, <2>1 DEF Counted, Sending
<1> QED BY <1>4, <1>5, <1>6 DEF FrameInv

\* The maps go, while no frame is out.
LEMMA UnmappedFrames ==
  ASSUME FrameInv, "late" \notin Races, StartRecordingFails PROVE FrameInv'
<1>1. /\ MayCall /\ UNCHANGED <<cam, enc, rel, pc, frame>>
      /\ rec' = [rec EXCEPT !.counted = TRUE, !.mapped = FALSE]
  BY DEF StartRecordingFails
<1>2. NothingLent /\ pc' \notin {"count", "send"}
  BY <1>1 DEF MayCall, NothingLent
<1>3. Stopped
  <2>1. rec' \in Recordings /\ rec'.enabled = rec.enabled
    BY <1>1 DEF FrameInv, Devices, Recordings
  <2> QED BY <1>1, <2>1 DEF Stopped, FrameInv, Devices
<1> QED BY <1>1, <1>2, <1>3, BusyStep

LEMMA StoppedFrames == ASSUME FrameInv, StopRecording PROVE FrameInv'
<1>1. /\ app = "idle" /\ rec' = [rec EXCEPT !.enabled = FALSE]
      /\ UNCHANGED <<enc, rel, pc, frame, app>>
  BY DEF StopRecording, halVars
<1>2. rec' \in Recordings /\ ~rec'.enabled /\ rec'.mapped = rec.mapped
  BY <1>1, Disables DEF FrameInv, Devices
<1>3. cam' \in Cameras
  <2>1. PICK S \in SUBSET Buffers : cam' = Queued(S)
    BY DEF StopRecording
  <2> QED BY <2>1, CameraForms DEF FrameInv, Devices
<1>4. Devices' /\ Held'
  BY <1>1, <1>2, <1>3 DEF FrameInv, Devices, Held
<1>5. Alone' /\ Mapped' /\ Apart' /\ Counted'
  BY <1>1, <1>2 DEF FrameInv, Alone, Mapped, Apart, Counted, Sending
<1> QED BY <1>4, <1>5 DEF FrameInv

LEMMA AnswerFrames == ASSUME FrameInv, TakeAnswer PROVE FrameInv'
<1>1. app \in Commands /\ UNCHANGED <<enc, rel, pc, frame>>
  BY DEF TakeAnswer
<1>2. ~rec.enabled /\ pc \notin {"count", "send"}
  BY <1>1 DEF FrameInv, Alone, Sending, Commands
<1>3. Stopped
  <2>1. cam' = cam \/ cam' = ClosedCamera
    BY DEF TakeAnswer
  <2>2. rec' = rec \/ rec' = NotRecording
    BY DEF TakeAnswer
  <2>3. cam \in Cameras /\ ClosedCamera \in Cameras
    BY DEF FrameInv, Devices, Cameras, ClosedCamera
  <2>4. rec' \in Recordings /\ ~rec'.enabled
    BY <2>2, <1>2, NotRecordingIsOne DEF FrameInv, Devices
  <2>5. rec.enabled \in BOOLEAN /\ rec'.enabled \in BOOLEAN
    BY <2>4 DEF FrameInv, Devices, Recordings
  <2> QED BY <1>2, <2>1, <2>3, <2>4, <2>5 DEF Stopped
<1> QED BY <1>1, <1>2, <1>3, BusyStep

LEMMA ReopenFrames == ASSUME FrameInv, Reopen PROVE FrameInv'
<1>1. app = "closed" /\ pc' = "loop" /\ UNCHANGED <<enc, rel>>
  BY DEF Reopen
<1>2. ~rec.enabled
  BY <1>1 DEF FrameInv, Alone
<1>3. Stopped
  <2>1. cam' \in Cameras
    BY DEF Reopen, Cameras, ClosedCamera
  <2>2. rec' \in Recordings /\ ~rec'.enabled
    BY NotRecordingIsOne DEF Reopen
  <2>3. rec.enabled \in BOOLEAN /\ rec'.enabled \in BOOLEAN
    BY <2>2 DEF FrameInv, Devices, Recordings
  <2> QED BY <1>2, <2>1, <2>2, <2>3 DEF Stopped
<1> QED BY <1>1, <1>3, BusyStep

LEMMA FrameInit == ASSUME Init PROVE FrameInv
<1>1. /\ rec = NotRecording /\ cam = [ClosedCamera EXCEPT !.open = TRUE]
      /\ enc = {} /\ rel = NoRelease /\ pc = "loop" /\ app = "idle"
  BY DEF Init
<1>2. rec \in Recordings /\ ~rec.enabled
  BY <1>1, NotRecordingIsOne
<1>3. cam \in Cameras
  BY <1>1 DEF Cameras, ClosedCamera
<1>4. Devices
  BY <1>1, <1>2, <1>3, FS_EmptySet DEF Devices, Releases, NoRelease
<1> QED BY <1>1, <1>2, <1>4
     DEF FrameInv, Held, Alone, Mapped, Apart, Counted, Sending, NoRelease

LEMMA FrameNext ==
  ASSUME CallInv, FrameInv, "late" \notin Races, [Next]_vars PROVE FrameInv'
<1>1. CASE PreviewStep
  <2>1. ASSUME NEW b \in Buffers, DqFrame(b) PROVE FrameInv'
    BY <2>1, DqFrames
  <2>2. ASSUME NEW b \in Buffers, HideFrame(b) PROVE FrameInv'
    BY <2>2, ShownFrames
  <2>3. ASSUME NEW k \in 0 .. NumBuffers, StartStops(k) PROVE FrameInv'
    BY <2>3, CommandFrames
  <2>4. ASSUME NEW ok \in BOOLEAN, StopCommand(ok) \/ KillCommand(ok) PROVE FrameInv'
    BY <2>4, StopFrames
  <2>5. CASE Loop \/ NoCommand \/ DqFails \/ ShowFrame \/ ShowNothing \/ HideFails
    BY <2>5, ShownFrames
  <2>6. CASE CountFrame \/ SendFrame \/ FrameBack
    BY <2>6, CountFrames, SendFrames, BackFrames
  <2>7. CASE \/ StartAgain \/ StartReset \/ StartFails \/ StartQueue \/ StopAgain
             \/ CaptureCommand \/ CaptureStopFails \/ CaptureThreadFails
    BY <2>7, CommandFrames
  <2> QED BY <1>1, <2>1, <2>2, <2>3, <2>4, <2>5, <2>6, <2>7 DEF PreviewStep
<1>2. CASE PictureStep
  BY <1>2, PictureFrames
<1>3. CASE ServiceCall
  <2>1. ASSUME NEW c \in Commands, Command(c) PROVE FrameInv'
    BY <2>1, QuietCalls DEF Command, halVars
  <2>2. ASSUME NEW o \in BOOLEAN, SetOverlay(o) PROVE FrameInv'
    BY <2>2, QuietCalls DEF SetOverlay
  <2>3. CASE StartPreview
    BY <2>3, QuietCalls DEF StartPreview
  <2> QED BY <1>3, <2>1, <2>2, <2>3, RecordingFrames, UnmappedFrames, StoppedFrames,
             ReopenFrames
       DEF ServiceCall
<1>4. CASE TakeAnswer
  BY <1>4, AnswerFrames
<1>5. CASE EncoderStep
  BY <1>5, ReleaseFrames, QueueFrames, MarkFrames DEF EncoderStep
<1>6. CASE DisplayOff
  BY <1>6, ShownFrames
<1>7. CASE UNCHANGED vars
  <2>1. UNCHANGED <<rec, cam, enc, rel, app, pc, frame>> /\ cam \in Cameras
    BY <1>7 DEF vars, halVars, FrameInv, Devices
  <2> QED BY <2>1, KeptStep
<1> QED BY <1>1, <1>2, <1>3, <1>4, <1>5, <1>6, <1>7 DEF Next

-----------------------------------------------------------------------------
(* The theorems about frames.                                              *)

\* The inductive invariant of the frames between nextPreview(), the encoder
\* and releaseRecordingFrame(), for callers that wait until the last frame is
\* back.
THEOREM FramesKept == ASSUME "late" \notin Races PROVE Spec => []FrameInv
<1>1. Init => FrameInv
  BY FrameInit
<1>2. CallInv /\ FrameInv /\ [Next]_vars => FrameInv'
  BY FrameNext
<1> QED BY <1>1, <1>2, CallsKept, PTL DEF Spec

\* EncoderKeepsFrames: while recording, the camera never gets a frame back that
\* the encoder still reads, and the encoder never has more than it is promised.
THEOREM EncoderKeeps == ASSUME "late" \notin Races PROVE Spec => []EncoderKeepsFrames
<1>1. FrameInv => EncoderKeepsFrames
  <2>1. SUFFICES ASSUME FrameInv, rec.enabled PROVE EncoderKeepsFrames
    BY DEF EncoderKeepsFrames
  <2>2. Cardinality(enc) \in Nat /\ EncoderFrames \in Nat
    BY <2>1, FS_CardinalityType, CameraAssumption DEF FrameInv, Devices
  <2> QED BY <2>1, <2>2 DEF FrameInv, Apart, Counted, EncoderKeepsFrames
<1> QED BY <1>1, FramesKept, PTL

\* ReleaseFindsFrame: releaseRecordingFrame() finds its frame mapped.
THEOREM ReleaseFinds == ASSUME "late" \notin Races PROVE Spec => []ReleaseFindsFrame
<1>1. FrameInv => ReleaseFindsFrame
  BY DEF FrameInv, Mapped, ReleaseFindsFrame
<1> QED BY <1>1, FramesKept, PTL

-----------------------------------------------------------------------------
(* The types of the rest.                                                  *)

Displays == [on : BOOLEAN, queued : SUBSET Buffers]

ThreadTypes ==
  /\ mPreviewRunning \in BOOLEAN /\ mFalsePreview \in BOOLEAN /\ mode \in Modes
  /\ driver \in SUBSET Buffers
  /\ pc \in PreviewPCs
  /\ frame \in [b : Buffers \cup {None}, back : BOOLEAN]
  /\ pic \in {"idle", "begin", "shot"}

OverlayTypes ==
  /\ mOverlay \in BOOLEAN /\ mDSSActive \in BOOLEAN
  /\ disp \in Displays
  /\ dss \in SUBSET Buffers /\ nOverlayBuffersQueued \in Int

\* A frame is being handled: it is one of the camera's.
Handling == pc \in {"count", "send", "show", "hide", "back"}
Handled  == Handling => frame.b \in Buffers

LEMMA ThreadNext ==
  ASSUME ThreadTypes, FrameInv, [Next]_vars PROVE ThreadTypes'
<1>1. ASSUME Loop PROVE ThreadTypes'
  BY <1>1 DEF ThreadTypes, PreviewPCs, Loop, halVars, dssVars, queues
<1>2. ASSUME NoCommand PROVE ThreadTypes'
  BY <1>2 DEF ThreadTypes, PreviewPCs, NoCommand, halVars, dssVars, queues
<1>3. ASSUME DqFails PROVE ThreadTypes'
  BY <1>3 DEF ThreadTypes, PreviewPCs, DqFails, halVars, dssVars, queues
<1>4. ASSUME CountFrame PROVE ThreadTypes'
  BY <1>4 DEF ThreadTypes, PreviewPCs, CountFrame, dssVars, queues
<1>5. ASSUME SendFrame PROVE ThreadTypes'
  BY <1>5 DEF ThreadTypes, PreviewPCs, SendFrame, halVars, dssVars, queues
<1>6. ASSUME ShowFrame PROVE ThreadTypes'
  BY <1>6 DEF ThreadTypes, PreviewPCs, ShowFrame, halVars, queues
<1>7. ASSUME ShowNothing PROVE ThreadTypes'
  BY <1>7 DEF ThreadTypes, PreviewPCs, ShowNothing, halVars, dssVars, queues
<1>8. ASSUME HideFails PROVE ThreadTypes'
  BY <1>8 DEF ThreadTypes, PreviewPCs, HideFails, halVars, dssVars, queues
<1>9. ASSUME FrameBack PROVE ThreadTypes'
  BY <1>9 DEF ThreadTypes, PreviewPCs, FrameBack, NoFrame, FrameInv, Held, halVars,
       dssVars, queues
<1>10. ASSUME StartAgain PROVE ThreadTypes'
  BY <1>10 DEF ThreadTypes, PreviewPCs, StartAgain, dssVars
<1>11. ASSUME StartReset PROVE ThreadTypes'
  BY <1>11 DEF ThreadTypes, PreviewPCs, StartReset
<1>12. ASSUME StartFails PROVE ThreadTypes'
  BY <1>12 DEF ThreadTypes, PreviewPCs, StartFails, Refuse
<1>13. ASSUME StartQueue PROVE ThreadTypes'
  BY <1>13 DEF ThreadTypes, PreviewPCs, StartQueue, ForCamera
<1>14. ASSUME StopAgain PROVE ThreadTypes'
  BY <1>14 DEF ThreadTypes, PreviewPCs, StopAgain, halVars, dssVars
<1>15. ASSUME CaptureCommand PROVE ThreadTypes'
  BY <1>15 DEF ThreadTypes, PreviewPCs, CaptureCommand
<1>16. ASSUME CaptureStopFails PROVE ThreadTypes'
  BY <1>16 DEF ThreadTypes, PreviewPCs, CaptureStopFails
<1>17. ASSUME CaptureThreadFails PROVE ThreadTypes'
  BY <1>17 DEF ThreadTypes, PreviewPCs, CaptureThreadFails
<1>18. ASSUME PictureBegin PROVE ThreadTypes'
  BY <1>18 DEF ThreadTypes, PreviewPCs, PictureBegin, halVars, dssVars, queues
<1>19. ASSUME PictureShot PROVE ThreadTypes'
  BY <1>19 DEF ThreadTypes, PreviewPCs, PictureShot, halVars, dssVars, queues
<1>20. ASSUME StartPreview PROVE ThreadTypes'
  BY <1>20 DEF ThreadTypes, PreviewPCs, StartPreview, dssVars
<1>21. ASSUME StartRecording \/ StartRecordingFails PROVE ThreadTypes'
  BY <1>21 DEF ThreadTypes, PreviewPCs, StartRecording, StartRecordingFails, dssVars, queues
<1>22. ASSUME StopRecording PROVE ThreadTypes'
  BY <1>22 DEF ThreadTypes, PreviewPCs, StopRecording, dssVars, queues
<1>23. ASSUME Reopen PROVE ThreadTypes'
  BY <1>23 DEF ThreadTypes, PreviewPCs, Reopen, NoFrame
<1>24. ASSUME TakeAnswer PROVE ThreadTypes'
  BY <1>24 DEF ThreadTypes, PreviewPCs, TakeAnswer, dssVars
<1>25. ASSUME ReleaseQueue PROVE ThreadTypes'
  BY <1>25 DEF ThreadTypes, PreviewPCs, ReleaseQueue, halVars, dssVars, queues
<1>26. ASSUME ReleaseMark PROVE ThreadTypes'
  BY <1>26 DEF ThreadTypes, PreviewPCs, ReleaseMark, FrameInv, Held, halVars, dssVars, queues
<1>27. ASSUME DisplayOff PROVE ThreadTypes'
  BY <1>27 DEF ThreadTypes, PreviewPCs, DisplayOff, halVars, dssVars, queues
<1>28. ASSUME NEW b \in Buffers, DqFrame(b) PROVE ThreadTypes'
  BY <1>28 DEF ThreadTypes, PreviewPCs, DqFrame, ToEncoder, FrameInv, Devices,
       Recordings, Cameras, halVars, dssVars, queues
<1>29. ASSUME NEW b \in Buffers, HideFrame(b) PROVE ThreadTypes'
  BY <1>29 DEF ThreadTypes, PreviewPCs, HideFrame, halVars, queues
<1>30. ASSUME NEW k \in 0 .. NumBuffers, StartStops(k) PROVE ThreadTypes'
  BY <1>30 DEF ThreadTypes, PreviewPCs, StartStops, ForCamera
<1>31. ASSUME NEW b \in Buffers, ReleaseFrame(b) PROVE ThreadTypes'
  BY <1>31 DEF ThreadTypes, PreviewPCs, ReleaseFrame, dssVars, queues
<1>32. ASSUME NEW ok \in BOOLEAN, StopCommand(ok) PROVE ThreadTypes'
  BY <1>32 DEF ThreadTypes, PreviewPCs, StopCommand
<1>33. ASSUME NEW ok \in BOOLEAN, KillCommand(ok) PROVE ThreadTypes'
  BY <1>33 DEF ThreadTypes, PreviewPCs, KillCommand
<1>34. ASSUME NEW c \in Commands, Command(c) PROVE ThreadTypes'
  BY <1>34 DEF ThreadTypes, PreviewPCs, Command, halVars, dssVars
<1>35. ASSUME NEW o \in BOOLEAN, SetOverlay(o) PROVE ThreadTypes'
  BY <1>35 DEF ThreadTypes, PreviewPCs, SetOverlay
<1>36. CASE UNCHANGED vars
  BY <1>36 DEF ThreadTypes, vars, dssVars, halVars
<1> QED BY <1>1, <1>2, <1>3, <1>4, <1>5, <1>6, <1>7, <1>8, <1>9, <1>10, <1>11, <1>12,
     <1>13, <1>14, <1>15, <1>16, <1>17, <1>18, <1>19, <1>20, <1>21, <1>22, <1>23, <1>24,
     <1>25, <1>26, <1>27, <1>28, <1>29, <1>30, <1>31, <1>32, <1>33, <1>34, <1>35, <1>36
     DEF Next, PreviewStep, PictureStep, ServiceCall, EncoderStep

LEMMA Sizes ==
  ASSUME NEW S \in SUBSET Buffers PROVE IsFiniteSet(S) /\ Cardinality(S) \in Int
<1>1. IsFiniteSet(Buffers)
  BY FS_Interval, CameraAssumption DEF Buffers
<1> QED BY <1>1, FS_Subset, FS_CardinalityType

LEMMA IdleIsOne == DisplayIdle \in Displays
BY DEF DisplayIdle, Displays

LEMMA DestroyTypes ==
  ASSUME OverlayTypes, Destroy, mDSSActive' = mDSSActive PROVE OverlayTypes'
<1>1. disp' \in Displays
  BY IdleIsOne DEF OverlayTypes, Destroy
<1>2. dss' \in SUBSET Buffers /\ nOverlayBuffersQueued' \in Int
  <2>1. \/ dss' = {} /\ nOverlayBuffersQueued' = 0
        \/ UNCHANGED <<dss, nOverlayBuffersQueued>>
    BY DEF Destroy
  <2> QED BY <2>1 DEF OverlayTypes
<1>3. mOverlay' \in BOOLEAN /\ mDSSActive' \in BOOLEAN
  BY DEF OverlayTypes, Destroy
<1> QED BY <1>1, <1>2, <1>3 DEF OverlayTypes

LEMMA CameraStopTypes ==
  ASSUME OverlayTypes, NEW ok \in BOOLEAN, CameraStop(ok), mDSSActive' = mDSSActive
  PROVE  OverlayTypes'
<1>1. disp' \in Displays
  BY IdleIsOne DEF OverlayTypes, CameraStop
<1>2. dss' \in SUBSET Buffers
  <2>1. dss' = {} \/ dss' = dss
    BY DEF CameraStop
  <2> QED BY <2>1 DEF OverlayTypes
<1>3. nOverlayBuffersQueued' \in Int
  <2>1. nOverlayBuffersQueued' \in {0, nOverlayBuffersQueued}
    BY DEF CameraStop
  <2> QED BY <2>1 DEF OverlayTypes
<1>4. mOverlay' \in BOOLEAN
  <2>1. mOverlay' = FALSE \/ mOverlay' = mOverlay
    BY DEF CameraStop
  <2> QED BY <2>1 DEF OverlayTypes
<1> QED BY <1>1, <1>2, <1>3, <1>4 DEF OverlayTypes

LEMMA StopFailedTypes ==
  ASSUME OverlayTypes, StopFailed, mDSSActive' = mDSSActive PROVE OverlayTypes'
<1>1. CASE mode = "third"
  <2>1. disp' \in Displays
    BY <1>1, IdleIsOne DEF OverlayTypes, StopFailed
  <2>2. dss' \in SUBSET Buffers /\ mOverlay' \in BOOLEAN
    BY <1>1 DEF OverlayTypes, StopFailed
  <2>3. nOverlayBuffersQueued' \in Int
    BY <1>1 DEF OverlayTypes, StopFailed
  <2> QED BY <2>1, <2>2, <2>3 DEF OverlayTypes
<1>2. CASE mode # "third"
  BY <1>2, CameraStopTypes DEF StopFailed
<1> QED BY <1>1, <1>2

LEMMA OverlayNext ==
  ASSUME OverlayTypes, Handled, [Next]_vars PROVE OverlayTypes'
<1>1. ASSUME Loop PROVE OverlayTypes'
  BY <1>1 DEF OverlayTypes, Loop, halVars, dssVars
<1>2. ASSUME NoCommand PROVE OverlayTypes'
  BY <1>2 DEF OverlayTypes, NoCommand, halVars, dssVars
<1>3. ASSUME DqFails PROVE OverlayTypes'
  BY <1>3 DEF OverlayTypes, DqFails, halVars, dssVars
<1>4. ASSUME CountFrame PROVE OverlayTypes'
  BY <1>4 DEF OverlayTypes, CountFrame, dssVars
<1>5. ASSUME SendFrame PROVE OverlayTypes'
  BY <1>5 DEF OverlayTypes, SendFrame, halVars, dssVars
<1>6. ASSUME ShowFrame PROVE OverlayTypes'
  <2>1. /\ \E on \in BOOLEAN : disp' = [on |-> on, queued |-> disp.queued \cup {frame.b}]
        /\ frame.b \in Buffers
    BY <1>6 DEF ShowFrame, Handled, Handling
  <2>2. disp' \in Displays
    BY <2>1 DEF OverlayTypes, Displays
  <2>3. dss' \in SUBSET Buffers
    BY <1>6, <2>1 DEF OverlayTypes, ShowFrame, Recount
  <2>4. nOverlayBuffersQueued' \in Int
    <3>1. ((dss \cup {frame.b}) \ dss') \in SUBSET Buffers
      BY <2>1 DEF OverlayTypes
    <3>2. Cardinality((dss \cup {frame.b}) \ dss') \in Int
      BY <3>1, Sizes
    <3>3. nOverlayBuffersQueued' =
           nOverlayBuffersQueued + 1 - Cardinality((dss \cup {frame.b}) \ dss')
      BY <1>6 DEF ShowFrame
    <3> QED BY <3>2, <3>3 DEF OverlayTypes
  <2> QED BY <1>6, <2>2, <2>3, <2>4 DEF OverlayTypes, ShowFrame, halVars
<1>7. ASSUME ShowNothing PROVE OverlayTypes'
  BY <1>7 DEF OverlayTypes, ShowNothing, halVars, dssVars
<1>8. ASSUME HideFails PROVE OverlayTypes'
  <2>1. disp' \in Displays
    BY <1>8, IdleIsOne DEF OverlayTypes, HideFails
  <2>2. Reclaimed(disp') \in SUBSET Buffers
    BY DEF Reclaimed, OverlayTypes
  <2>3. Cardinality(Reclaimed(disp')) \in Int
    BY <2>2, Sizes
  <2>4. \/ /\ dss' = dss \ Reclaimed(disp') /\ mDSSActive' = FALSE
           /\ nOverlayBuffersQueued' = nOverlayBuffersQueued - Cardinality(Reclaimed(disp'))
        \/ UNCHANGED <<dss, nOverlayBuffersQueued, mDSSActive>>
    BY <1>8 DEF HideFails, dssVars
  <2>5. dss' \in SUBSET Buffers /\ nOverlayBuffersQueued' \in Int
    BY <2>3, <2>4 DEF OverlayTypes
  <2>6. mDSSActive' \in BOOLEAN
    BY <2>4 DEF OverlayTypes
  <2> QED BY <1>8, <2>1, <2>5, <2>6 DEF OverlayTypes, HideFails, halVars
<1>9. ASSUME FrameBack PROVE OverlayTypes'
  BY <1>9 DEF OverlayTypes, FrameBack, halVars, dssVars
<1>10. ASSUME StartAgain PROVE OverlayTypes'
  BY <1>10 DEF OverlayTypes, StartAgain, dssVars
<1>11. ASSUME StartReset PROVE OverlayTypes'
  BY <1>11 DEF OverlayTypes, StartReset
<1>12. ASSUME StartFails PROVE OverlayTypes'
  <2>1. CASE mode = "third"
    BY <1>12, <2>1, DestroyTypes DEF StartFails, Refuse
  <2>2. CASE mode # "third"
    BY <1>12, <2>2 DEF StartFails, Refuse, OverlayTypes
  <2> QED BY <2>1, <2>2
<1>13. ASSUME StartQueue PROVE OverlayTypes'
  <2>1. dss' \in SUBSET Buffers /\ nOverlayBuffersQueued' = Cardinality(dss')
    BY <1>13 DEF StartQueue
  <2>2. nOverlayBuffersQueued' \in Int
    BY <2>1, Sizes
  <2> QED BY <1>13, <2>1, <2>2 DEF StartQueue, OverlayTypes
<1>14. ASSUME StopAgain PROVE OverlayTypes'
  BY <1>14 DEF OverlayTypes, StopAgain, halVars, dssVars
<1>15. ASSUME CaptureCommand PROVE OverlayTypes'
  <2>1. CASE mPreviewRunning
    BY <1>15, <2>1, CameraStopTypes DEF CaptureCommand
  <2>2. CASE ~mPreviewRunning
    BY <1>15, <2>2 DEF CaptureCommand, OverlayTypes
  <2> QED BY <2>1, <2>2
<1>16. ASSUME CaptureStopFails PROVE OverlayTypes'
  BY <1>16, StopFailedTypes DEF CaptureStopFails
<1>17. ASSUME CaptureThreadFails PROVE OverlayTypes'
  <2>1. mDSSActive' = mDSSActive
    BY <1>17 DEF CaptureThreadFails
  <2>2. \/ StopFailed \/ Destroy \/ CameraStop(TRUE)
        \/ UNCHANGED <<dss, nOverlayBuffersQueued, disp, mOverlay>>
    BY <1>17 DEF CaptureThreadFails
  <2>3. CASE UNCHANGED <<dss, nOverlayBuffersQueued, disp, mOverlay>>
    BY <2>1, <2>3 DEF OverlayTypes
  <2> QED BY <2>1, <2>2, <2>3, StopFailedTypes, DestroyTypes, CameraStopTypes
<1>18. ASSUME PictureBegin PROVE OverlayTypes'
  BY <1>18 DEF OverlayTypes, PictureBegin, halVars, dssVars
<1>19. ASSUME PictureShot PROVE OverlayTypes'
  BY <1>19 DEF OverlayTypes, PictureShot, halVars, dssVars
<1>20. ASSUME StartPreview PROVE OverlayTypes'
  BY <1>20 DEF OverlayTypes, StartPreview, dssVars
<1>21. ASSUME StartRecording \/ StartRecordingFails PROVE OverlayTypes'
  BY <1>21 DEF OverlayTypes, StartRecording, StartRecordingFails, dssVars
<1>22. ASSUME StopRecording PROVE OverlayTypes'
  BY <1>22 DEF OverlayTypes, StopRecording, dssVars
<1>23. ASSUME Reopen PROVE OverlayTypes'
  <2>1. mOverlay' = FALSE /\ mDSSActive' = FALSE /\ disp' = DisplayIdle
    BY <1>23 DEF Reopen
  <2>2. dss' = {} /\ nOverlayBuffersQueued' = 0
    BY <1>23 DEF Reopen
  <2>3. disp' \in Displays /\ dss' \in SUBSET Buffers /\ nOverlayBuffersQueued' \in Int
    BY <2>1, <2>2, IdleIsOne
  <2>4. mOverlay' \in BOOLEAN /\ mDSSActive' \in BOOLEAN
    BY <2>1
  <2> QED BY <2>3, <2>4 DEF OverlayTypes
<1>24. ASSUME TakeAnswer PROVE OverlayTypes'
  <2>1. disp' \in Displays /\ mOverlay' \in BOOLEAN
    BY <1>24, IdleIsOne DEF TakeAnswer, OverlayTypes
  <2> QED BY <1>24, <2>1 DEF TakeAnswer, OverlayTypes, dssVars
<1>25. ASSUME ReleaseQueue PROVE OverlayTypes'
  BY <1>25 DEF OverlayTypes, ReleaseQueue, halVars, dssVars
<1>26. ASSUME ReleaseMark PROVE OverlayTypes'
  BY <1>26 DEF OverlayTypes, ReleaseMark, halVars, dssVars
<1>27. ASSUME DisplayOff PROVE OverlayTypes'
  BY <1>27 DEF OverlayTypes, DisplayOff, DisplayIdle, Displays, halVars, dssVars
<1>28. ASSUME NEW b \in Buffers, DqFrame(b) PROVE OverlayTypes'
  BY <1>28 DEF OverlayTypes, DqFrame, halVars, dssVars
<1>29. ASSUME NEW b \in Buffers, HideFrame(b) PROVE OverlayTypes'
  BY <1>29 DEF OverlayTypes, HideFrame, Displays, halVars
<1>30. ASSUME NEW k \in 0 .. NumBuffers, StartStops(k) PROVE OverlayTypes'
  <2>1. CASE mode = "third"
    BY <1>30, <2>1, DestroyTypes DEF StartStops
  <2>2. CASE mode # "third"
    <3> DEFINE overlay == (Buffers \cap 0 .. k) \ ForCamera
    <3>1. dss' = (dss \ 0 .. k) \cup overlay /\ nOverlayBuffersQueued' = Cardinality(overlay)
      BY <1>30, <2>2 DEF StartStops
    <3>2. overlay \in SUBSET Buffers
      OBVIOUS
    <3>3. Cardinality(overlay) \in Int
      BY <3>2, Sizes
    <3>4. dss' \in SUBSET Buffers /\ nOverlayBuffersQueued' \in Int
      BY <3>1, <3>2, <3>3 DEF OverlayTypes
    <3> QED BY <1>30, <2>2, <3>4 DEF StartStops, OverlayTypes
  <2> QED BY <2>1, <2>2
<1>31. ASSUME NEW b \in Buffers, ReleaseFrame(b) PROVE OverlayTypes'
  BY <1>31 DEF OverlayTypes, ReleaseFrame, dssVars
<1>32. ASSUME NEW ok \in BOOLEAN, StopCommand(ok) PROVE OverlayTypes'
  <2>1. CASE ok
    BY <1>32, <2>1, CameraStopTypes DEF StopCommand
  <2>2. CASE ~ok
    BY <1>32, <2>2, StopFailedTypes DEF StopCommand
  <2> QED BY <2>1, <2>2
<1>33. ASSUME NEW ok \in BOOLEAN, KillCommand(ok) PROVE OverlayTypes'
  <2>1. CASE mPreviewRunning
    BY <1>33, <2>1, CameraStopTypes DEF KillCommand
  <2>2. CASE ~mPreviewRunning
    BY <1>33, <2>2 DEF KillCommand, OverlayTypes
  <2> QED BY <2>1, <2>2
<1>34. ASSUME NEW c \in Commands, Command(c) PROVE OverlayTypes'
  BY <1>34 DEF OverlayTypes, Command, halVars, dssVars
<1>35. ASSUME NEW o \in BOOLEAN, SetOverlay(o) PROVE OverlayTypes'
  BY <1>35 DEF OverlayTypes, SetOverlay, DisplayIdle, Displays
<1>36. CASE UNCHANGED vars
  BY <1>36 DEF OverlayTypes, vars, dssVars, halVars
<1> QED BY <1>1, <1>2, <1>3, <1>4, <1>5, <1>6, <1>7, <1>8, <1>9, <1>10, <1>11, <1>12,
     <1>13, <1>14, <1>15, <1>16, <1>17, <1>18, <1>19, <1>20, <1>21, <1>22, <1>23, <1>24,
     <1>25, <1>26, <1>27, <1>28, <1>29, <1>30, <1>31, <1>32, <1>33, <1>34, <1>35, <1>36
     DEF Next, PreviewStep, PictureStep, ServiceCall, EncoderStep

\* TypeOK, for callers that wait until the last frame is back.
THEOREM TypeCorrect == ASSUME "late" \notin Races PROVE Spec => []TypeOK
<1>1. Init => ThreadTypes /\ OverlayTypes
  <2>1. ASSUME Init PROVE ThreadTypes
    BY <2>1 DEF Init, ThreadTypes, PreviewPCs, NoFrame
  <2>2. ASSUME Init PROVE OverlayTypes
    <3>1. disp \in Displays /\ dss \in SUBSET Buffers /\ nOverlayBuffersQueued \in Int
      BY <2>2, IdleIsOne DEF Init
    <3>2. mOverlay \in BOOLEAN /\ mDSSActive \in BOOLEAN
      BY <2>2 DEF Init
    <3> QED BY <3>1, <3>2 DEF OverlayTypes
  <2> QED BY <2>1, <2>2
<1>2. ThreadTypes /\ OverlayTypes /\ FrameInv /\ [Next]_vars
        => ThreadTypes' /\ OverlayTypes'
  BY ThreadNext, OverlayNext DEF FrameInv, Held, Handled, Handling
<1>3. CallInv /\ FrameInv /\ ThreadTypes /\ OverlayTypes => TypeOK
  <2>1. SUFFICES ASSUME CallInv, FrameInv, ThreadTypes, OverlayTypes PROVE TypeOK
    OBVIOUS
  <2>2. /\ rec \in Recordings /\ cam \in Cameras /\ rel \in Releases
        /\ enc \in SUBSET Buffers
    BY <2>1 DEF FrameInv, Devices, Held
  <2>3. Queues
    BY <2>1 DEF CallInv, Asked
  <2> QED BY <2>1, <2>2, <2>3 DEF TypeOK, ThreadTypes, OverlayTypes, Queues, Recordings,
          Cameras, Releases, Displays
<1> QED BY <1>1, <1>2, <1>3, CallsKept, FramesKept, PTL DEF Spec

-----------------------------------------------------------------------------
(* The overlay's flags and its count.  DisplayOff may empty the overlay's    *)
(* queue at any moment, unseen by the preview thread: its flags are then too *)
(* many, and are corrected by the next queueBuffer() or dequeueBuffer().     *)
(* After a refused VIDIOC_STREAMOFF the count may be too high as well.       *)

\* Unless VIDIOC_STREAMON fails, what is in the overlay's queue is less than
\* dequeueBuffer() needs, but for a moment.
Room ==
  "on" \notin Faults =>
    /\ pc = "hide" => Cardinality(disp.queued) <= Optimal
    /\ pc # "hide" => Cardinality(disp.queued) < Optimal
    /\ ~disp.on => disp.queued = {}

\* The count is never too low; it is too high with one flag at most.
Enough ==
  \/ disp.queued = {} /\ nOverlayBuffersQueued >= Cardinality(dss)
  \/ /\ dss \subseteq disp.queued
     /\ \/ nOverlayBuffersQueued = Cardinality(disp.queued)
        \/ nOverlayBuffersQueued >= Cardinality(disp.queued) /\ Cardinality(dss) <= 1

\* In a preview the flags are the queue, unless the display has been stopped.
Flagged ==
  nOverlayBuffersQueued = Cardinality(dss) /\ disp.queued \in {dss, {}}

Flags ==
  /\ Room
  /\ Delivers \/ Handling => Enough
  /\ cam.on = "preview" => Flagged
  /\ pc = "start" => ~Delivers
  /\ rec.recorded => rec.counted

LEMMA Sets ==
  ASSUME OverlayTypes
  PROVE  /\ IsFiniteSet(dss) /\ Cardinality(dss) \in Nat
         /\ IsFiniteSet(disp.queued) /\ Cardinality(disp.queued) \in Nat
         /\ nOverlayBuffersQueued \in Int
         /\ Cardinality({}) = 0 /\ DisplayIdle.queued = {} /\ DisplayIdle.on = FALSE
         /\ Optimal \in Nat /\ Optimal > 0
<1>1. dss \in SUBSET Buffers /\ disp.queued \in SUBSET Buffers
  BY DEF OverlayTypes, Displays
<1>2. Cardinality(dss) \in Nat /\ Cardinality(disp.queued) \in Nat
  BY <1>1, Sizes, FS_CardinalityType
<1> QED
  BY <1>1, <1>2, Sizes, FS_EmptySet, CameraAssumption DEF OverlayTypes, DisplayIdle

\* A step of the callers or the devices, and one of the thread that leaves the
\* overlay alone: the display may stop, and the flags be forgotten.
LEMMA FlagsLeft ==
  ASSUME OverlayTypes, Flags,
         \/ disp' = disp /\ (pc = "hide" => pc' = "hide")
         \/ disp' = DisplayIdle,
         \/ UNCHANGED <<dss, nOverlayBuffersQueued>>
         \/ dss' = {} /\ nOverlayBuffersQueued' = 0 /\ disp' = DisplayIdle
         \/ dss' = {} /\ nOverlayBuffersQueued' = nOverlayBuffersQueued
              /\ cam'.on # "preview",
         cam'.on = "preview" => cam.on = "preview",
         Delivers' => Delivers,
         Handling' => Handling \/ Delivers,
         pc' = "start" => ~Delivers',
         rec'.recorded => rec'.counted
  PROVE  Flags'
<1> USE Sets
<1>1. Room'
  BY DEF Flags, Room
<1>2. ASSUME Enough PROVE Enough'
  <2>1. dss \subseteq disp.queued => Cardinality(dss) <= Cardinality(disp.queued)
    BY FS_Subset
  <2>2. nOverlayBuffersQueued >= Cardinality(dss)
    BY <1>2, <2>1 DEF Enough
  <2>3. CASE disp' = DisplayIdle
    <3>1. disp'.queued = {} /\ nOverlayBuffersQueued' >= Cardinality(dss')
      BY <2>2, <2>3
    <3> QED
      BY <3>1 DEF Enough
  <2>4. CASE disp' = disp /\ UNCHANGED <<dss, nOverlayBuffersQueued>>
    BY <1>2, <2>4 DEF Enough
  <2>5. CASE disp' = disp /\ dss' = {} /\ nOverlayBuffersQueued' = nOverlayBuffersQueued
    BY <1>2, <2>2, <2>5 DEF Enough
  <2> QED
    BY <2>3, <2>4, <2>5
<1>3. ASSUME Flagged, cam'.on = "preview" PROVE Flagged'
  BY <1>3 DEF Flagged
<1> QED
  BY <1>1, <1>2, <1>3 DEF Flags

\* A step after which the camera delivers nothing and the thread has no frame.
LEMMA FlagsOff ==
  ASSUME OverlayTypes, Flags, ~Delivers', ~Handling', pc # "hide",
         disp' = disp \/ disp' = DisplayIdle,
         rec'.recorded => rec'.counted
  PROVE  Flags'
<1> USE Sets
<1>1. Room'
  BY DEF Flags, Room, Handling
<1> QED
  BY <1>1 DEF Flags, Delivers

\* queueBuffer(): the count and the flags are those of the queue again, or the
\* new flag is the only one.
LEMMA ShowFlags ==
  ASSUME OverlayTypes, Handled, Flags, ShowFrame
  PROVE  Flags'
<1> DEFINE b == frame.b
           q == disp.queued
           n == nOverlayBuffersQueued
<1>1. /\ pc = "show" /\ b \in Buffers /\ b \notin dss /\ b \notin q
      /\ \E on \in BOOLEAN : (on \/ "on" \in Faults) /\ disp' = [on |-> on, queued |-> q \cup {b}]
      /\ dss' = Recount(b, Cardinality(q \cup {b}))
      /\ n' = n + 1 - Cardinality((dss \cup {b}) \ dss')
      /\ pc' = IF n' >= Optimal THEN "hide" ELSE "back"
      /\ UNCHANGED <<cam, rec>>
  BY DEF ShowFrame, Handled, Handling, halVars, MayFail
<1>2. /\ IsFiniteSet(dss) /\ Cardinality(dss) \in Nat /\ IsFiniteSet(q) /\ Cardinality(q) \in Nat
      /\ n \in Int /\ Optimal \in Nat
  BY Sets
<1>3. disp'.queued = q \cup {b} /\ ("on" \notin Faults => disp'.on)
  BY <1>1
<1>4. Cardinality(q \cup {b}) = Cardinality(q) + 1 /\ Cardinality({b}) = 1
      /\ Cardinality(dss \cup {b}) = Cardinality(dss) + 1
  BY <1>1, <1>2, FS_AddElement, FS_Singleton
<1>5. Cardinality({}) = 0
  BY FS_EmptySet
<1>6. Enough /\ ("on" \notin Faults => Cardinality(q) < Optimal)
  BY <1>1 DEF Flags, Handling, Room
<1>7. CASE Cardinality(q) = n
  <2>1. dss' = dss \cup {b} /\ n' = n + 1
    <3>1. dss' = dss \cup {b}
      BY <1>1, <1>4, <1>7 DEF Recount
    <3>2. (dss \cup {b}) \ dss' = {}
      BY <3>1
    <3>3. n' = n + 1 - Cardinality({})
      BY <1>1, <3>2
    <3>4. n + 1 - Cardinality({}) = n + 1
      BY <1>2, <1>5
    <3> QED
      BY <3>1, <3>3, <3>4
  <2>2. dss \subseteq q
    <3>1. CASE q = {} /\ n >= Cardinality(dss)
      <4>1. Cardinality(dss) = 0
        BY <1>2, <1>5, <1>7, <3>1
      <4> QED
        BY <1>2, <4>1, FS_EmptySet
    <3> QED
      BY <1>6, <3>1 DEF Enough
  <2>3. Enough' /\ Cardinality(q \cup {b}) = n'
    BY <1>3, <1>4, <1>7, <2>1, <2>2 DEF Enough
  <2>4. ASSUME Flagged PROVE Flagged'
    <3>1. q = dss
      BY <2>2, <2>4 DEF Flagged
    <3> QED
      BY <1>3, <1>4, <2>1, <2>4, <3>1 DEF Flagged
  <2>5. Room'
    BY <1>1, <1>2, <1>3, <1>4, <1>6, <2>3 DEF Room
  <2> QED
    BY <1>1, <2>3, <2>4, <2>5 DEF Flags, Delivers
<1>8. CASE Cardinality(q) # n
  <2>1. dss' = {b} /\ n' = n + 1 - Cardinality(dss)
    <3>1. dss' = {b}
      BY <1>1, <1>2, <1>4, <1>8 DEF Recount
    <3>2. (dss \cup {b}) \ dss' = dss
      BY <1>1, <3>1
    <3> QED
      BY <1>1, <3>1, <3>2
  <2>2. n' >= Cardinality(q \cup {b}) /\ n' \in Int
    <3>1. CASE q = {} /\ n >= Cardinality(dss)
      <4>1. Cardinality(q \cup {b}) = 1
        BY <1>4, <3>1
      <4> QED
        BY <1>2, <2>1, <3>1, <4>1
    <3>2. CASE n >= Cardinality(q) /\ Cardinality(dss) <= 1
      BY <1>2, <1>4, <1>8, <2>1, <3>2
    <3> QED
      BY <1>6, <1>8, <3>1, <3>2 DEF Enough
  <2>3. Enough'
    BY <1>3, <1>4, <2>1, <2>2 DEF Enough
  <2>4. ASSUME Flagged PROVE Flagged'
    <3>1. q = {} /\ n = Cardinality(dss)
      BY <1>8, <2>4 DEF Flagged
    <3>2. n' = 1 /\ disp'.queued = {b}
      BY <1>2, <1>3, <2>1, <3>1
    <3> QED
      BY <1>4, <2>1, <3>2 DEF Flagged
  <2>5. Room'
    BY <1>1, <1>2, <1>3, <1>4, <1>6, <2>2 DEF Room
  <2> QED
    BY <1>1, <2>3, <2>4, <2>5 DEF Flags, Delivers
<1> QED
  BY <1>7, <1>8

\* dequeueBuffer() takes one buffer from the queue, from the flags, and from the
\* count.
LEMMA HideFlags ==
  ASSUME OverlayTypes, Flags, NEW b \in Buffers, HideFrame(b)
  PROVE  Flags'
<1> DEFINE q == disp.queued
           n == nOverlayBuffersQueued
<1>1. /\ pc = "hide" /\ pc' = "back" /\ b \in q /\ disp.on
      /\ disp' = [disp EXCEPT !.queued = @ \ {b}]
      /\ dss' = dss \ {b} /\ n' = n - 1 /\ UNCHANGED <<cam, rec>>
  BY DEF HideFrame, halVars
<1>2. /\ IsFiniteSet(dss) /\ Cardinality(dss) \in Nat /\ IsFiniteSet(q) /\ Cardinality(q) \in Nat
      /\ n \in Int /\ Optimal \in Nat
  BY Sets
<1>3. disp'.queued = q \ {b} /\ disp'.on
  BY <1>1 DEF OverlayTypes, Displays
<1>4. /\ Cardinality(q \ {b}) = Cardinality(q) - 1
      /\ Cardinality(dss \ {b}) = IF b \in dss THEN Cardinality(dss) - 1 ELSE Cardinality(dss)
  BY <1>1, <1>2, FS_RemoveElement
<1>5. Enough /\ ("on" \notin Faults => Cardinality(q) <= Optimal)
  BY <1>1 DEF Flags, Handling, Room
<1>6. dss \subseteq q /\ (n = Cardinality(q) \/ (n >= Cardinality(q) /\ Cardinality(dss) <= 1))
  <2>1. q # {}
    BY <1>1
  <2> QED
    BY <1>5, <2>1 DEF Enough
<1>7. Cardinality(dss \ {b}) <= Cardinality(dss)
  BY <1>2, <1>4
<1>8. n' = Cardinality(q \ {b}) \/ (n' >= Cardinality(q \ {b}) /\ Cardinality(dss') <= 1)
  BY <1>1, <1>2, <1>4, <1>6, <1>7
<1>9. Enough'
  BY <1>1, <1>3, <1>6, <1>8 DEF Enough
<1>10. ASSUME Flagged PROVE Flagged'
  <2>1. q = dss /\ n = Cardinality(dss)
    BY <1>1, <1>10 DEF Flagged
  <2> QED
    BY <1>1, <1>3, <1>4, <2>1 DEF Flagged
<1>11. Room'
  BY <1>1, <1>2, <1>3, <1>4, <1>5 DEF Room
<1> QED
  BY <1>1, <1>9, <1>10, <1>11 DEF Flags, Delivers

\* dequeueBuffer() fails: the display has stopped, or stops.
LEMMA HideFailsFlags ==
  ASSUME OverlayTypes, Flags, HideFails
  PROVE  Flags'
<1> DEFINE q == disp.queued
           n == nOverlayBuffersQueued
<1>1. /\ pc = "hide" /\ pc' = "back" /\ UNCHANGED <<cam, rec>>
      /\ (disp' = disp /\ (~disp.on \/ Cardinality(q) < Optimal)) \/ disp' = DisplayIdle
      /\ \/ dss' = dss \ Reclaimed(disp') /\ n' = n - Cardinality(Reclaimed(disp'))
         \/ UNCHANGED <<dss, n>>
  BY DEF HideFails, halVars, dssVars
<1>2. /\ IsFiniteSet(dss) /\ Cardinality(dss) \in Nat /\ IsFiniteSet(q) /\ Cardinality(q) \in Nat
      /\ n \in Int /\ Optimal \in Nat /\ Optimal > 0 /\ Cardinality({}) = 0
      /\ DisplayIdle.queued = {} /\ DisplayIdle.on = FALSE
  BY Sets
<1>3. Enough /\ Room
  BY <1>1 DEF Flags, Handling
<1>4. n >= Cardinality(dss)
  <2>1. dss \subseteq q => Cardinality(dss) <= Cardinality(q)
    BY <1>2, FS_Subset
  <2> QED
    BY <1>2, <1>3, <2>1 DEF Enough
<1>5. Room'
  BY <1>1, <1>2, <1>3 DEF Room
<1>6. CASE disp'.queued = {}
  <2>1. Reclaimed(disp') = dss
    BY <1>6 DEF Reclaimed
  <2>2. (dss' = {} /\ n' = n - Cardinality(dss)) \/ UNCHANGED <<dss, n>>
    BY <1>1, <2>1
  <2>3. Enough'
    BY <1>2, <1>4, <1>6, <2>2 DEF Enough
  <2>4. Flagged => Flagged'
    BY <1>2, <1>6, <2>2 DEF Flagged
  <2> QED
    BY <1>1, <1>5, <2>3, <2>4 DEF Flags, Delivers
<1>7. CASE disp'.queued # {}
  <2>1. disp' = disp /\ dss \subseteq q
    BY <1>1, <1>2, <1>3, <1>7 DEF Enough
  <2>2. Reclaimed(disp') = {}
    BY <2>1 DEF Reclaimed
  <2>3. UNCHANGED <<dss, n>>
    BY <1>1, <1>2, <2>2
  <2>4. Enough' /\ (Flagged => Flagged')
    BY <1>3, <2>1, <2>3 DEF Enough, Flagged
  <2> QED
    BY <1>1, <1>5, <2>4 DEF Flags, Delivers
<1> QED
  BY <1>6, <1>7

\* CameraStart() counts the buffers that the overlay holds.
LEMMA StartFlags ==
  ASSUME OverlayTypes, Flags, StartQueue
  PROVE  Flags'
<1>1. /\ pc = "start" /\ pc' = "loop" /\ disp' = disp /\ rec' = rec
      /\ dss' = Buffers \ ForCamera /\ nOverlayBuffersQueued' = Cardinality(dss')
  BY DEF StartQueue
<1>2. dss' = disp.queued
  BY <1>1 DEF ForCamera, OverlayTypes, Displays
<1>3. Flagged' /\ Enough'
  BY <1>1, <1>2 DEF Flagged, Enough
<1>4. Room'
  BY <1>1 DEF Flags, Room
<1> QED
  BY <1>1, <1>3, <1>4 DEF Flags

\* The records have their fields.
Forms ==
  /\ cam = [open |-> cam.open, on |-> cam.on, queued |-> cam.queued, lost |-> cam.lost]
  /\ rec = [enabled |-> rec.enabled, recorded |-> rec.recorded, counted |-> rec.counted,
            mapped |-> rec.mapped, outstanding |-> rec.outstanding]

LEMMA FormsNext ==
  ASSUME Forms, [Next]_vars PROVE Forms'
<1> DEFINE CamForm ==
             cam = [open |-> cam.open, on |-> cam.on, queued |-> cam.queued, lost |-> cam.lost]
           RecForm == rec = [enabled |-> rec.enabled, recorded |-> rec.recorded,
                             counted |-> rec.counted, mapped |-> rec.mapped,
                             outstanding |-> rec.outstanding]
<1> DEFINE CamStep ==
             \/ cam' = cam \/ cam' = ClosedCamera \/ cam' = [ClosedCamera EXCEPT !.open = TRUE]
             \/ \E S, T : cam' = [cam EXCEPT !.queued = S, !.lost = T]
             \/ \E S, T, m : cam' = [cam EXCEPT !.on = m, !.queued = S, !.lost = T]
             \/ \E S : cam' = [cam EXCEPT !.queued = S]
             \/ \E T : cam' = [cam EXCEPT !.lost = T]
             \/ cam' = Stuck
             \/ \E S, T : cam' = [Queued(S) EXCEPT !.on = "preview", !.lost = T]
<1>1. CamStep
  <2>1. ASSUME Destroy PROVE CamStep
    BY <2>1 DEF Destroy
  <2>2. ASSUME NEW ok, CameraStop(ok) PROVE CamStep
    BY <2>2 DEF CameraStop
  <2>3. ASSUME StopFailed PROVE CamStep
    <3>1. cam' = ClosedCamera \/ CameraStop(FALSE)
      BY <2>3 DEF StopFailed
    <3> HIDE DEF CamStep
    <3>2. cam' = ClosedCamera => CamStep
      BY DEF CamStep
    <3> QED BY <2>2, <3>1, <3>2
  <2>q. ASSUME NEW S, cam' = Queued(S) PROVE CamStep
    BY <2>q DEF Queued
  <2>l. ASSUME NEW b, cam' = Lost(b) PROVE CamStep
    BY <2>l DEF Lost
  <2>4. ASSUME Loop \/ NoCommand \/ DqFails \/ CountFrame \/ SendFrame \/ ShowFrame \/ ShowNothing
               \/ HideFails \/ StartAgain \/ StopAgain
        PROVE  cam' = cam
    BY <2>4 DEF Loop, NoCommand, DqFails, CountFrame, SendFrame, ShowFrame, ShowNothing,
       HideFails, StartAgain, StopAgain
  <2>5. ASSUME NEW b \in Buffers, DqFrame(b) \/ HideFrame(b) PROVE CamStep
    BY <2>5 DEF DqFrame, HideFrame
  <2>6. ASSUME NEW k, StartStops(k) PROVE CamStep
    <3>1. Destroy \/ \E S : cam' = Queued(S)
      BY <2>6 DEF StartStops
    <3> QED BY <2>1, <2>q, <3>1
  <2>7. ASSUME FrameBack PROVE CamStep
    <3>1. cam' = cam \/ cam' = Queued({frame.b}) \/ cam' = Lost(frame.b)
      BY <2>7 DEF FrameBack
    <3>2. cam' = cam => CamStep
      OBVIOUS
    <3> HIDE DEF CamStep
    <3> QED BY <2>q, <2>l, <3>1, <3>2
  <2>8. ASSUME StartReset \/ StartQueue PROVE CamStep
    BY <2>8 DEF StartReset, StartQueue
  <2>9. ASSUME StartFails PROVE CamStep
    BY <2>1, <2>9 DEF StartFails, Refuse
  <2>10. ASSUME NEW ok \in BOOLEAN, StopCommand(ok) \/ KillCommand(ok) PROVE CamStep
    <3>1. CameraStop(TRUE) \/ CameraStop(ok) \/ StopFailed \/ cam' = cam
      BY <2>10 DEF StopCommand, KillCommand
    <3>2. cam' = cam => CamStep
      OBVIOUS
    <3> HIDE DEF CamStep
    <3> QED BY <2>2, <2>3, <3>1, <3>2
  <2>11. ASSUME CaptureCommand \/ CaptureStopFails \/ CaptureThreadFails PROVE CamStep
    <3>1. CameraStop(TRUE) \/ StopFailed \/ Destroy \/ cam' = cam
      BY <2>11 DEF CaptureCommand, CaptureStopFails, CaptureThreadFails
    <3>2. cam' = cam => CamStep
      OBVIOUS
    <3> HIDE DEF CamStep
    <3> QED BY <2>1, <2>2, <2>3, <3>1, <3>2
  <2>12. ASSUME PictureStep PROVE CamStep
    <3>1. \/ cam' = cam
          \/ cam' = [cam EXCEPT !.on = "picture", !.queued = {}, !.lost = {}]
          \/ cam' = [cam EXCEPT !.on = "off", !.queued = {}, !.lost = {}]
      BY <2>12 DEF PictureStep, PictureBegin, PictureShot
    <3> QED BY <3>1
  <2>13. ASSUME ServiceCall PROVE CamStep
    <3>1. \/ cam' = cam \/ cam' = [ClosedCamera EXCEPT !.open = TRUE] \/ \E S : cam' = Queued(S)
      BY <2>13 DEF ServiceCall, StartPreview, StartRecording, StartRecordingFails, StopRecording,
         Reopen, Command, SetOverlay
    <3> QED BY <2>q, <3>1
  <2>14. ASSUME TakeAnswer \/ DisplayOff PROVE CamStep
    BY <2>14 DEF TakeAnswer, DisplayOff
  <2>15. ASSUME EncoderStep PROVE CamStep
    <3>1. cam' = cam \/ cam' = Queued({rel.b}) \/ cam' = Lost(rel.b)
      BY <2>15 DEF EncoderStep, ReleaseFrame, ReleaseQueue, ReleaseMark
    <3>2. cam' = cam => CamStep
      OBVIOUS
    <3> HIDE DEF CamStep
    <3> QED BY <2>q, <2>l, <3>1, <3>2
  <2>16. CASE UNCHANGED vars
    BY <2>16 DEF vars
  <2>17. cam' = cam => CamStep
    OBVIOUS
  <2> HIDE DEF CamStep
  <2>18. CASE PreviewStep
    BY <2>4, <2>5, <2>6, <2>7, <2>8, <2>9, <2>10, <2>11, <2>17, <2>18 DEF PreviewStep
  <2> QED
    BY <2>12, <2>13, <2>14, <2>15, <2>16, <2>18 DEF Next
<1>2. CamForm'
  BY <1>1 DEF Forms, ClosedCamera, Stuck, Queued
<1>3. \/ rec' = rec \/ rec' = NotRecording
      \/ \E x : rec' = [rec EXCEPT !.outstanding = x]
      \/ \E x, y : rec' = [rec EXCEPT !.mapped = x, !.recorded = y]
      \/ rec' = [rec EXCEPT !.mapped = FALSE] \/ rec' = [rec EXCEPT !.enabled = FALSE]
      \/ rec' = [rec EXCEPT !.counted = TRUE, !.mapped = FALSE]
      \/ rec' = [enabled |-> TRUE, recorded |-> TRUE, counted |-> TRUE, mapped |-> TRUE,
                 outstanding |-> 0]
  <2> DEFINE Stopping == \/ rec' = rec \/ rec' = [rec EXCEPT !.mapped = FALSE]
                         \/ \E x, y : rec' = [rec EXCEPT !.mapped = x, !.recorded = y]
  <2>1. ASSUME Destroy PROVE Stopping
    BY <2>1 DEF Destroy
  <2>2. ASSUME NEW ok, CameraStop(ok) PROVE Stopping
    BY <2>2 DEF CameraStop
  <2>3. ASSUME StopFailed PROVE Stopping
    BY <2>2, <2>3 DEF StopFailed
  <2>4. ASSUME Loop \/ NoCommand \/ DqFails \/ SendFrame \/ ShowFrame \/ ShowNothing
               \/ HideFails \/ StartAgain \/ StopAgain \/ FrameBack \/ StartReset \/ StartQueue
        PROVE  rec' = rec
    BY <2>4 DEF Loop, NoCommand, DqFails, SendFrame, ShowFrame, ShowNothing,
       HideFails, StartAgain, StopAgain, FrameBack, StartReset, StartQueue, halVars
  <2>5. ASSUME NEW b \in Buffers, DqFrame(b) \/ HideFrame(b) PROVE Stopping
    BY <2>5 DEF DqFrame, HideFrame, halVars
  <2>s. ASSUME NEW k, StartStops(k) PROVE Stopping
    BY <2>1, <2>s DEF StartStops
  <2>6. ASSUME CountFrame PROVE \E x : rec' = [rec EXCEPT !.outstanding = x]
    BY <2>6 DEF CountFrame
  <2>7. ASSUME StartFails PROVE Stopping
    BY <2>1, <2>7 DEF StartFails, Refuse
  <2>8. ASSUME NEW ok \in BOOLEAN, StopCommand(ok) \/ KillCommand(ok) PROVE Stopping
    BY <2>2, <2>3, <2>8 DEF StopCommand, KillCommand
  <2>9. ASSUME CaptureCommand \/ CaptureStopFails \/ CaptureThreadFails PROVE Stopping
    BY <2>1, <2>2, <2>3, <2>9 DEF CaptureCommand, CaptureStopFails, CaptureThreadFails
  <2>10. ASSUME PictureStep \/ DisplayOff \/ ReleaseQueue \/ ReleaseMark PROVE rec' = rec
    BY <2>10 DEF PictureStep, PictureBegin, PictureShot, DisplayOff, ReleaseQueue, ReleaseMark,
       halVars
  <2>11. ASSUME NEW b \in Buffers, ReleaseFrame(b)
         PROVE  \E x : rec' = [rec EXCEPT !.outstanding = x]
    BY <2>11 DEF ReleaseFrame
  <2>12. ASSUME ServiceCall \/ TakeAnswer
         PROVE  \/ rec' = rec \/ rec' = NotRecording \/ rec' = [rec EXCEPT !.enabled = FALSE]
                \/ rec' = [rec EXCEPT !.counted = TRUE, !.mapped = FALSE]
                \/ rec' = [enabled |-> TRUE, recorded |-> TRUE, counted |-> TRUE,
                           mapped |-> TRUE, outstanding |-> 0]
    BY <2>12 DEF ServiceCall, StartPreview, StartRecording, StartRecordingFails, StopRecording,
       Reopen, Command, SetOverlay, TakeAnswer, halVars
  <2>13. CASE UNCHANGED vars
    BY <2>13 DEF vars, halVars
  <2>14. CASE PreviewStep
    BY <2>4, <2>5, <2>s, <2>6, <2>7, <2>8, <2>9, <2>14 DEF PreviewStep
  <2> QED
    BY <2>10, <2>11, <2>12, <2>13, <2>14 DEF Next, EncoderStep
<1>4. RecForm'
  BY <1>3 DEF Forms, NotRecording
<1> QED
  BY <1>2, <1>4 DEF Forms

\* The thread handles a frame the camera has given it.
LEMMA HandledNext ==
  ASSUME Handled, [Next]_vars PROVE Handled'
<1>1. ASSUME NEW b \in Buffers, DqFrame(b) PROVE Handled'
  BY <1>1 DEF Handled, DqFrame
<1>2. ASSUME CountFrame \/ SendFrame \/ ShowFrame \/ ShowNothing PROVE Handled'
  BY <1>2 DEF Handled, Handling, CountFrame, SendFrame, ShowFrame, ShowNothing
<1>3. ASSUME HideFails \/ \E b \in Buffers : HideFrame(b) PROVE Handled'
  BY <1>3 DEF Handled, Handling, HideFails, HideFrame
<1>4. ASSUME UNCHANGED <<pc, frame>> PROVE Handled'
  BY <1>4 DEF Handled, Handling
<1>5. ASSUME pc' \in {"loop", "get", "poll", "dq", "start", "dead"} PROVE Handled'
  BY <1>5 DEF Handled, Handling
<1>6. ASSUME Loop \/ NoCommand \/ DqFails \/ FrameBack \/ StartAgain \/ StartReset \/ StartFails
             \/ StartQueue \/ StopAgain \/ CaptureCommand \/ CaptureStopFails
             \/ CaptureThreadFails \/ Reopen
      PROVE  pc' \in {"loop", "get", "poll", "dq", "start", "dead"}
  BY <1>6 DEF Loop, NoCommand, DqFails, FrameBack, StartAgain, StartReset, StartFails, Refuse,
     StartQueue, StopAgain, CaptureCommand, CaptureStopFails, CaptureThreadFails, Reopen
<1>7. ASSUME \/ \E k \in 0 .. NumBuffers : StartStops(k)
             \/ \E ok \in BOOLEAN : StopCommand(ok) \/ KillCommand(ok)
      PROVE  pc' \in {"loop", "get", "poll", "dq", "start", "dead"}
  BY <1>7 DEF StartStops, StopCommand, KillCommand
<1>8. ASSUME \/ PictureStep \/ EncoderStep \/ TakeAnswer \/ DisplayOff \/ StartPreview
             \/ StartRecording \/ StartRecordingFails \/ StopRecording
             \/ \E c \in Commands : Command(c)
             \/ \E o \in BOOLEAN : SetOverlay(o)
      PROVE  UNCHANGED <<pc, frame>>
  BY <1>8 DEF PictureStep, PictureBegin, PictureShot, EncoderStep, ReleaseFrame, ReleaseQueue,
     ReleaseMark, TakeAnswer, DisplayOff, StartPreview, StartRecording, StartRecordingFails,
     StopRecording, Command, SetOverlay
<1>9. CASE UNCHANGED vars
  BY <1>4, <1>9 DEF vars
<1> QED
  BY <1>1, <1>2, <1>3, <1>4, <1>5, <1>6, <1>7, <1>8, <1>9
     DEF Next, PreviewStep, ServiceCall

\* A step that leaves the overlay alone.
LEMMA FlagsSame ==
  ASSUME OverlayTypes, Flags, UNCHANGED <<disp, dss, nOverlayBuffersQueued>>,
         cam'.on \in {cam.on, "off", "picture"},
         pc = "hide" => pc' = "hide", pc' = "start" => pc = "start",
         Handling' => Handling \/ Delivers,
         rec'.recorded => rec'.counted
  PROVE  Flags'
<1>1. (Delivers' => Delivers) /\ (cam'.on = "preview" => cam.on = "preview")
  BY DEF Delivers
<1>2. pc' = "start" => ~Delivers'
  BY <1>1 DEF Flags
<1> QED
  BY <1>1, <1>2, FlagsLeft

\* A command takes the thread out of no frame.
LEMMA Idle ==
  ASSUME pc \in {"poll", "get", "start"}, pc' \in {"loop", "start", "dead"}
  PROVE  ~Handling /\ ~Handling' /\ pc # "hide"
BY DEF Handling

LEMMA DestroyFlags ==
  ASSUME OverlayTypes, Flags, Forms, Destroy, pc \in {"poll", "get", "start"},
         pc' \in {"loop", "dead"}
  PROVE  Flags'
<1>1. ~Delivers' /\ (disp' = disp \/ disp' = DisplayIdle)
  BY DEF Destroy, ClosedCamera, Delivers
<1>2. rec'.recorded => rec'.counted
  BY DEF Destroy, Forms, Flags
<1> QED
  BY <1>1, <1>2, Idle, FlagsOff

LEMMA CameraStopFlags ==
  ASSUME OverlayTypes, Flags, Forms, NEW ok \in BOOLEAN, CameraStop(ok),
         pc \in {"poll", "get", "start"}, pc' \in {"loop", "dead"}
  PROVE  Flags'
<1>1. CASE mFalsePreview
  <2>1. UNCHANGED <<cam, rec, dss, nOverlayBuffersQueued, disp>>
    BY <1>1 DEF CameraStop
  <2> QED
    BY <2>1, Idle, FlagsSame DEF Flags
<1>2. CASE ~mFalsePreview
  <2>1. rec'.recorded => rec'.counted
    BY <1>2 DEF CameraStop, Forms, Flags
  <2>2. disp' = disp \/ disp' = DisplayIdle
    BY <1>2 DEF CameraStop
  <2>3. CASE ok
    <3>1. cam'.on = "off"
      BY <1>2, <2>3 DEF CameraStop, Forms
    <3> QED
      BY <2>1, <2>2, <3>1, Idle, FlagsOff DEF Delivers
  <2>4. CASE ~ok
    <3>1. cam'.on # "preview" /\ (Delivers' => Delivers)
      BY <1>2, <2>4 DEF CameraStop, Stuck, Forms, Delivers
    <3>2. \/ UNCHANGED <<dss, nOverlayBuffersQueued>>
          \/ dss' = {} /\ nOverlayBuffersQueued' = 0 /\ disp' = DisplayIdle
          \/ dss' = {} /\ nOverlayBuffersQueued' = nOverlayBuffersQueued
      BY <1>2 DEF CameraStop, Flags
    <3>3. (disp' = disp /\ (pc = "hide" => pc' = "hide")) \/ disp' = DisplayIdle
      BY <2>2
    <3>4. pc' # "start" /\ ~Handling'
      BY Idle
    <3> QED
      BY <2>1, <3>1, <3>2, <3>3, <3>4, FlagsLeft
  <2> QED
    BY <2>3, <2>4
<1> QED
  BY <1>1, <1>2

LEMMA StopFailedFlags ==
  ASSUME OverlayTypes, Flags, Forms, StopFailed, pc \in {"poll", "get", "start"},
         pc' \in {"loop", "dead"}
  PROVE  Flags'
<1>1. CASE mode = "third"
  <2>1. ~Delivers' /\ (disp' = disp \/ disp' = DisplayIdle)
    BY <1>1 DEF StopFailed, ClosedCamera, Delivers
  <2>2. rec'.recorded => rec'.counted
    BY <1>1 DEF StopFailed, Forms, Flags
  <2> QED
    BY <2>1, <2>2, Idle, FlagsOff
<1>2. CASE mode # "third"
  BY <1>2, CameraStopFlags DEF StopFailed
<1> QED
  BY <1>1, <1>2

LEMMA FlagsNext ==
  ASSUME CallInv, OverlayTypes, Handled, Flags, Forms, [Next]_vars PROVE Flags'
<1>0. (rec.recorded => rec.counted) /\ (pc = "start" => ~Delivers)
  BY DEF Flags
<1>1. ASSUME Loop \/ NoCommand \/ DqFails \/ ShowNothing \/ SendFrame PROVE Flags'
  <2>1. UNCHANGED <<disp, dss, nOverlayBuffersQueued, cam, rec>>
    BY <1>1 DEF Loop, NoCommand, DqFails, ShowNothing, SendFrame, dssVars, halVars
  <2>2. pc # "hide" /\ pc' # "start" /\ (Handling' => Handling)
    BY <1>1 DEF Loop, NoCommand, DqFails, ShowNothing, SendFrame, Handling
  <2> QED
    BY <1>0, <2>1, <2>2, FlagsSame
<1>2. ASSUME NEW b \in Buffers, DqFrame(b) PROVE Flags'
  <2>1. UNCHANGED <<disp, dss, nOverlayBuffersQueued, rec>> /\ cam'.on = cam.on
    BY <1>2 DEF DqFrame, dssVars, halVars, Forms
  <2>2. pc # "hide" /\ pc' # "start" /\ Delivers
    BY <1>2 DEF DqFrame
  <2> QED
    BY <1>0, <2>1, <2>2, FlagsSame
<1>3. ASSUME CountFrame PROVE Flags'
  <2>1. UNCHANGED <<disp, dss, nOverlayBuffersQueued, cam>> /\ (rec'.recorded => rec'.counted)
    BY <1>0, <1>3 DEF CountFrame, dssVars, Forms
  <2>2. pc = "count" /\ pc' = "send"
    BY <1>3 DEF CountFrame
  <2> QED
    BY <2>1, <2>2, FlagsSame DEF Handling
<1>4. ASSUME FrameBack PROVE Flags'
  <2>1. UNCHANGED <<disp, dss, nOverlayBuffersQueued, rec>> /\ cam'.on = cam.on
    BY <1>4 DEF FrameBack, Queued, Lost, dssVars, halVars, Forms
  <2>2. pc = "back" /\ pc' = "poll"
    BY <1>4 DEF FrameBack
  <2> QED
    BY <1>0, <2>1, <2>2, FlagsSame DEF Handling
<1>5. ASSUME StartAgain \/ StopAgain PROVE Flags'
  <2>1. UNCHANGED <<disp, dss, nOverlayBuffersQueued, cam, rec>>
    BY <1>5 DEF StartAgain, StopAgain, dssVars, halVars
  <2>2. pc \in {"poll", "get"} /\ pc' = "loop"
    BY <1>5 DEF StartAgain, StopAgain, Taking
  <2> QED
    BY <1>0, <2>1, <2>2, FlagsSame DEF Handling
<1>6. ASSUME StartReset PROVE Flags'
  <2>1. cam'.on = "off" /\ disp' = disp /\ rec' = rec
    BY <1>6 DEF StartReset, Forms
  <2>2. pc \in {"poll", "get"} /\ pc' = "start"
    BY <1>6 DEF StartReset, Taking
  <2> QED
    BY <1>0, <2>1, <2>2, Idle, FlagsOff DEF Delivers
<1>7. ASSUME StartFails PROVE Flags'
  <2>1. pc \in {"poll", "get"} /\ pc' = "loop"
    BY <1>7 DEF StartFails, Refuse, Taking
  <2>2. CASE mode = "third"
    BY <1>7, <2>1, <2>2, DestroyFlags DEF StartFails, Refuse
  <2>3. CASE mode # "third"
    <3>1. UNCHANGED <<disp, dss, nOverlayBuffersQueued, cam, rec>>
      BY <1>7, <2>3 DEF StartFails, Refuse
    <3> QED
      BY <1>0, <2>1, <3>1, FlagsSame DEF Handling
  <2> QED
    BY <2>2, <2>3
<1>8. ASSUME NEW k \in 0 .. NumBuffers, StartStops(k) PROVE Flags'
  <2>1. pc = "start" /\ pc' = "loop"
    BY <1>8 DEF StartStops
  <2>2. CASE mode = "third"
    BY <1>8, <2>1, <2>2, DestroyFlags DEF StartStops
  <2>3. CASE mode # "third"
    <3>1. disp' = disp /\ rec' = rec /\ cam'.on = cam.on
      BY <1>8, <2>3 DEF StartStops, Queued, Forms
    <3>2. ~Delivers'
      BY <1>0, <2>1, <3>1 DEF Delivers
    <3> QED
      BY <1>0, <2>1, <3>1, <3>2, Idle, FlagsOff
  <2> QED
    BY <2>2, <2>3
<1>9. ASSUME NEW ok \in BOOLEAN, StopCommand(ok) PROVE Flags'
  <2>1. pc \in {"poll", "get"} /\ pc' = "loop"
    BY <1>9 DEF StopCommand, Taking
  <2>2. CameraStop(TRUE) \/ StopFailed
    BY <1>9 DEF StopCommand
  <2> QED
    BY <2>1, <2>2, CameraStopFlags, StopFailedFlags
<1>10. ASSUME NEW ok \in BOOLEAN, KillCommand(ok) PROVE Flags'
  <2>1. pc \in {"poll", "get"} /\ pc' = "dead"
    BY <1>10 DEF KillCommand, Taking
  <2>2. CameraStop(ok) \/ UNCHANGED <<cam, rec, dss, nOverlayBuffersQueued, disp>>
    BY <1>10 DEF KillCommand
  <2>3. CASE UNCHANGED <<cam, rec, dss, nOverlayBuffersQueued, disp>>
    BY <1>0, <2>1, <2>3, FlagsSame DEF Handling
  <2> QED
    BY <2>1, <2>2, <2>3, CameraStopFlags
<1>11. ASSUME CaptureCommand \/ CaptureStopFails \/ CaptureThreadFails PROVE Flags'
  <2>1. pc \in {"poll", "get"} /\ pc' = "loop"
    BY <1>11 DEF CaptureCommand, CaptureStopFails, CaptureThreadFails, Taking
  <2>2. \/ CameraStop(TRUE) \/ StopFailed \/ Destroy
        \/ UNCHANGED <<cam, rec, dss, nOverlayBuffersQueued, disp>>
    BY <1>11 DEF CaptureCommand, CaptureStopFails, CaptureThreadFails
  <2>3. CASE UNCHANGED <<cam, rec, dss, nOverlayBuffersQueued, disp>>
    BY <1>0, <2>1, <2>3, FlagsSame DEF Handling
  <2> QED
    BY <2>1, <2>2, <2>3, CameraStopFlags, StopFailedFlags, DestroyFlags
<1>12. ASSUME PictureStep PROVE Flags'
  <2>1. UNCHANGED <<disp, dss, nOverlayBuffersQueued, rec, pc>>
        /\ cam'.on \in {cam.on, "off", "picture"}
    BY <1>12 DEF PictureStep, PictureBegin, PictureShot, dssVars, halVars, Forms
  <2> QED
    BY <1>0, <2>1, FlagsSame DEF Handling
<1>13. ASSUME \/ StartPreview \/ StartRecording \/ StartRecordingFails
              \/ \E c \in Commands : Command(c)
       PROVE  Flags'
  <2>1. UNCHANGED <<disp, dss, nOverlayBuffersQueued, cam, pc>>
    BY <1>13 DEF StartPreview, StartRecording, StartRecordingFails, Command, dssVars
  <2>2. \/ rec' = rec \/ rec' = [rec EXCEPT !.counted = TRUE, !.mapped = FALSE]
        \/ rec' = [enabled |-> TRUE, recorded |-> TRUE, counted |-> TRUE, mapped |-> TRUE,
                   outstanding |-> 0]
    BY <1>13 DEF StartPreview, StartRecording, StartRecordingFails, Command, halVars
  <2>3. rec'.recorded => rec'.counted
    <3>1. CASE rec' = [rec EXCEPT !.counted = TRUE, !.mapped = FALSE]
      <4>1. rec'.counted = TRUE
        BY <3>1 DEF Forms
      <4> QED BY <4>1
    <3>2. CASE rec' = rec
      BY <1>0, <3>2
    <3> QED BY <2>2, <3>1, <3>2
  <2> QED
    BY <2>1, <2>3, FlagsSame DEF Handling
<1>14. ASSUME StopRecording \/ EncoderStep PROVE Flags'
  <2>1. UNCHANGED <<disp, dss, nOverlayBuffersQueued, pc>>
    BY <1>14 DEF StopRecording, EncoderStep, ReleaseFrame, ReleaseQueue, ReleaseMark, dssVars
  <2>2. cam'.on = cam.on
    BY <1>14 DEF StopRecording, EncoderStep, ReleaseFrame, ReleaseQueue, ReleaseMark, Queued,
       Lost, Forms
  <2>3. rec'.recorded => rec'.counted
    BY <1>0, <1>14 DEF StopRecording, EncoderStep, ReleaseFrame, ReleaseQueue, ReleaseMark,
       halVars, Forms
  <2> QED
    BY <2>1, <2>2, <2>3, FlagsSame DEF Handling
<1>15. ASSUME NEW o \in BOOLEAN, SetOverlay(o) PROVE Flags'
  <2>1. /\ disp' = DisplayIdle /\ UNCHANGED <<cam, rec, pc>>
        /\ \/ UNCHANGED <<dss, nOverlayBuffersQueued>>
           \/ dss' = {} /\ nOverlayBuffersQueued' = 0
    BY <1>15 DEF SetOverlay
  <2>2. (Handling' <=> Handling) /\ (Delivers' <=> Delivers)
    BY <2>1 DEF Handling, Delivers
  <2> QED
    BY <1>0, <2>1, <2>2, FlagsLeft
<1>16. ASSUME TakeAnswer PROVE Flags'
  <2>1. UNCHANGED <<dss, nOverlayBuffersQueued, pc>> /\ (rec' = rec \/ rec' = NotRecording)
        /\ (disp' = disp \/ disp' = DisplayIdle) /\ (cam' = cam \/ cam' = ClosedCamera)
    BY <1>16 DEF TakeAnswer, dssVars
  <2>2. /\ rec'.recorded => rec'.counted
        /\ cam'.on \in {cam.on, "off"}
    BY <1>0, <2>1 DEF NotRecording, ClosedCamera
  <2>3. (Handling' <=> Handling) /\ (Delivers' => Delivers)
    BY <2>1, <2>2 DEF Handling, Delivers
  <2> QED
    BY <1>0, <2>1, <2>2, <2>3, FlagsLeft
<1>17. ASSUME Reopen PROVE Flags'
  <2>1. dss' = {} /\ nOverlayBuffersQueued' = 0 /\ disp' = DisplayIdle /\ pc' = "loop"
        /\ cam'.on = "off" /\ ~rec'.recorded
    BY <1>17 DEF Reopen, ClosedCamera, NotRecording
  <2> QED
    BY <2>1, FlagsLeft DEF Handling, Delivers
<1>18. ASSUME DisplayOff PROVE Flags'
  <2>1. UNCHANGED <<dss, nOverlayBuffersQueued, pc, cam, rec>> /\ disp' = DisplayIdle
    BY <1>18 DEF DisplayOff, dssVars, halVars
  <2> QED
    BY <1>0, <2>1, FlagsLeft DEF Handling, Delivers
<1>19. CASE UNCHANGED vars
  <2>1. UNCHANGED <<disp, dss, nOverlayBuffersQueued, cam, rec, pc>>
    BY <1>19 DEF vars, dssVars, halVars
  <2> QED
    BY <1>0, <2>1, FlagsSame DEF Handling
<1> QED
  BY <1>1, <1>2, <1>3, <1>4, <1>5, <1>6, <1>7, <1>8, <1>9, <1>10, <1>11, <1>12, <1>13, <1>14,
     <1>15, <1>16, <1>17, <1>18, <1>19, ShowFlags, HideFlags, HideFailsFlags, StartFlags
     DEF Next, PreviewStep, ServiceCall

LEMMA FlagsInit == ASSUME Init PROVE OverlayTypes /\ Handled /\ Flags /\ Forms
<1>1. OverlayTypes
  <2>1. disp \in Displays
    BY IdleIsOne DEF Init
  <2>2. dss = {} /\ nOverlayBuffersQueued = 0
    BY DEF Init
  <2>3. mOverlay \in BOOLEAN /\ mDSSActive \in BOOLEAN
    BY DEF Init
  <2> QED
    BY <2>1, <2>2, <2>3 DEF OverlayTypes
<1>2. disp.queued = {} /\ dss = {} /\ nOverlayBuffersQueued = 0 /\ pc = "loop" /\ cam.on = "off"
      /\ ~rec.recorded
  BY DEF Init, DisplayIdle, ClosedCamera, NotRecording
<1>3. Handled
  BY <1>2 DEF Handled, Handling
<1>4. Flags
  BY <1>1, <1>2, Sets DEF Flags, Room, Handling, Delivers
<1>5. Forms
  BY DEF Init, Forms, ClosedCamera, NotRecording
<1> QED
  BY <1>1, <1>3, <1>4, <1>5

FlagInv == OverlayTypes /\ Handled /\ Flags /\ Forms

\* The flags and the count, whoever calls when, and whatever fails.
THEOREM FlagsKept == Spec => []FlagInv
<1>1. CallInv /\ FlagInv /\ [Next]_vars => FlagInv'
  BY OverlayNext, HandledNext, FlagsNext, FormsNext DEF FlagInv
<1>2. Init => FlagInv
  BY FlagsInit DEF FlagInv
<1> QED
  BY <1>1, <1>2, CallsKept, PTL DEF Spec

\* FlagsFollowOverlay: nextPreview() never queues a buffer to the overlay that
\* the overlay still has, whenever the display stops the stream.
THEOREM FlagsFollow == Spec => []FlagsFollowOverlay
<1>1. FlagInv => FlagsFollowOverlay
  BY DEF FlagInv, Flags, Flagged, FlagsFollowOverlay
<1> QED
  BY <1>1, FlagsKept, PTL

-----------------------------------------------------------------------------
(* Where the buffers are.                                                    *)

\* A buffer in the camera's queue, lost to it, with the encoder, on its way back,
\* or in the thread's hands.
Somewhere(b) ==
  \/ b \in cam.queued \cup cam.lost \cup enc
  \/ rel.at = "queue" /\ rel.b = b
  \/ (pc \in {"count", "send"} \/ frame.back) /\ frame.b = b

\* A frame that goes back to the camera is in hand between the two ioctls only,
\* and a closed camera delivers nothing.
Located ==
  /\ Delivers => cam.open /\ \A b \in Buffers : Somewhere(b)
  /\ frame.back => pc \in {"show", "hide", "back"}
  /\ pc = "start" => cam.open

LEMMA LocatedStep ==
  ASSUME Located,
         Delivers' => /\ Delivers /\ cam'.open = cam.open
                      /\ \A b \in Buffers : Somewhere(b) => Somewhere(b)',
         frame'.back => pc' \in {"show", "hide", "back"},
         pc' = "start" => cam'.open
  PROVE  Located'
BY DEF Located

\* The camera gets or keeps what it had, and nobody else moves.
LEMMA CameraKeeps ==
  ASSUME Located, UNCHANGED <<pc, frame, enc, rel>>, pc = "start" => cam'.open,
         Delivers' => /\ Delivers /\ cam'.open = cam.open
                      /\ cam.queued \cup cam.lost \subseteq cam'.queued \cup cam'.lost
  PROVE  Located'
<1>1. Delivers' => \A b \in Buffers : Somewhere(b) => Somewhere(b)'
  BY DEF Somewhere
<1> QED
  BY <1>1, LocatedStep DEF Located

\* The thread goes on with the frame it has, or has none.
LEMMA ThreadKeeps ==
  ASSUME Located, UNCHANGED <<cam, frame, enc, rel>>, pc' # "start",
         \/ pc = "count" /\ pc' = "send"
         \/ pc \in {"show", "hide"} /\ pc' \in {"hide", "back"}
         \/ pc \in {"loop", "poll", "get", "dq", "start"} /\ pc' \notin {"count", "send"}
  PROVE  Located'
<1>1. \A b \in Buffers : Somewhere(b) => Somewhere(b)'
  BY DEF Somewhere
<1>2. frame'.back => pc' \in {"show", "hide", "back"}
  BY DEF Located
<1> QED
  BY <1>1, <1>2, LocatedStep DEF Delivers

\* VIDIOC_QBUF of a buffer leaves it queued or lost, and no other elsewhere.
LEMMA QbufLocates ==
  ASSUME Forms, cam.open, NEW b, NEW ok \in QbufResults(b),
         cam' = IF ok THEN Queued({b}) ELSE Lost(b)
  PROVE  /\ cam'.open = cam.open /\ cam'.on = cam.on
         /\ b \in cam'.queued \cup cam'.lost
         /\ cam.queued \cup cam.lost \subseteq cam'.queued \cup cam'.lost
<1>1. CASE ok
  <2>1. cam'.queued = cam.queued \cup {b} /\ cam'.lost = cam.lost \ {b}
        /\ cam'.open = cam.open /\ cam'.on = cam.on
    BY <1>1 DEF Queued, Forms
  <2> QED
    BY <2>1
<1>2. CASE ~ok /\ Accepts(b)
  <2>1. cam'.queued = cam.queued /\ cam'.lost = cam.lost \cup {b}
        /\ cam'.open = cam.open /\ cam'.on = cam.on
    BY <1>2 DEF Lost, Forms
  <2> QED
    BY <2>1
<1>3. CASE ~ok /\ ~Accepts(b)
  <2>1. cam' = cam /\ b \in cam.queued
    BY <1>3 DEF Lost, Accepts
  <2> QED
    BY <2>1
<1>4. ok \in BOOLEAN
  BY DEF QbufResults
<1> QED
  BY <1>1, <1>2, <1>3, <1>4

\* A closed camera takes and loses nothing.
LEMMA QbufClosed ==
  ASSUME ~cam.open, NEW b, NEW ok \in QbufResults(b),
         cam' = IF ok THEN Queued({b}) ELSE Lost(b)
  PROVE  cam' = cam
BY DEF QbufResults, Accepts, Lost

\* nextPreview().
LEMMA FrameLocated ==
  ASSUME Located, Forms,
         \/ Loop \/ NoCommand \/ DqFails \/ CountFrame \/ SendFrame \/ ShowFrame
         \/ ShowNothing \/ HideFails \/ FrameBack
         \/ \E b \in Buffers : DqFrame(b) \/ HideFrame(b)
  PROVE  Located'
<1>1. ASSUME Loop \/ NoCommand \/ DqFails \/ CountFrame PROVE Located'
  <2>1. UNCHANGED <<cam, frame, enc, rel>> /\ pc' # "start"
    BY <1>1 DEF Loop, NoCommand, DqFails, CountFrame
  <2>2. \/ pc = "count" /\ pc' = "send"
        \/ pc \in {"loop", "poll", "get", "dq", "start"} /\ pc' \notin {"count", "send"}
    BY <1>1 DEF Loop, NoCommand, DqFails, CountFrame
  <2> QED
    BY <2>1, <2>2, ThreadKeeps
<1>2. ASSUME ShowFrame \/ ShowNothing \/ HideFails \/ \E b \in Buffers : HideFrame(b)
      PROVE  Located'
  <2>1. UNCHANGED <<cam, enc, rel, frame>> /\ pc \in {"show", "hide"} /\ pc' \in {"hide", "back"}
    BY <1>2 DEF ShowFrame, ShowNothing, HideFails, HideFrame
  <2> QED
    BY <2>1, ThreadKeeps
<1>3. ASSUME SendFrame PROVE Located'
  <2>1. UNCHANGED <<cam, frame, rel>> /\ pc = "send" /\ pc' = "show" /\ enc' = enc \cup {frame.b}
    BY <1>3 DEF SendFrame
  <2>2. \A b \in Buffers : Somewhere(b) => Somewhere(b)'
    BY <2>1 DEF Somewhere
  <2> QED
    BY <2>1, <2>2, LocatedStep DEF Delivers
<1>4. ASSUME FrameBack PROVE Located'
  <2>1. pc = "back" /\ pc' = "poll" /\ UNCHANGED <<enc, rel>> /\ frame' = NoFrame
    BY <1>4 DEF FrameBack
  <2>2. ~frame'.back
    BY <2>1 DEF NoFrame
  <2>3. CASE ~frame.back
    <3>1. cam' = cam
      BY <1>4, <2>3 DEF FrameBack
    <3>2. \A b \in Buffers : Somewhere(b) => Somewhere(b)'
      BY <2>1, <2>3, <3>1 DEF Somewhere
    <3> QED
      BY <2>1, <2>2, <3>1, <3>2, LocatedStep DEF Delivers
  <2>4. CASE frame.back /\ cam.open
    <3>1. PICK ok \in QbufResults(frame.b) :
            cam' = IF ok THEN Queued({frame.b}) ELSE Lost(frame.b)
      BY <1>4, <2>4 DEF FrameBack
    <3>2. /\ cam'.open = cam.open /\ cam'.on = cam.on
          /\ frame.b \in cam'.queued \cup cam'.lost
          /\ cam.queued \cup cam.lost \subseteq cam'.queued \cup cam'.lost
      BY <2>4, <3>1, QbufLocates
    <3>3. \A b \in Buffers : Somewhere(b) => Somewhere(b)'
      BY <2>1, <3>2 DEF Somewhere
    <3> QED
      BY <2>1, <2>2, <3>2, <3>3, LocatedStep DEF Delivers
  <2>5. CASE frame.back /\ ~cam.open
    <3>1. cam' = cam
      BY <1>4, <2>5, QbufClosed DEF FrameBack
    <3>2. ~Delivers'
      BY <2>5, <3>1 DEF Delivers, Located
    <3> QED
      BY <2>1, <2>2, <3>2, LocatedStep
  <2> QED
    BY <2>3, <2>4, <2>5
<1>5. ASSUME NEW b \in Buffers, DqFrame(b) PROVE Located'
  <2>1. pc = "dq" /\ (pc' = "count" \/ (pc' = "show" /\ frame'.back)) /\ frame'.b = b
        /\ (frame'.back => pc' = "show") /\ UNCHANGED <<enc, rel>>
    BY <1>5 DEF DqFrame
  <2>2. cam'.open = cam.open /\ cam'.on = cam.on /\ cam'.queued = cam.queued \ {b}
        /\ cam'.lost = cam.lost
    BY <1>5 DEF DqFrame, Forms
  <2>3. ~frame.back
    BY <2>1 DEF Located
  <2>4. \A c \in Buffers : Somewhere(c) => Somewhere(c)'
    BY <2>1, <2>2, <2>3 DEF Somewhere
  <2> QED
    BY <2>1, <2>2, <2>4, LocatedStep DEF Delivers
<1> QED
  BY <1>1, <1>2, <1>3, <1>4, <1>5

\* CameraStop() and CameraDestroy() leave the camera, its buffers included, or
\* end its stream.
StopsOrLeaves ==
  \/ ~Delivers'
  \/ Delivers /\ cam'.open = cam.open /\ cam'.queued = cam.queued /\ cam'.lost = cam.lost

LEMMA DestroyLeaves == ASSUME Destroy PROVE StopsOrLeaves
BY DEF StopsOrLeaves, Destroy, ClosedCamera, Delivers

LEMMA CameraStopLeaves ==
  ASSUME Forms, NEW ok \in BOOLEAN, CameraStop(ok) PROVE StopsOrLeaves
<1>1. CASE cam' = cam
  BY <1>1 DEF StopsOrLeaves, Delivers
<1>2. CASE cam' = [cam EXCEPT !.on = "off", !.queued = {}, !.lost = {}]
  BY <1>2 DEF StopsOrLeaves, Delivers, Forms
<1>3. CASE cam' = Stuck
  BY <1>3 DEF StopsOrLeaves, Delivers, Forms, Stuck
<1> QED
  BY <1>1, <1>2, <1>3 DEF CameraStop

LEMMA StopFailedLeaves == ASSUME Forms, StopFailed PROVE StopsOrLeaves
<1>1. CASE mode = "third"
  <2>1. cam' = ClosedCamera
    BY <1>1 DEF StopFailed
  <2> QED
    BY <2>1 DEF StopsOrLeaves, ClosedCamera, Delivers
<1>2. CASE mode # "third"
  BY <1>2, CameraStopLeaves DEF StopFailed
<1> QED
  BY <1>1, <1>2

\* The commands.
LEMMA CommandLocated ==
  ASSUME Located, Forms, Flags,
         \/ StartAgain \/ StartReset \/ StartFails \/ StartQueue \/ StopAgain
         \/ CaptureCommand \/ CaptureStopFails \/ CaptureThreadFails
         \/ \E k \in 0 .. NumBuffers : StartStops(k)
         \/ \E ok \in BOOLEAN : StopCommand(ok) \/ KillCommand(ok)
  PROVE  Located'
<1>1. ASSUME StopsOrLeaves, pc \in {"poll", "get"}, pc' \in {"loop", "dead"},
             UNCHANGED <<enc, rel, frame>>
      PROVE  Located'
  <2>1. ~frame'.back
    BY <1>1 DEF Located
  <2>2. Delivers' => \A b \in Buffers : Somewhere(b) => Somewhere(b)'
    BY <1>1 DEF StopsOrLeaves, Somewhere
  <2> QED
    BY <1>1, <2>1, <2>2, LocatedStep DEF StopsOrLeaves
<1>2. ASSUME cam' = cam PROVE StopsOrLeaves
  BY <1>2 DEF StopsOrLeaves, Delivers
<1>3. ASSUME StartAgain \/ StopAgain PROVE Located'
  BY <1>1, <1>2, <1>3 DEF StartAgain, StopAgain, Taking
<1>4. ASSUME StartReset PROVE Located'
  <2>1. cam'.open /\ ~Delivers' /\ pc \in {"poll", "get"} /\ frame' = frame
    BY <1>4 DEF StartReset, Delivers, Forms, Taking
  <2> QED
    BY <2>1 DEF Located
<1>5. ASSUME StartFails PROVE Located'
  BY <1>1, <1>2, <1>5, DestroyLeaves DEF StartFails, Refuse, Taking
<1>6. ASSUME StartQueue PROVE Located'
  <2>1. pc = "start" /\ pc' = "loop" /\ cam.open /\ frame' = frame
    BY <1>6 DEF StartQueue, Located
  <2>2. /\ cam'.open = cam.open /\ cam'.queued = cam.queued \cup ForCamera
        /\ cam'.lost = Buffers \ ForCamera
    BY <1>6 DEF StartQueue, Queued, Forms
  <2>3. \A b \in Buffers : Somewhere(b)'
    BY <2>2 DEF Somewhere
  <2> QED
    BY <2>1, <2>2, <2>3 DEF Located
<1>7. ASSUME NEW k \in 0 .. NumBuffers, StartStops(k) PROVE Located'
  <2>1. pc = "start" /\ pc' = "loop" /\ ~Delivers /\ frame' = frame
    BY <1>7 DEF StartStops, Flags
  <2>2. cam' = ClosedCamera \/ cam'.on = cam.on
    BY <1>7 DEF StartStops, Destroy, Queued, Forms
  <2> QED
    BY <2>1, <2>2 DEF Located, Delivers, ClosedCamera
<1>8. ASSUME CaptureCommand \/ CaptureStopFails \/ CaptureThreadFails PROVE Located'
  <2>1. \/ Destroy \/ CameraStop(TRUE) \/ StopFailed \/ cam' = cam
    BY <1>8 DEF CaptureCommand, CaptureStopFails, CaptureThreadFails
  <2>2. pc \in {"poll", "get"} /\ pc' = "loop" /\ UNCHANGED <<enc, rel, frame>>
    BY <1>8 DEF CaptureCommand, CaptureStopFails, CaptureThreadFails, Taking
  <2> QED
    BY <1>1, <1>2, <2>1, <2>2, DestroyLeaves, CameraStopLeaves, StopFailedLeaves
<1>9. ASSUME NEW ok \in BOOLEAN, StopCommand(ok) \/ KillCommand(ok) PROVE Located'
  <2>1. CameraStop(TRUE) \/ CameraStop(ok) \/ StopFailed \/ cam' = cam
    BY <1>9 DEF StopCommand, KillCommand
  <2>2. pc \in {"poll", "get"} /\ pc' \in {"loop", "dead"} /\ UNCHANGED <<enc, rel, frame>>
    BY <1>9 DEF StopCommand, KillCommand, Taking
  <2> QED
    BY <1>1, <1>2, <2>1, <2>2, CameraStopLeaves, StopFailedLeaves
<1> QED
  BY <1>3, <1>4, <1>5, <1>6, <1>7, <1>8, <1>9

\* The other threads.
LEMMA OthersLocated ==
  ASSUME CallInv, Located, Forms,
         PictureStep \/ ServiceCall \/ TakeAnswer \/ EncoderStep \/ DisplayOff
  PROVE  Located'
<1>1. ASSUME UNCHANGED <<cam, enc, rel, pc, frame>> PROVE Located'
  BY <1>1, CameraKeeps DEF Delivers, Located
<1>2. ASSUME PictureStep PROVE Located'
  <2>1. UNCHANGED <<enc, rel, pc, frame>>
    BY <1>2 DEF PictureStep, PictureBegin, PictureShot
  <2>2. cam'.open = cam.open /\ (cam' = cam \/ cam'.on \in {"off", "picture"})
    BY <1>2 DEF PictureStep, PictureBegin, PictureShot, Forms
  <2> QED
    BY <2>1, <2>2, CameraKeeps DEF Located, Delivers
<1>3. ASSUME \/ StartPreview \/ StartRecording \/ StartRecordingFails \/ DisplayOff
             \/ (\E c \in Commands \ {"PREVIEW_START"} : Command(c))
             \/ (\E o \in BOOLEAN : SetOverlay(o))
      PROVE  UNCHANGED <<cam, enc, rel, pc, frame>>
  BY <1>3 DEF StartPreview, StartRecording, StartRecordingFails, DisplayOff, Command, SetOverlay
<1>4. ASSUME StopRecording PROVE Located'
  <2>1. UNCHANGED <<enc, rel, pc, frame>>
    BY <1>4 DEF StopRecording
  <2>2. PICK S : cam' = Queued(S)
    BY <1>4 DEF StopRecording
  <2>3. /\ cam'.open = cam.open /\ cam'.on = cam.on
        /\ cam.queued \cup cam.lost \subseteq cam'.queued \cup cam'.lost
    BY <2>2 DEF Queued, Forms
  <2> QED
    BY <2>1, <2>3, CameraKeeps DEF Located, Delivers
<1>5. ASSUME Reopen PROVE Located'
  <2>1. pc' = "loop" /\ cam'.on = "off" /\ frame' = NoFrame
    BY <1>5 DEF Reopen, ClosedCamera
  <2> QED
    BY <2>1 DEF Located, Delivers, NoFrame
<1>6. ASSUME TakeAnswer PROVE Located'
  <2>1. UNCHANGED <<enc, rel, pc, frame>> /\ ackQ # <<>>
    BY <1>6 DEF TakeAnswer
  <2>2. CASE app = "PREVIEW_KILL"
    <3>1. pc' # "start" /\ cam'.on = "off"
      BY <1>6, <2>1, <2>2 DEF TakeAnswer, ClosedCamera, CallInv, Asked
    <3> QED
      BY <2>1, <3>1 DEF Located, Delivers
  <2>3. CASE app # "PREVIEW_KILL"
    BY <1>1, <1>6, <2>1, <2>3 DEF TakeAnswer
  <2> QED
    BY <2>2, <2>3
<1>7. ASSUME NEW b \in Buffers, ReleaseFrame(b) PROVE Located'
  <2>1. /\ UNCHANGED <<cam, pc, frame>> /\ rel = NoRelease
        /\ rel' = [b |-> b, at |-> "queue"] /\ enc' = enc \ {b}
    BY <1>7 DEF ReleaseFrame
  <2>2. \A c \in Buffers : Somewhere(c) => Somewhere(c)'
    BY <2>1 DEF Somewhere, NoRelease
  <2> QED
    BY <2>1, <2>2, LocatedStep DEF Delivers, Located
<1>8. ASSUME ReleaseQueue PROVE Located'
  <2>1. UNCHANGED <<enc, pc, frame>> /\ rel.at = "queue"
    BY <1>8 DEF ReleaseQueue
  <2>2. PICK ok \in QbufResults(rel.b) : cam' = IF ok THEN Queued({rel.b}) ELSE Lost(rel.b)
    BY <1>8 DEF ReleaseQueue
  <2>3. CASE cam.open
    <3>1. /\ cam'.open = cam.open /\ cam'.on = cam.on
          /\ rel.b \in cam'.queued \cup cam'.lost
          /\ cam.queued \cup cam.lost \subseteq cam'.queued \cup cam'.lost
      BY <2>2, <2>3, QbufLocates
    <3>2. \A b \in Buffers : Somewhere(b) => Somewhere(b)'
      BY <2>1, <3>1 DEF Somewhere
    <3> QED
      BY <2>1, <3>1, <3>2, LocatedStep DEF Delivers, Located
  <2>4. CASE ~cam.open
    <3>1. cam' = cam
      BY <2>2, <2>4, QbufClosed
    <3>2. ~Delivers'
      BY <2>4, <3>1 DEF Delivers, Located
    <3> QED
      BY <2>1, <3>1, <3>2, LocatedStep DEF Located
  <2> QED
    BY <2>3, <2>4
<1>9. ASSUME ReleaseMark PROVE Located'
  <2>1. UNCHANGED <<cam, enc, pc, frame>> /\ rel.at = "mark"
    BY <1>9 DEF ReleaseMark
  <2>2. \A b \in Buffers : Somewhere(b) => Somewhere(b)'
    BY <2>1 DEF Somewhere
  <2> QED
    BY <2>1, <2>2, LocatedStep DEF Delivers, Located
<1> QED
  BY <1>1, <1>2, <1>3, <1>4, <1>5, <1>6, <1>7, <1>8, <1>9 DEF ServiceCall, EncoderStep

LEMMA LocatedNext == ASSUME CallInv, FlagInv, Located, [Next]_vars PROVE Located'
<1>1. CASE PreviewStep
  BY <1>1, FrameLocated, CommandLocated DEF PreviewStep, FlagInv
<1>2. CASE UNCHANGED vars
  <2>1. UNCHANGED <<cam, enc, rel, pc, frame>>
    BY <1>2 DEF vars
  <2> QED
    BY <2>1, CameraKeeps DEF Delivers, Located
<1> QED
  BY <1>1, <1>2, OthersLocated DEF Next, FlagInv

\* NoBufferMissing: whoever calls when, and whatever fails, every buffer of a
\* camera that delivers is where somebody is to queue it again, or is lost.
THEOREM BuffersLocated == Spec => []NoBufferMissing
<1>1. Init => Located
  BY DEF Init, Located, Delivers, ClosedCamera, NoFrame
<1>2. CallInv /\ FlagInv /\ Located /\ [Next]_vars => Located'
  BY LocatedNext
<1>3. Located => NoBufferMissing
  BY DEF Located, Somewhere, NoBufferMissing
<1> QED
  BY <1>1, <1>2, <1>3, CallsKept, FlagsKept, PTL DEF Spec

-----------------------------------------------------------------------------
(* Which failures starve the camera: without a failing VIDIOC_QBUF or        *)
(* VIDIOC_STREAMON of the overlay, it has not lost every buffer.             *)

Spared == Delivers => \E b \in Buffers : b \notin cam.lost

LEMMA SparedStep ==
  ASSUME Spared, Delivers' => Delivers /\ cam'.lost \subseteq cam.lost PROVE Spared'
BY DEF Spared

\* CameraStart() has a buffer for the camera: the overlay has not all of them.
LEMMA CameraFed ==
  ASSUME OverlayTypes, Flags, pc = "start", Optimal <= NumBuffers, "on" \notin Faults
  PROVE  \E b \in Buffers : b \in ForCamera
<1>1. Cardinality(disp.queued) < Optimal /\ Cardinality(disp.queued) \in Nat
  BY Sets DEF Flags, Room
<1>2. disp.queued \in SUBSET Buffers
  BY DEF OverlayTypes, Displays
<1>3. Cardinality(Buffers) = NumBuffers
  <2>1. Cardinality(0 .. NumBuffers - 1) = NumBuffers - 1 - 0 + 1
    BY FS_Interval, CameraAssumption
  <2> QED
    BY <2>1, CameraAssumption DEF Buffers
<1>4. disp.queued # Buffers
  BY <1>1, <1>3, CameraAssumption
<1> QED
  BY <1>2, <1>4 DEF ForCamera

\* A VIDIOC_QBUF that fails only for what is queued already loses nothing.
LEMMA QbufSpares ==
  ASSUME Forms, Spared, "qbuf" \notin Faults, NEW b, NEW ok \in QbufResults(b),
         cam' = IF ok THEN Queued({b}) ELSE Lost(b)
  PROVE  Spared'
<1>1. CASE ok
  <2>1. cam'.lost = cam.lost \ {b} /\ cam'.on = cam.on
    BY <1>1 DEF Queued, Forms
  <2> QED
    BY <2>1, SparedStep DEF Delivers
<1>2. CASE ~ok
  <2>1. cam' = cam
    BY <1>2 DEF QbufResults, MayFail, Lost
  <2> QED
    BY <2>1, SparedStep DEF Delivers
<1> QED
  BY <1>1, <1>2

\* What stops the camera or leaves it alone.
LEMMA LeavesSpared == ASSUME Spared, StopsOrLeaves PROVE Spared'
BY SparedStep DEF StopsOrLeaves

\* The preview thread.
LEMMA ThreadSpares ==
  ASSUME Forms, OverlayTypes, Flags, Spared, Optimal <= NumBuffers,
         "qbuf" \notin Faults, "on" \notin Faults, PreviewStep
  PROVE  Spared'
<1>1. CASE cam' = cam
  BY <1>1, SparedStep DEF Delivers
<1>2. ASSUME NEW b \in Buffers, DqFrame(b) PROVE Spared'
  <2>1. cam'.lost = cam.lost /\ cam'.on = cam.on
    BY <1>2 DEF DqFrame, Forms
  <2> QED
    BY <2>1, SparedStep DEF Delivers
<1>3. CASE FrameBack
  <2>1. CASE frame.back
    <3>1. PICK ok \in QbufResults(frame.b) :
            cam' = IF ok THEN Queued({frame.b}) ELSE Lost(frame.b)
      BY <1>3, <2>1 DEF FrameBack
    <3> QED
      BY <3>1, QbufSpares
  <2>2. CASE ~frame.back
    BY <1>1, <1>3, <2>2 DEF FrameBack
  <2> QED
    BY <2>1, <2>2
<1>4. CASE StartReset
  <2>1. ~Delivers'
    BY <1>4 DEF StartReset, Delivers, Forms
  <2> QED
    BY <2>1 DEF Spared
<1>5. CASE StartQueue
  <2>1. cam'.lost = Buffers \ ForCamera /\ pc = "start"
    BY <1>5 DEF StartQueue, Queued, Forms
  <2> QED
    BY <2>1, CameraFed DEF Spared
<1>6. ASSUME NEW k \in 0 .. NumBuffers, StartStops(k) PROVE Spared'
  <2>1. ~Delivers
    BY <1>6 DEF StartStops, Flags
  <2>2. cam' = ClosedCamera \/ cam'.on = cam.on
    BY <1>6 DEF StartStops, Destroy, Queued, Forms
  <2> QED
    BY <2>1, <2>2 DEF Spared, Delivers, ClosedCamera
<1>7. CASE StartFails
  <2>1. Destroy \/ cam' = cam
    BY <1>7 DEF StartFails, Refuse
  <2> QED
    BY <1>1, <2>1, DestroyLeaves, LeavesSpared
<1>8. CASE CaptureCommand \/ CaptureStopFails \/ CaptureThreadFails
  <2>1. Destroy \/ CameraStop(TRUE) \/ StopFailed \/ cam' = cam
    BY <1>8 DEF CaptureCommand, CaptureStopFails, CaptureThreadFails
  <2> QED
    BY <1>1, <2>1, DestroyLeaves, CameraStopLeaves, StopFailedLeaves, LeavesSpared
<1>9. ASSUME NEW ok \in BOOLEAN, StopCommand(ok) \/ KillCommand(ok) PROVE Spared'
  <2>1. CameraStop(TRUE) \/ CameraStop(ok) \/ StopFailed \/ cam' = cam
    BY <1>9 DEF StopCommand, KillCommand
  <2> QED
    BY <1>1, <2>1, CameraStopLeaves, StopFailedLeaves, LeavesSpared
<1>10. ASSUME \/ Loop \/ NoCommand \/ DqFails \/ CountFrame \/ SendFrame \/ ShowFrame
              \/ ShowNothing \/ HideFails \/ StartAgain \/ StopAgain
              \/ \E b \in Buffers : HideFrame(b)
       PROVE  cam' = cam
  BY <1>10 DEF Loop, NoCommand, DqFails, CountFrame, SendFrame, ShowFrame, ShowNothing,
     HideFails, StartAgain, StopAgain, HideFrame
<1> QED
  BY <1>1, <1>2, <1>3, <1>4, <1>5, <1>6, <1>7, <1>8, <1>9, <1>10 DEF PreviewStep

\* The other threads.
LEMMA OthersSpare ==
  ASSUME Forms, Spared, "qbuf" \notin Faults,
         PictureStep \/ ServiceCall \/ TakeAnswer \/ EncoderStep \/ DisplayOff
  PROVE  Spared'
<1>1. CASE cam' = cam
  BY <1>1, SparedStep DEF Delivers
<1>2. CASE PictureStep
  <2>1. cam' = cam \/ cam'.on \in {"off", "picture"}
    BY <1>2 DEF PictureStep, PictureBegin, PictureShot, Forms
  <2> QED
    BY <1>1, <2>1 DEF Spared, Delivers
<1>3. CASE StopRecording
  <2>1. PICK S : cam' = Queued(S)
    BY <1>3 DEF StopRecording
  <2>2. cam'.lost = cam.lost \ S /\ cam'.on = cam.on
    BY <2>1 DEF Queued, Forms
  <2> QED
    BY <2>2, SparedStep DEF Delivers
<1>4. CASE Reopen \/ TakeAnswer
  <2>1. cam' = cam \/ cam'.on = "off"
    BY <1>4 DEF Reopen, TakeAnswer, ClosedCamera
  <2> QED
    BY <1>1, <2>1 DEF Spared, Delivers
<1>5. CASE ReleaseQueue
  <2>1. PICK ok \in QbufResults(rel.b) : cam' = IF ok THEN Queued({rel.b}) ELSE Lost(rel.b)
    BY <1>5 DEF ReleaseQueue
  <2> QED
    BY <2>1, QbufSpares
<1>6. ASSUME \/ StartPreview \/ StartRecording \/ StartRecordingFails \/ DisplayOff
             \/ ReleaseMark \/ (\E b \in Buffers : ReleaseFrame(b))
             \/ (\E c \in Commands \ {"PREVIEW_START"} : Command(c))
             \/ (\E o \in BOOLEAN : SetOverlay(o))
      PROVE  cam' = cam
  BY <1>6 DEF StartPreview, StartRecording, StartRecordingFails, DisplayOff, ReleaseMark,
     ReleaseFrame, Command, SetOverlay
<1> QED
  BY <1>1, <1>2, <1>3, <1>4, <1>5, <1>6 DEF ServiceCall, EncoderStep

\* Unless VIDIOC_QBUF fails for a buffer the camera does not have, or the overlay
\* does not start and keeps them all (CameraHal.cpp:1786-1789, 2348-2351 and
\* 1716), nextPreview() waits in VIDIOC_DQBUF for a camera without a buffer only
\* while the encoder has one, or gives one back; whatever else fails.
THEOREM StarvedNoOther ==
  ASSUME "qbuf" \notin Faults, "on" \notin Faults, Optimal <= NumBuffers
  PROVE  Spec => [](Starved => enc # {} \/ rel.at = "queue")
<1>1. Init => Spared /\ Located
  BY DEF Init, Spared, Located, Delivers, ClosedCamera, NoFrame
<1>2. FlagInv /\ Spared /\ [Next]_vars => Spared'
  <2> SUFFICES ASSUME FlagInv, Spared, [Next]_vars PROVE Spared'
    OBVIOUS
  <2>1. CASE PreviewStep
    BY <2>1, ThreadSpares DEF FlagInv
  <2>2. CASE UNCHANGED vars
    BY <2>2, SparedStep DEF vars, Delivers
  <2> QED
    BY <2>1, <2>2, OthersSpare DEF Next, FlagInv
<1>3. Located /\ Spared => (Starved => enc # {} \/ rel.at = "queue")
  <2> SUFFICES ASSUME Located, Spared, Starved PROVE enc # {} \/ rel.at = "queue"
    OBVIOUS
  <2>1. PICK b \in Buffers : b \notin cam.lost /\ Somewhere(b)
    BY DEF Starved, Spared, Located
  <2>2. pc = "dq" /\ ~frame.back /\ cam.queued = {}
    BY DEF Starved, Located
  <2> QED
    BY <2>1, <2>2 DEF Somewhere
<1>4. CallInv /\ FlagInv /\ Located /\ [Next]_vars => Located'
  BY LocatedNext
<1> QED
  BY <1>1, <1>2, <1>3, <1>4, CallsKept, FlagsKept, PTL DEF Spec

=============================================================================
