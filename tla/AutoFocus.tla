----------------------------- MODULE AutoFocus -----------------------------
(***************************************************************************)
(* The autofocus of libcamera (CameraHal.cpp): every autoFocus() and every *)
(* cancelAutoFocus() starts a detached thread, and those threads, the      *)
(* camera service and the preview thread share mAutoFocusRunning,          *)
(* mAutoFocusUsed, mPreviewRunning and the lens without a lock (mLock is   *)
(* held only while a thread is created).                                   *)
(*                                                                         *)
(* The driver's answer to a poll is any of its three values.  The preview  *)
(* is a switch here: module CameraHal models what turns it.  This is the   *)
(* life of one CameraHal whose device opened; it ends with the destructor, *)
(* which does not wait for the detached threads: what they do in the       *)
(* memory it frees is left out.                                            *)
(***************************************************************************)
EXTENDS Integers, FiniteSets

CONSTANTS
  Threads,   \* the most threads alive at once (a bound: the code has none)
  Retries,   \* RETRY_CNT
  Faults     \* calls that may fail

FaultyCalls == {"thread", "start", "poll", "stop", "release"}

ASSUME FocusAssumption ==
  /\ IsFiniteSet(Threads) /\ Cardinality(Threads) >= 2
  /\ Retries \in Nat \ {0}
  /\ Faults \subseteq FaultyCalls

VARIABLES
  open,               \* has the HAL its camera device?  (camera_device is not NULL)
  parking,            \* how far CameraDestroy() is
  mPreviewRunning, mAutoFocusRunning, mAutoFocusUsed,
  mMsgFocus,          \* mMsgEnabled & CAMERA_MSG_FOCUS
  lens,               \* of the driver: in its "save position" or not
  pc, count,          \* per thread; a free one is at "none"
  verdicts,           \* history: SUCCESS and FAIL reports of a thread
  excused,            \* history: a thread that could not ask for focus
  stuck,              \* history: a thread or an AF_STOP was refused
  missed              \* history: AF_RELEASE was refused, or came before an AF_START

flags == <<mPreviewRunning, mAutoFocusUsed, mMsgFocus>>
optics == <<open, parking, lens, missed>>
vars  == <<optics, flags, mAutoFocusRunning, pc, count, verdicts, excused, stuck>>

FocusSteps  == {"focus", "start", "poll", "giveup", "over"}
CancelSteps == {"cancel", "stop", "cancelled"}

Alive == {t \in Threads : pc[t] # "none"}

\* The bound on calls: one thread is kept for the cancel of a focus that gives up.
Spare(t) == pc[t] = "none" /\ Alive \cup {t} # Threads

Init ==
  /\ open = TRUE /\ parking = "no"
  /\ mPreviewRunning = FALSE /\ mAutoFocusRunning = FALSE /\ mAutoFocusUsed = FALSE
  /\ mMsgFocus = FALSE
  /\ lens = "saved" /\ missed = FALSE
  /\ pc = [t \in Threads |-> "none"]
  /\ count = [t \in Threads |-> 0]
  /\ verdicts = [t \in Threads |-> 0]
  /\ excused = [t \in Threads |-> FALSE]
  /\ stuck = FALSE

\* What a call may answer: TRUE when it succeeds.
Answers(call) == IF call \in Faults THEN BOOLEAN ELSE {TRUE}

-----------------------------------------------------------------------------
(* The camera service, and the preview thread's switch.                    *)

\* The preview was started or stopped, or startPreview() found no overlay and
\* only says so.
Preview(on) ==
  /\ mPreviewRunning # on
  /\ mPreviewRunning' = on
  /\ UNCHANGED <<optics, mAutoFocusUsed, mMsgFocus, mAutoFocusRunning, pc, count,
                 verdicts, excused, stuck>>

\* enableMsgType() and disableMsgType().
MsgType(on) ==
  /\ mMsgFocus # on
  /\ mMsgFocus' = on
  /\ UNCHANGED <<optics, mPreviewRunning, mAutoFocusUsed, mAutoFocusRunning, pc, count,
                 verdicts, excused, stuck>>

\* createThread(): t runs from "entry" on, or the thread is refused.
CreateThread(steps, t, entry) ==
  \E created \in Answers("thread") :
    IF created
    THEN /\ pc' = [steps EXCEPT ![t] = entry]
         /\ stuck' = FALSE
    ELSE pc' = steps /\ stuck' = TRUE

\* autoFocus(): nothing while one counts as running.
AskFocus(t) ==
  /\ Spare(t)
  /\ mPreviewRunning /\ ~mAutoFocusRunning
  /\ mAutoFocusRunning' = TRUE
  /\ CreateThread(pc, t, "focus")
  /\ UNCHANGED <<optics, flags, count, verdicts, excused>>

\* cancelAutoFocus(): from here on a focus counts as running.
AskCancel(t) ==
  /\ Spare(t)
  /\ mPreviewRunning
  /\ mAutoFocusRunning' = TRUE
  /\ CreateThread(pc, t, "cancel")
  /\ UNCHANGED <<optics, flags, count, verdicts, excused>>

-----------------------------------------------------------------------------
(* CameraDestroy(), of the preview thread after a failure or of the        *)
(* destructor, whatever focus threads are alive.                           *)

Unparked == UNCHANGED <<flags, mAutoFocusRunning, pc, count, verdicts, excused, stuck>>

\* Was the lens ever used?
LookAtLens ==
  /\ open /\ parking = "no"
  /\ parking' = IF mAutoFocusUsed THEN "park" ELSE "close"
  /\ UNCHANGED <<open, lens, missed>> /\ Unparked

\* AF_STOP, then AF_RELEASE: "move lens to save position".
Park ==
  /\ parking = "park" /\ parking' = "close"
  /\ \E stopped \in Answers("stop"), released \in Answers("release") :
       /\ lens' = IF released THEN "saved" ELSE IF stopped THEN "stopped" ELSE lens
       /\ missed' = (missed \/ ~released)
  /\ UNCHANGED open /\ Unparked

\* close(camera_device).
CloseDevice ==
  /\ parking = "close" /\ parking' = "no"
  /\ open' = FALSE
  /\ UNCHANGED <<lens, missed>> /\ Unparked

-----------------------------------------------------------------------------
(* autoFocusThread().                                                      *)

Goto(t, from, to) == pc[t] = from /\ pc' = [pc EXCEPT ![t] = to]

\* mNotifyCb(CAMERA_MSG_FOCUS), if the service wants to know.
Report(t, wanted) ==
  verdicts' = [verdicts EXCEPT ![t] = IF wanted THEN @ + 1 ELSE @]

\* Mutant of FocusBegin: the lens does not count as used.
FocusBeginUncounted(t) ==
  /\ pc[t] = "focus"
  /\ pc' = [pc EXCEPT ![t] = IF mPreviewRunning THEN "start" ELSE "over"]
  /\ UNCHANGED <<optics, flags, mAutoFocusRunning, count, verdicts, excused, stuck>>

\* No focus, and no report, without a preview.  A device that was closed is not
\* noticed: camera_device is 0 then, and the test is for less.
FocusBegin(t) ==
  /\ pc[t] = "focus"
  /\ IF mPreviewRunning
     THEN mAutoFocusUsed' = TRUE /\ pc' = [pc EXCEPT ![t] = "start"]
     ELSE pc' = [pc EXCEPT ![t] = "over"] /\ UNCHANGED mAutoFocusUsed
  /\ UNCHANGED <<optics, mPreviewRunning, mMsgFocus, mAutoFocusRunning, count,
                 verdicts, excused, stuck>>

\* AF_START: the lens moves.
FocusStart(t) ==
  /\ open
  /\ Goto(t, "start", "poll")
  /\ lens' = "moving" /\ missed' = (missed \/ parking = "close")
  /\ UNCHANGED <<open, parking, flags, mAutoFocusRunning, count, verdicts, excused, stuck>>

\* AF_START is refused, as by a device that was closed: reported at once, and
\* polled for all the same.
FocusRefused(t) ==
  /\ "start" \in Faults \/ ~open
  /\ Goto(t, "start", "poll")
  /\ mAutoFocusRunning' = FALSE
  /\ Report(t, TRUE)
  /\ excused' = [excused EXCEPT ![t] = TRUE]
  /\ UNCHANGED <<optics, flags, count, stuck>>

\* Leaves the loop: an exhausted count gives up, whatever the last poll said.
Leave(t) == pc' = [pc EXCEPT ![t] = IF count'[t] >= Retries THEN "giveup" ELSE "over"]

\* Mutant of StillMoving: a do-while that never looks at the count.
StillMovingEndless(t) ==
  /\ pc[t] = "poll"
  /\ count' = [count EXCEPT ![t] = @ + 1]
  /\ UNCHANGED <<optics, flags, mAutoFocusRunning, pc, verdicts, excused, stuck>>

\* VIDIOC_G_CTRL says 0: the lens still moves.
StillMoving(t) ==
  /\ open /\ pc[t] = "poll"
  /\ count' = [count EXCEPT ![t] = @ + 1]
  /\ IF count'[t] < Retries THEN UNCHANGED pc ELSE Leave(t)
  /\ UNCHANGED <<optics, flags, mAutoFocusRunning, verdicts, excused, stuck>>

\* Mutant of Settled: the loop goes on after the report.
SettledGoesOn(t) ==
  /\ pc[t] = "poll"
  /\ count' = [count EXCEPT ![t] = @ + 1]
  /\ Report(t, mMsgFocus)
  /\ IF count'[t] < Retries THEN UNCHANGED pc ELSE Leave(t)
  /\ UNCHANGED <<optics, flags, mAutoFocusRunning, excused, stuck>>

\* VIDIOC_G_CTRL says 1 or 2: in focus, or not to be had.
Settled(t) ==
  /\ open /\ pc[t] = "poll"
  /\ count' = [count EXCEPT ![t] = @ + 1]
  /\ Report(t, mMsgFocus)
  /\ Leave(t)
  /\ UNCHANGED <<optics, flags, mAutoFocusRunning, excused, stuck>>

\* VIDIOC_G_CTRL fails: no report, unless that was the last poll.
PollFails(t) ==
  /\ "poll" \in Faults \/ ~open
  /\ pc[t] = "poll"
  /\ count' = [count EXCEPT ![t] = @ + 1]
  /\ Leave(t)
  /\ UNCHANGED <<optics, flags, mAutoFocusRunning, verdicts, excused, stuck>>

\* Mutant of GiveUp: it starts the lens again instead.
GiveUpTriesAgain(t) ==
  /\ Goto(t, "giveup", "start")
  /\ count' = [count EXCEPT ![t] = 0]
  /\ UNCHANGED <<optics, flags, mAutoFocusRunning, verdicts, excused, stuck>>

\* The polls are used up: cancelAutoFocus(), then a FAIL.
GiveUp(t) ==
  /\ pc[t] = "giveup"
  /\ IF mPreviewRunning
     THEN \E c \in Threads \ Alive :
            /\ mAutoFocusRunning' = TRUE
            /\ CreateThread([pc EXCEPT ![t] = "over"], c, "cancel")
     ELSE /\ pc' = [pc EXCEPT ![t] = "over"]
          /\ UNCHANGED <<mAutoFocusRunning, stuck>>
  /\ Report(t, mMsgFocus)
  /\ UNCHANGED <<optics, flags, count, excused>>

\* The last line: mAutoFocusRunning is cleared, a cancel's flag included.
FocusOver(t) ==
  /\ Goto(t, "over", "none")
  /\ mAutoFocusRunning' = FALSE
  /\ count' = [count EXCEPT ![t] = 0]
  /\ verdicts' = [verdicts EXCEPT ![t] = 0]
  /\ excused' = [excused EXCEPT ![t] = FALSE]
  /\ UNCHANGED <<optics, flags, stuck>>

-----------------------------------------------------------------------------
(* cancelAutoFocusThread().                                                *)

\* Mutant of CancelBegin: no preview, and the flag stays.
CancelBeginSticks(t) ==
  /\ pc[t] = "cancel"
  /\ pc' = [pc EXCEPT ![t] = IF mPreviewRunning THEN "stop" ELSE "none"]
  /\ UNCHANGED <<optics, flags, mAutoFocusRunning, count, verdicts, excused, stuck>>

\* Without a preview there is nothing to stop.
CancelBegin(t) ==
  /\ pc[t] = "cancel"
  /\ pc' = [pc EXCEPT ![t] = IF mPreviewRunning THEN "stop" ELSE "cancelled"]
  /\ UNCHANGED <<optics, flags, mAutoFocusRunning, count, verdicts, excused, stuck>>

\* AF_STOP, and the CAMERA_AF_CANCEL report that no one has to want.
CancelStop(t) ==
  /\ open
  /\ Goto(t, "stop", "cancelled")
  /\ lens' = IF lens = "moving" THEN "stopped" ELSE lens
  /\ UNCHANGED <<open, parking, missed, flags, mAutoFocusRunning, count, verdicts, excused,
                 stuck>>

\* AF_STOP is refused: the thread returns and mAutoFocusRunning stays.
CancelRefused(t) ==
  /\ "stop" \in Faults \/ ~open
  /\ Goto(t, "stop", "none")
  /\ stuck' = TRUE
  /\ UNCHANGED <<optics, flags, mAutoFocusRunning, count, verdicts, excused>>

Cancelled(t) ==
  /\ Goto(t, "cancelled", "none")
  /\ mAutoFocusRunning' = FALSE
  /\ UNCHANGED <<optics, flags, count, verdicts, excused, stuck>>

-----------------------------------------------------------------------------
Run(t) ==
  \/ FocusBegin(t) \/ FocusStart(t) \/ FocusRefused(t)
  \/ StillMoving(t) \/ Settled(t) \/ PollFails(t)
  \/ GiveUp(t) \/ FocusOver(t)
  \/ CancelBegin(t) \/ CancelStop(t) \/ CancelRefused(t) \/ Cancelled(t)

Next ==
  \/ \E on \in BOOLEAN : Preview(on) \/ MsgType(on)
  \/ \E t \in Threads : AskFocus(t) \/ AskCancel(t) \/ Run(t)
  \/ LookAtLens \/ Park \/ CloseDevice

Spec == Init /\ [][Next]_vars

\* A thread that has been created runs.
FairSpec == Spec /\ \A t \in Threads : WF_vars(Run(t))

-----------------------------------------------------------------------------
TypeOK ==
  /\ open \in BOOLEAN /\ mPreviewRunning \in BOOLEAN /\ mAutoFocusRunning \in BOOLEAN
  /\ mAutoFocusUsed \in BOOLEAN /\ mMsgFocus \in BOOLEAN
  /\ parking \in {"no", "park", "close"}
  /\ lens \in {"saved", "moving", "stopped"} /\ missed \in BOOLEAN
  /\ pc \in [Threads -> {"none"} \cup FocusSteps \cup CancelSteps]
  /\ count \in [Threads -> 0 .. Retries]
  /\ verdicts \in [Threads -> 0 .. 3]
  /\ excused \in [Threads -> BOOLEAN]
  /\ stuck \in BOOLEAN

\* autoFocus() does nothing while mAutoFocusRunning is set.  The flag is only
\* ever left behind when a thread could not be created or AF_STOP was refused:
\* otherwise some thread is alive that will clear it.
BusyIsWorked == mAutoFocusRunning => Alive # {} \/ stuck

\* "Disable AF, move lens to save position": whatever focus and cancel threads
\* are alive, and whatever was refused to them, CameraDestroy() closes the device
\* with the lens in its save position, unless AF_RELEASE is refused or a focus
\* thread starts the lens again between CameraDestroy()'s last word and the close.
LensAtRest == ~open => lens = "saved" \/ missed

\* One autoFocus() is answered once: a thread that says more than one SUCCESS
\* or FAIL either could not start the lens or had used up its polls.
OneVerdict ==
  \A t \in Threads : verdicts[t] > 1 => excused[t] \/ count[t] = Retries

\* A focus counts as running for a bounded time, whatever the lens does, unless
\* one of the refusals of BusyIsWorked keeps the flag set.
FocusEnds == mAutoFocusRunning ~> (~mAutoFocusRunning \/ stuck)
=============================================================================
