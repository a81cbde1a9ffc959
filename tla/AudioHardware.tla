--------------------------- MODULE AudioHardware ---------------------------
(***************************************************************************)
(* The audio HAL of libaudio (AudioHardware.cpp): the hardware object, its *)
(* output and input streams, and the calls AudioFlinger's threads make     *)
(* into them.  The module keeps every lock, reference and counter of the   *)
(* path reconfiguration protocol: the stream mutexes, the hardware mutex,  *)
(* the "prepare, unlock, lock the stream, lock again, recheck" loops of    *)
(* setMode(), write() and read(), the reference counted PCM and mixer, the *)
(* standby counter, the wake locks, the strong references that keep a      *)
(* closed stream alive, and the FM radio calls, which take no lock.        *)
(*                                                                         *)
(* Samples, volumes, sample rates and device names are left out.  The      *)
(* stream that a data thread serves names that thread: AudioFlinger runs   *)
(* one playback or record thread per stream.                               *)
(***************************************************************************)
EXTENDS Integers, FiniteSets

CONSTANTS
  Outputs,       \* names for AudioStreamOutALSA objects
  Inputs,        \* names for AudioStreamInALSA objects
  Controls,      \* threads that call setMode, open, close and the FM radio
  None,          \* the null pointer, and the owner of a free mutex
  OpenResults,   \* results a driver open may have: a set of BOOLEANs
  RacyClient,    \* may a stream be closed while other calls are under way?
  DataCalls,     \* bound: calls one data thread makes
  ControlCalls,  \* bound: setMode and close calls one control thread makes
  FmCalls        \* bound: FM radio calls in all

Streams == Outputs \cup Inputs
Threads == Streams \cup Controls

ASSUME ThreadsAssumption ==
  /\ Outputs \cap Inputs = {}
  /\ Streams \cap Controls = {}
  /\ None \notin Threads

ASSUME BoundsAssumption ==
  /\ OpenResults \subseteq BOOLEAN
  /\ OpenResults # {}
  /\ RacyClient \in BOOLEAN
  /\ DataCalls \in Nat
  /\ ControlCalls \in Nat
  /\ FmCalls \in Nat

Modes == {"NORMAL", "IN_CALL"}
Sides == {"out", "in"}
Paths == {"off", "playback", "voice", "fm"}
WakeLocks == {"AudioOutLock", "AudioInLock"}

VARIABLES
  mMode, mInCallAudioMode,
  hw,           \* mPcm, mPcmOpenCnt, mMixer, mMixerOpenCnt; the LOGE of a close too many
  path,         \* output path the mixer has selected, "off" when the amplifier is
  fm,           \* mFmFd (open or not) and mFmResumeAfterCall
  mOutput, mInputs,
  mLock,        \* owner of AudioHardware::mLock
  stream,       \* per stream: mStandby, mStandbyCnt, mPcm, mMixer
  sLock,        \* per stream: owner of its mLock
  mSleepReq,    \* per stream
  wakeLocks,    \* wake locks held in the kernel
  pc,           \* where each thread is in its call
  side,         \* which stream a path loop is after: "out" or "in"
  sp,           \* the strong references spOut and spIn of each thread
  cnt,          \* mStandbyCnt as prepareLock() returned it
  arg,          \* mode asked of setMode()
  calls, fmCalls

devVars    == <<mMode, mInCallAudioMode, hw, path, fm>>
regVars    == <<mOutput, mInputs>>
lockVars   == <<mLock, sLock, mSleepReq>>
threadVars == <<pc, side, sp, cnt, arg>>
callVars   == <<calls, fmCalls>>
vars == <<devVars, regVars, lockVars, stream, wakeLocks, threadVars, callVars>>

PCs == {"idle", "modeHw", "chase", "lock", "relock", "recheck", "apply",
        "drop", "dtorLock", "dtorHw", "ioLock", "exitStandby", "open",
        "transfer", "standbyLock", "standbyHw", "routeLock", "routeHw",
        "fmDelay", "fmMixer", "fmFd", "fmOffPcm", "fmOffFd"}

HwState     == [mPcm : BOOLEAN, mPcmOpenCnt : Nat,
                mMixer : BOOLEAN, mMixerOpenCnt : Nat, unmatched : BOOLEAN]
StreamState == [mStandby : BOOLEAN, mStandbyCnt : Nat,
                mPcm : BOOLEAN, mMixer : BOOLEAN]

NewStream == [mStandby |-> TRUE, mStandbyCnt |-> 0, mPcm |-> FALSE, mMixer |-> FALSE]
NoRefs    == [out |-> None, in |-> None]

-----------------------------------------------------------------------------
(* The reference counted PCM and mixer of the hardware object.             *)

\* openPcmOut_l(): ok is what pcm_open() answers when the driver is asked.
OpenPcm(h, ok) ==
  IF h.mPcmOpenCnt > 0 THEN [h EXCEPT !.mPcmOpenCnt = @ + 1]
  ELSE IF ok /\ ~h.mPcm THEN [h EXCEPT !.mPcmOpenCnt = 1, !.mPcm = TRUE]
  ELSE h

\* The handle openPcmOut_l() returns: TRUE when it is not NULL.
PcmHandle(h, ok) == IF h.mPcmOpenCnt > 0 THEN h.mPcm ELSE ok /\ ~h.mPcm

ClosePcm(h) ==
  IF h.mPcmOpenCnt = 0 THEN [h EXCEPT !.unmatched = TRUE]
  ELSE [h EXCEPT !.mPcmOpenCnt = @ - 1, !.mPcm = @ /\ h.mPcmOpenCnt > 1]

OpenMixer(h, ok) ==
  IF h.mMixerOpenCnt > 0 THEN [h EXCEPT !.mMixerOpenCnt = @ + 1]
  ELSE IF ok /\ ~h.mMixer THEN [h EXCEPT !.mMixerOpenCnt = 1, !.mMixer = TRUE]
  ELSE h

MixerHandle(h, ok) == IF h.mMixerOpenCnt > 0 THEN h.mMixer ELSE ok /\ ~h.mMixer

CloseMixer(h) ==
  IF h.mMixerOpenCnt = 0 THEN [h EXCEPT !.unmatched = TRUE]
  ELSE [h EXCEPT !.mMixerOpenCnt = @ - 1, !.mMixer = @ /\ h.mMixerOpenCnt > 1]

\* Mutant of CloseStream: close_l() forgets the mixer.
CloseStreamKeepsMixer(s, h) ==
  IF s \in Outputs /\ stream[s].mPcm THEN ClosePcm(h) ELSE h

\* close_l() of either stream class, as seen by the hardware's counters.
\* The capture PCM belongs to the stream alone.
CloseStream(s, h) ==
  LET m == IF stream[s].mMixer THEN CloseMixer(h) ELSE h
  IN  IF s \in Outputs /\ stream[s].mPcm THEN ClosePcm(m) ELSE m

\* As CloseStream, for a strong reference that may be null.
CloseRef(s, h) == IF s = None THEN h ELSE CloseStream(s, h)

\* open_l(): the output takes a reference on the shared PCM, the input opens
\* its own; the mixer is opened only when the PCM was.
OpenStream(s, h, okPcm, okMixer) ==
  LET p == IF s \in Outputs THEN OpenPcm(h, okPcm) ELSE h
  IN  IF (IF s \in Outputs THEN PcmHandle(h, okPcm) ELSE okPcm)
      THEN OpenMixer(p, okMixer) ELSE p

Opened(s, h, okPcm, okMixer) ==
  LET p == IF s \in Outputs THEN OpenPcm(h, okPcm) ELSE h
      got == IF s \in Outputs THEN PcmHandle(h, okPcm) ELSE okPcm
  IN  [stream[s] EXCEPT !.mPcm = got, !.mMixer = got /\ MixerHandle(p, okMixer)]

\* Mutant of InStandby: doStandby_l() closes the handles but not the state.
InStandbyStillActive(s) ==
  [stream[s] EXCEPT !.mStandbyCnt = @ + 1, !.mPcm = FALSE, !.mMixer = FALSE]

\* doStandby_l(), as seen by the stream.
InStandby(s) == [mStandby |-> TRUE, mStandbyCnt |-> stream[s].mStandbyCnt + 1,
                 mPcm |-> FALSE, mMixer |-> FALSE]

\* The streams of S after doStandby_l() of each.
StandbyAll(S) == [s \in Streams |-> IF s \in S THEN InStandby(s) ELSE stream[s]]

WakeLock(s) == IF s \in Outputs THEN "AudioOutLock" ELSE "AudioInLock"

\* Mutant of Released: doStandby_l() forgets release_wake_lock().
ReleasedNever(S) == {}

\* doStandby_l() releases the wake lock of a stream that was active.
Released(S) == {WakeLock(s) : s \in {x \in S : ~stream[x].mStandby}}

\* Mutant of PathAfterClose: close_l() does not look at the mode.
PathAfterCloseAnyMode(S, mode) ==
  IF \E s \in S \cap Outputs : stream[s].mMixer THEN "off" ELSE path

\* close_l() of an output switches the amplifier off, but not in a call.
PathAfterClose(S, mode) ==
  IF mode # "IN_CALL" /\ \E s \in S \cap Outputs : stream[s].mMixer
  THEN "off" ELSE path

\* setOutputRoute(): selects a path when the mixer is open.
Select(route, h, old) == IF h.mMixer THEN route ELSE old

-----------------------------------------------------------------------------
(* References, and who is active.                                          *)

Registered(s) == s = mOutput \/ s \in mInputs

Referenced(s) == \E t \in Threads, d \in Sides : sp[t][d] = s

\* Dropping t's reference to s would run the destructor of s.
LastRef(t, s) ==
  /\ ~Registered(s)
  /\ \A u \in Threads \ {t}, d \in Sides : sp[u][d] # s

\* getActiveInput_l(): the first input of mInputs that is not in standby.
ActiveInput ==
  LET active == {i \in mInputs : ~stream[i].mStandby}
  IN  IF active = {} THEN None ELSE CHOOSE i \in active : TRUE

ActiveOutput ==
  IF mOutput # None /\ ~stream[mOutput].mStandby THEN mOutput ELSE None

\* Mutant of Current: write() and read() look for the wrong peer.
CurrentSwapped(d) == IF d = "out" THEN ActiveInput ELSE ActiveOutput

\* The stream a path loop is after when it (re)starts under mLock.
Current(d) == IF d = "out" THEN ActiveOutput ELSE ActiveInput

\* Mutants of Unchanged: the counter is not compared; the registry is not
\* looked at; the loop for the input compares with the output.
UnchangedAnyCount(t, s) == s = (IF side[t] = "out" THEN mOutput ELSE ActiveInput)
UnchangedUnregistered(t, s) == cnt[t] = stream[s].mStandbyCnt
UnchangedOutputOnly(t, s) == s = mOutput /\ cnt[t] = stream[s].mStandbyCnt

\* The test after the loop has both mutexes: nobody closed or replaced the
\* stream, or put it in standby, while mLock was released.
Unchanged(t, s) ==
  /\ s = (IF side[t] = "out" THEN mOutput ELSE ActiveInput)
  /\ cnt[t] = stream[s].mStandbyCnt

Target(t) == sp[t][side[t]]
Goto(t, label) == pc' = [pc EXCEPT ![t] = label]

\* The local variables of a call end with their scope.
ForgetLocals(t) ==
  /\ sp' = [sp EXCEPT ![t] = NoRefs]
  /\ side' = [side EXCEPT ![t] = "out"]
  /\ cnt' = [cnt EXCEPT ![t] = 0]
  /\ arg' = [arg EXCEPT ![t] = "NORMAL"]

Take(s, t) == sLock[s] = None /\ sLock' = [sLock EXCEPT ![s] = t]
AllIdleBut(t) == \A u \in Threads \ {t} : pc[u] = "idle"

-----------------------------------------------------------------------------
(* Opening and closing streams.                                            *)

Init ==
  /\ mMode = "NORMAL" /\ mInCallAudioMode = FALSE
  /\ hw = [mPcm |-> FALSE, mPcmOpenCnt |-> 0,
           mMixer |-> FALSE, mMixerOpenCnt |-> 0, unmatched |-> FALSE]
  /\ path = "off"
  /\ fm = [mFmFd |-> FALSE, mFmResumeAfterCall |-> FALSE]
  /\ mOutput = None /\ mInputs = {}
  /\ mLock = None
  /\ stream = [s \in Streams |-> NewStream]
  /\ sLock = [s \in Streams |-> None]
  /\ mSleepReq = [s \in Streams |-> FALSE]
  /\ wakeLocks = {}
  /\ pc = [t \in Threads |-> "idle"]
  /\ side = [t \in Threads |-> "out"]
  /\ sp = [t \in Threads |-> NoRefs]
  /\ cnt = [t \in Threads |-> 0]
  /\ arg = [t \in Threads |-> "NORMAL"]
  /\ calls = [t \in Threads |-> 0]
  /\ fmCalls = 0

\* openOutputStream() and openInputStream(): a new object, registered.
Open(t, s) ==
  /\ pc[t] = "idle" /\ mLock = None
  /\ ~Registered(s) /\ ~Referenced(s)
  /\ \/ s \in Outputs /\ mOutput = None /\ mOutput' = s /\ UNCHANGED mInputs
     \/ s \in Inputs /\ mInputs' = mInputs \cup {s} /\ UNCHANGED mOutput
  /\ stream' = [stream EXCEPT ![s] = NewStream]
  /\ UNCHANGED <<devVars, lockVars, wakeLocks, threadVars, callVars>>

\* closeOutputStream() and closeInputStream(): the stream leaves the registry
\* under mLock; the caller keeps the last reference of its own.
Close(t, s) ==
  /\ pc[t] = "idle" /\ calls[t] < ControlCalls
  /\ pc[s] = "idle" /\ (RacyClient \/ AllIdleBut(t))
  /\ mLock = None
  /\ Registered(s)
  /\ mOutput' = IF s = mOutput THEN None ELSE mOutput
  /\ mInputs' = mInputs \ {s}
  /\ sp' = [sp EXCEPT ![t][IF s \in Outputs THEN "out" ELSE "in"] = s]
  /\ Goto(t, "drop")
  /\ calls' = [calls EXCEPT ![t] = @ + 1]
  /\ UNCHANGED <<devVars, lockVars, stream, wakeLocks, side, cnt, arg, fmCalls>>

\* The caller's references go out of scope, mLock not held: one that is the
\* last runs the destructor, the others disappear.
Drop(t) ==
  LET last == {d \in Sides : sp[t][d] # None /\ LastRef(t, sp[t][d])}
  IN  /\ pc[t] = "drop"
      /\ \/ last = {} /\ ForgetLocals(t) /\ Goto(t, "idle")
         \/ /\ \E d \in last : side' = [side EXCEPT ![t] = d]
            /\ Goto(t, "dtorLock")
            /\ UNCHANGED <<sp, cnt, arg>>
      /\ UNCHANGED <<devVars, regVars, lockVars, stream, wakeLocks, callVars>>

\* ~AudioStreamOutALSA(), ~AudioStreamInALSA(): standby() of the dying stream.
DtorLock(t) ==
  /\ pc[t] = "dtorLock"
  /\ Take(Target(t), t)
  /\ Goto(t, "dtorHw")
  /\ UNCHANGED <<devVars, regVars, mLock, mSleepReq, stream, wakeLocks,
                 side, sp, cnt, arg, callVars>>

DtorHw(t) ==
  LET s == Target(t)
  IN  /\ pc[t] = "dtorHw" /\ mLock = None
      /\ stream' = StandbyAll({s})
      /\ wakeLocks' = wakeLocks \ Released({s})
      /\ hw' = CloseStream(s, hw)
      /\ path' = PathAfterClose({s}, mMode)
      /\ sLock' = [sLock EXCEPT ![s] = None]
      /\ sp' = [sp EXCEPT ![t][side[t]] = None]
      /\ Goto(t, "drop")
      /\ UNCHANGED <<mMode, mInCallAudioMode, fm, regVars, mLock, mSleepReq,
                     side, cnt, arg, callVars>>

-----------------------------------------------------------------------------
(* The path loops.  A thread owns mLock at "chase", "apply" and "open".    *)

\* The loop has ended: setMode() goes from the output to the input, then
\* changes the mode; write() and read() open the path.
EndLoop(t) ==
  IF t \in Controls /\ side[t] = "out"
  THEN /\ side' = [side EXCEPT ![t] = "in"]
       /\ sp' = [sp EXCEPT ![t].in = ActiveInput]
       /\ Goto(t, "chase")
  ELSE /\ Goto(t, IF t \in Controls THEN "apply" ELSE "open")
       /\ UNCHANGED <<side, sp>>

\* No stream to silence.
ChaseNone(t) ==
  /\ pc[t] = "chase" /\ Target(t) = None
  /\ EndLoop(t)
  /\ UNCHANGED <<devVars, regVars, lockVars, stream, wakeLocks, cnt, arg, callVars>>

\* Mutant of ChasePrepare: read() keeps its own mutex while it waits for the
\* output's.
ChasePrepareKeepsOwn(t) ==
  LET s == Target(t)
  IN  /\ pc[t] = "chase" /\ s # None
      /\ mSleepReq' = [mSleepReq EXCEPT ![s] = TRUE]
      /\ cnt' = [cnt EXCEPT ![t] = stream[s].mStandbyCnt]
      /\ mLock' = None
      /\ Goto(t, "lock")
      /\ UNCHANGED <<devVars, regVars, sLock, stream, wakeLocks, side, sp, arg, callVars>>

\* prepareLock(), then mLock is released; read() releases its own mutex too,
\* to take the output's first.
ChasePrepare(t) ==
  LET s == Target(t)
  IN  /\ pc[t] = "chase" /\ s # None
      /\ mSleepReq' = [mSleepReq EXCEPT ![s] = TRUE]
      /\ cnt' = [cnt EXCEPT ![t] = stream[s].mStandbyCnt]
      /\ mLock' = None
      /\ sLock' = IF t \in Inputs THEN [sLock EXCEPT ![t] = None] ELSE sLock
      /\ Goto(t, "lock")
      /\ UNCHANGED <<devVars, regVars, stream, wakeLocks, side, sp, arg, callVars>>

\* Mutant of LockStream: lock() does not clear mSleepReq.
LockStreamStillAsking(t) ==
  /\ pc[t] = "lock"
  /\ Take(Target(t), t)
  /\ Goto(t, IF t \in Inputs THEN "relock" ELSE "recheck")
  /\ UNCHANGED <<devVars, regVars, mLock, mSleepReq, stream, wakeLocks, side, sp,
                 cnt, arg, callVars>>

\* lock() of the stream.
LockStream(t) ==
  /\ pc[t] = "lock"
  /\ Take(Target(t), t)
  /\ mSleepReq' = [mSleepReq EXCEPT ![Target(t)] = FALSE]
  /\ Goto(t, IF t \in Inputs THEN "relock" ELSE "recheck")
  /\ UNCHANGED <<devVars, regVars, mLock, stream, wakeLocks, side, sp, cnt, arg, callVars>>

\* read() takes its own mutex back.
RelockSelf(t) ==
  /\ pc[t] = "relock"
  /\ Take(t, t)
  /\ Goto(t, "recheck")
  /\ UNCHANGED <<devVars, regVars, mLock, mSleepReq, stream, wakeLocks,
                 side, sp, cnt, arg, callVars>>

RecheckFound(t) ==
  /\ pc[t] = "recheck" /\ mLock = None
  /\ Unchanged(t, Target(t))
  /\ mLock' = t
  /\ EndLoop(t)
  /\ UNCHANGED <<devVars, regVars, sLock, mSleepReq, stream, wakeLocks, cnt, arg, callVars>>

\* Another thread changed the stream: unlock it and look again.  Overwriting
\* the strong reference may drop the last one, with mLock held.
RecheckLost(t) ==
  LET s == Target(t)
  IN  /\ pc[t] = "recheck" /\ mLock = None
      /\ ~Unchanged(t, s)
      /\ mLock' = t
      /\ sLock' = [sLock EXCEPT ![s] = None]
      /\ \/ /\ LastRef(t, s)
            /\ Goto(t, "dtorLock")
            /\ UNCHANGED sp
         \/ /\ ~LastRef(t, s)
            /\ sp' = [sp EXCEPT ![t][side[t]] = Current(side[t])]
            /\ Goto(t, "chase")
      /\ UNCHANGED <<devVars, regVars, mSleepReq, stream, wakeLocks, side, cnt, arg, callVars>>

-----------------------------------------------------------------------------
(* setMode().                                                              *)

SetMode(t, mode) ==
  /\ pc[t] = "idle" /\ calls[t] < ControlCalls
  /\ arg' = [arg EXCEPT ![t] = mode]
  /\ calls' = [calls EXCEPT ![t] = @ + 1]
  /\ Goto(t, "modeHw")
  /\ UNCHANGED <<devVars, regVars, lockVars, stream, wakeLocks, side, sp, cnt, fmCalls>>

ModeHw(t) ==
  /\ pc[t] = "modeHw" /\ mLock = None
  /\ mLock' = t
  /\ side' = [side EXCEPT ![t] = "out"]
  /\ sp' = [sp EXCEPT ![t].out = ActiveOutput]
  /\ Goto(t, "chase")
  /\ UNCHANGED <<devVars, regVars, sLock, mSleepReq, stream, wakeLocks, cnt, arg, callVars>>

\* The streams setMode() found active and locked.
Claimed(t) == {sp[t][d] : d \in Sides} \ {None}

\* setMode() unlocks the streams, then the hardware.
EndMode(t) ==
  /\ mLock' = None
  /\ sLock' = [s \in Streams |-> IF s \in Claimed(t) THEN None ELSE sLock[s]]
  /\ Goto(t, "drop")
  /\ UNCHANGED <<regVars, mSleepReq, side, sp, cnt, arg, callVars>>

\* Mutant of ResumeFm: setMode() forgets the delayed radio.
ResumeFmNever(h, p) == hw' = h /\ path' = p /\ UNCHANGED fm

\* enableFMRadio() at the end of setMode(), when it was delayed by a call that
\* is now over.  h and p are the counters and the path at that point.
ResumeFm(h, p) ==
  IF fm.mFmResumeAfterCall
  THEN \E okPcm, okMixer, okFd \in OpenResults :
         /\ hw' = OpenMixer(OpenPcm(h, okPcm), okMixer)
         /\ path' = Select("fm", hw', p)
         /\ fm' = [mFmFd |-> fm.mFmFd \/ okFd, mFmResumeAfterCall |-> FALSE]
  ELSE hw' = h /\ path' = p /\ UNCHANGED fm

\* A call starts: the active streams are put in standby, the call takes its
\* references.  A delayed FM radio stays delayed.
CallStarts(t) ==
  /\ pc[t] = "apply" /\ arg[t] = "IN_CALL" /\ ~mInCallAudioMode
  /\ mMode' = "IN_CALL" /\ mInCallAudioMode' = TRUE
  /\ stream' = StandbyAll(Claimed(t))
  /\ wakeLocks' = wakeLocks \ Released(Claimed(t))
  /\ \E okPcm, okMixer \in OpenResults :
       LET closed == CloseRef(sp[t].in, CloseRef(sp[t].out, hw))
       IN  hw' = OpenMixer(OpenPcm(closed, okPcm), okMixer)
  /\ UNCHANGED <<path, fm>>
  /\ EndMode(t)

\* A call ends: the playback path is selected, the call's references are
\* given back, and the active streams are put in standby.
CallEnds(t) ==
  LET routed == Select("playback", hw, path)
      closed == CloseRef(sp[t].in, CloseRef(sp[t].out, ClosePcm(CloseMixer(hw))))
      off    == \E s \in Claimed(t) \cap Outputs : stream[s].mMixer
  IN  /\ pc[t] = "apply" /\ arg[t] # "IN_CALL" /\ mInCallAudioMode
      /\ mMode' = arg[t] /\ mInCallAudioMode' = FALSE
      /\ stream' = StandbyAll(Claimed(t))
      /\ wakeLocks' = wakeLocks \ Released(Claimed(t))
      /\ ResumeFm(closed, IF off THEN "off" ELSE routed)
      /\ EndMode(t)

\* Neither: only the mode may change.
ModeOnly(t) ==
  /\ pc[t] = "apply" /\ (arg[t] = "IN_CALL") = mInCallAudioMode
  /\ mMode' = arg[t] /\ UNCHANGED <<mInCallAudioMode, stream, wakeLocks>>
  /\ IF arg[t] = "IN_CALL" THEN UNCHANGED <<hw, path, fm>> ELSE ResumeFm(hw, path)
  /\ EndMode(t)

-----------------------------------------------------------------------------
(* write(), read(), standby() and setParameters() of a stream, called by   *)
(* the data thread s of that stream.                                       *)

Begin(s, label) ==
  /\ pc[s] = "idle" /\ calls[s] < DataCalls
  /\ Registered(s)
  /\ calls' = [calls EXCEPT ![s] = @ + 1]
  /\ Goto(s, label)
  /\ UNCHANGED <<devVars, regVars, lockVars, stream, wakeLocks, side, sp, cnt, arg, fmCalls>>

\* The audio policy runs one recorder at a time (not enforced by the HAL).
OnlyRecorder(s) ==
  s \in Inputs => \A i \in Inputs \ {s} : pc[i] = "idle" /\ stream[i].mStandby

BeginIo(s)      == OnlyRecorder(s) /\ Begin(s, "ioLock")
BeginStandby(s) == Begin(s, "standbyLock")
BeginRoute(s)   == Begin(s, "routeLock")

\* The stream's own mutex, taken by write(), read(), standby(), setParameters().
LockSelf(s) ==
  /\ \/ pc[s] = "ioLock" /\ Goto(s, IF stream[s].mStandby THEN "exitStandby" ELSE "transfer")
     \/ pc[s] = "standbyLock" /\ Goto(s, "standbyHw")
     \/ pc[s] = "routeLock" /\ Goto(s, "routeHw")
  /\ Take(s, s)
  /\ UNCHANGED <<devVars, regVars, mLock, mSleepReq, stream, wakeLocks,
                 side, sp, cnt, arg, callVars>>

\* write() looks for the active input, read() for the active output.
ExitStandby(s) ==
  LET d == IF s \in Outputs THEN "in" ELSE "out"
  IN  /\ pc[s] = "exitStandby" /\ mLock = None
      /\ mLock' = s
      /\ wakeLocks' = wakeLocks \cup {WakeLock(s)}
      /\ side' = [side EXCEPT ![s] = d]
      /\ sp' = [sp EXCEPT ![s][d] = Current(d)]
      /\ Goto(s, "chase")
      /\ UNCHANGED <<devVars, regVars, sLock, mSleepReq, stream, cnt, arg, callVars>>

\* The output and the input that data thread s opens: its own stream and the
\* active peer, if there is one.
PathOut(s) == IF s \in Outputs THEN s ELSE sp[s].out
PathIn(s)  == IF s \in Inputs THEN s ELSE sp[s].in

\* The opens of a path, in order; the driver answers each.
Opens == {"pcm", "mixer", "capturePcm", "captureMixer"}

\* The counters when the peer is closed, and when the output is opened.
PeerClosed(s) == CloseRef(sp[s].out, CloseRef(sp[s].in, hw))
OutOpened(s, ok) ==
  IF PathOut(s) = None THEN PeerClosed(s)
  ELSE OpenStream(PathOut(s), PeerClosed(s), ok["pcm"], ok["mixer"])
InOpened(s, ok) ==
  IF PathIn(s) = None THEN OutOpened(s, ok)
  ELSE OpenStream(PathIn(s), OutOpened(s, ok), ok["capturePcm"], ok["captureMixer"])

\* Stream x of the path after open_l().
Reopened(s, x, ok) ==
  IF x \in Outputs THEN Opened(x, PeerClosed(s), ok["pcm"], ok["mixer"])
  ELSE Opened(x, OutOpened(s, ok), ok["capturePcm"], ok["captureMixer"])

\* Peers that cannot be reopened go to standby.
FailedPeers(s, ok) == {x \in Claimed(s) : ~Reopened(s, x, ok).mPcm}

\* The path is opened: the active peer is closed first, the output is opened
\* before the input.  If its own PCM did not open, the call fails and ends in
\* standby().
OpenPath(s) ==
  /\ pc[s] = "open"
  /\ \E ok \in [Opens -> OpenResults] :
       LET failed == FailedPeers(s, ok)
           opened == Reopened(s, s, ok).mPcm
           played == PathOut(s) # None /\ Reopened(s, PathOut(s), ok).mPcm /\ mMode # "IN_CALL"
           closed == PathAfterClose(Claimed(s), mMode)
       IN  /\ hw' = InOpened(s, ok)
           /\ stream' = [x \in Streams |->
                IF x = s THEN [Reopened(s, s, ok) EXCEPT !.mStandby = ~opened]
                ELSE IF x \in failed THEN InStandby(x)
                ELSE IF x \in Claimed(s) THEN Reopened(s, x, ok)
                ELSE stream[x]]
           /\ wakeLocks' = (wakeLocks \ Released(failed))
                             \ (IF opened THEN {} ELSE {WakeLock(s)})
           /\ path' = IF played THEN Select("playback", OutOpened(s, ok), closed) ELSE closed
           /\ sLock' = [x \in Streams |->
                IF x \in Claimed(s) \/ (x = s /\ ~opened) THEN None ELSE sLock[x]]
           /\ Goto(s, IF opened THEN "transfer" ELSE "standbyLock")
  /\ mLock' = None
  /\ ForgetLocals(s)
  /\ UNCHANGED <<mMode, mInCallAudioMode, fm, regVars, mSleepReq, callVars>>

\* The handle a data thread passes to pcm_write() or pcm_read() is open.
HandleOpen(s) == stream[s].mPcm /\ (s \in Outputs => hw.mPcm)

\* pcm_write() and pcm_read() run under the stream's mutex only.
Transfer(s) ==
  /\ pc[s] = "transfer"
  /\ sLock' = [sLock EXCEPT ![s] = None]
  /\ \/ HandleOpen(s) /\ Goto(s, "idle")
     \/ Goto(s, "standbyLock")
  /\ UNCHANGED <<devVars, regVars, mLock, mSleepReq, stream, wakeLocks,
                 side, sp, cnt, arg, callVars>>

\* doStandby_l() of the streams in S, and unlock of the caller's own.
StandbyStep(s, S) ==
  /\ stream' = StandbyAll(S)
  /\ wakeLocks' = wakeLocks \ Released(S)
  /\ hw' = IF S = {} THEN hw ELSE CloseStream(s, hw)
  /\ sLock' = [sLock EXCEPT ![s] = None]
  /\ Goto(s, "idle")
  /\ UNCHANGED <<mMode, mInCallAudioMode, fm, regVars, mLock, mSleepReq,
                 side, sp, cnt, arg, callVars>>

StandbyHw(s) ==
  /\ pc[s] = "standbyHw" /\ mLock = None
  /\ StandbyStep(s, {s})
  /\ path' = PathAfterClose({s}, mMode)

\* setParameters(routing): a new device puts the stream in standby, but not in
\* a call, where an output selects the voice path (setIncallPath_l).
Route(s) ==
  /\ pc[s] = "routeHw" /\ mLock = None
  /\ \E S \in IF mMode = "IN_CALL" THEN {{}} ELSE {{}, {s}} :
       /\ StandbyStep(s, S)
       /\ path' = IF mMode = "IN_CALL" /\ s \in Outputs
                  THEN Select("voice", hw, path) ELSE PathAfterClose(S, mMode)

\* setParameters(input source): the mixer is opened for one control.
InputSource(s) ==
  /\ pc[s] = "routeHw" /\ s \in Inputs /\ mLock = None
  /\ \E ok \in OpenResults : hw' = CloseMixer(OpenMixer(hw, ok))
  /\ sLock' = [sLock EXCEPT ![s] = None]
  /\ Goto(s, "idle")
  /\ UNCHANGED <<mMode, mInCallAudioMode, path, fm, regVars, mLock, mSleepReq,
                 stream, wakeLocks, side, sp, cnt, arg, callVars>>

-----------------------------------------------------------------------------
(* setParameters(fm_on), setParameters(fm_off): no mutex is taken, so the   *)
(* steps of other threads fall between these.                               *)

FmPCs == {"fmDelay", "fmMixer", "fmFd", "fmOffPcm", "fmOffFd"}

\* One radio application (outside the HAL) turns the radio on, then off, each
\* call after the other has returned.
BeginFm(t) ==
  /\ pc[t] = "idle" /\ fmCalls < FmCalls
  /\ \A u \in Controls : pc[u] \notin FmPCs
  /\ fmCalls' = fmCalls + 1
  /\ UNCHANGED <<mMode, mInCallAudioMode, path, regVars, lockVars, stream,
                 wakeLocks, side, sp, cnt, arg, calls>>

\* Mutant of FmOn: the radio is not delayed by a call.
FmOnInCall(t) ==
  /\ BeginFm(t) /\ fmCalls % 2 = 0
  /\ mOutput # None
  /\ \E ok \in OpenResults : hw' = OpenPcm(hw, ok)
  /\ Goto(t, "fmMixer")
  /\ UNCHANGED fm

\* enableFMRadio() looks at the mode; out of a call it opens the PCM. It reads
\* the output's device later: an output must be open.
FmOn(t) ==
  /\ BeginFm(t) /\ fmCalls % 2 = 0
  /\ mOutput # None
  /\ \/ mMode = "IN_CALL" /\ Goto(t, "fmDelay") /\ UNCHANGED hw
     \/ /\ mMode # "IN_CALL"
        /\ \E ok \in OpenResults : hw' = OpenPcm(hw, ok)
        /\ Goto(t, "fmMixer")
  /\ UNCHANGED fm

FmOff(t) ==
  /\ BeginFm(t) /\ fmCalls % 2 = 1
  /\ IF hw.mMixer THEN hw' = CloseMixer(hw) /\ Goto(t, "fmOffPcm")
                  ELSE UNCHANGED hw /\ Goto(t, "fmOffFd")
  /\ UNCHANGED fm

\* In a call the radio waits for its end, which may have come by now.
FmStep(t) ==
  /\ \/ /\ pc[t] = "fmDelay"
        /\ fm' = [fm EXCEPT !.mFmResumeAfterCall = TRUE]
        /\ Goto(t, "idle") /\ UNCHANGED <<hw, path>>
     \/ /\ pc[t] = "fmMixer"
        /\ \E ok \in OpenResults : hw' = OpenMixer(hw, ok)
        /\ path' = Select("fm", hw', path)
        /\ Goto(t, "fmFd") /\ UNCHANGED fm
     \/ /\ pc[t] = "fmFd"
        /\ \E ok \in OpenResults : fm' = [fm EXCEPT !.mFmFd = @ \/ ok]
        /\ Goto(t, "idle") /\ UNCHANGED <<hw, path>>
     \/ /\ pc[t] = "fmOffPcm"
        /\ hw' = ClosePcm(hw)
        /\ Goto(t, "fmOffFd") /\ UNCHANGED <<path, fm>>
     \/ /\ pc[t] = "fmOffFd"
        /\ fm' = [fm EXCEPT !.mFmFd = FALSE]
        /\ Goto(t, "idle") /\ UNCHANGED <<hw, path>>
  /\ UNCHANGED <<mMode, mInCallAudioMode, regVars, lockVars, stream, wakeLocks,
                 side, sp, cnt, arg, callVars>>

-----------------------------------------------------------------------------

\* A call begins, when a client decides so.
Begins ==
  \/ \E t \in Controls, s \in Streams : Open(t, s) \/ Close(t, s)
  \/ \E t \in Controls, mode \in Modes : SetMode(t, mode)
  \/ \E t \in Controls : FmOn(t) \/ FmOff(t)
  \/ \E s \in Streams : BeginIo(s) \/ BeginStandby(s) \/ BeginRoute(s)

\* A thread inside the HAL advances.
LoopStep(t) ==
  \/ ChaseNone(t) \/ ChasePrepare(t) \/ LockStream(t) \/ RelockSelf(t)
  \/ RecheckFound(t) \/ RecheckLost(t)

ControlStep(t) ==
  \/ ModeHw(t) \/ CallStarts(t) \/ CallEnds(t) \/ ModeOnly(t)
  \/ FmStep(t)

DtorStep(t) == Drop(t) \/ DtorLock(t) \/ DtorHw(t)

DataStep(s) ==
  \/ LockSelf(s) \/ ExitStandby(s) \/ OpenPath(s) \/ Transfer(s)
  \/ StandbyHw(s) \/ Route(s) \/ InputSource(s)

Step(t) ==
  \/ LoopStep(t) \/ DtorStep(t)
  \/ t \in Controls /\ ControlStep(t)
  \/ t \in Streams /\ DataStep(t)

\* The clients have nothing more to ask: the only state the HAL may rest in.
ClientsDone == (\A t \in Threads : pc[t] = "idle") /\ UNCHANGED vars

Next == Begins \/ (\E t \in Threads : Step(t)) \/ ClientsDone

Spec == Init /\ [][Next]_vars

\* Every thread inside the HAL keeps running.
Fairness == \A t \in Threads : WF_vars(Step(t))
FairSpec == Spec /\ Fairness

-----------------------------------------------------------------------------
(* Properties.                                                             *)

TypeOK ==
  /\ mMode \in Modes /\ mInCallAudioMode \in BOOLEAN
  /\ hw \in HwState /\ path \in Paths
  /\ fm \in [mFmFd : BOOLEAN, mFmResumeAfterCall : BOOLEAN]
  /\ mOutput \in Outputs \cup {None} /\ mInputs \subseteq Inputs
  /\ mLock \in Threads \cup {None}
  /\ stream \in [Streams -> StreamState]
  /\ sLock \in [Streams -> Threads \cup {None}]
  /\ mSleepReq \in [Streams -> BOOLEAN]
  /\ wakeLocks \subseteq WakeLocks
  /\ pc \in [Threads -> PCs]
  /\ side \in [Threads -> Sides]
  /\ sp \in [Threads -> [out : Outputs \cup {None}, in : Inputs \cup {None}]]
  /\ cnt \in [Threads -> Nat]
  /\ arg \in [Threads -> Modes]
  /\ calls \in [Threads -> Nat] /\ fmCalls \in Nat

\* Thread t has been through the loop of side d and its answer stands.
Settled(t, d) ==
  \/ pc[t] \in {"apply", "open"}
  \/ d = "out" /\ t \in Controls /\ side[t] = "in"
       /\ pc[t] \in {"chase", "lock", "recheck"}

\* "spOut is not 0 here only if the output is active", "spIn is not 0 here
\* only if the input is active": the stream a path loop settles on is locked by
\* that thread and not in standby, whatever other threads did while mLock was
\* released, and stays so while setMode() looks for the input.
ClaimedActive ==
  \A t \in Threads, d \in Sides :
    Settled(t, d) /\ sp[t][d] # None =>
      sLock[sp[t][d]] = t /\ ~stream[sp[t][d]].mStandby

\* Why ClaimedActive holds, thread by thread.  A thread owns the hardware's
\* mutex while it looks at the hardware's state ...
OwnsHardware(t) == pc[t] \in {"chase", "apply", "open"} => mLock = t

\* ... a data thread owns its stream's, except that read() gives it up while it
\* waits for the output's ...
OwnsStream(t) ==
  /\ t \in Streams /\ pc[t] \in {"exitStandby", "transfer", "standbyHw", "routeHw",
                                "chase", "recheck", "open"} => sLock[t] = t
  /\ t \in Outputs /\ pc[t] = "lock" => sLock[t] = t

\* ... a thread that waits for another stream has one, of the other kind if it
\* is a data thread, and owns its mutex from then on ...
OwnsTarget(t) ==
  /\ pc[t] \in {"lock", "relock", "recheck", "dtorLock", "dtorHw"} => Target(t) # None
  /\ pc[t] \in {"relock", "recheck", "dtorHw"} => sLock[Target(t)] = t
  /\ pc[t] = "relock" => t \in Inputs
  /\ t \in Outputs => sp[t].out = None /\ (pc[t] = "chase" => side[t] = "in")
  /\ t \in Inputs => sp[t].in = None /\ (pc[t] = "chase" => side[t] = "out")

\* ... that stream was active when its standby counter was read, and still is if
\* the counter has not moved ...
Snapshot(t) ==
  /\ pc[t] = "chase" /\ Target(t) # None => ~stream[Target(t)].mStandby
  /\ pc[t] \in {"lock", "relock", "recheck"} =>
       /\ cnt[t] <= stream[Target(t)].mStandbyCnt
       /\ cnt[t] = stream[Target(t)].mStandbyCnt => ~stream[Target(t)].mStandby

\* ... and only a data thread takes its own stream out of standby, last of all.
LeavesStandby(t) ==
  t \in Streams /\ pc[t] \in {"exitStandby", "chase", "lock", "relock", "recheck", "open"}
    => stream[t].mStandby

\* ClaimedActive, for one thread.
HoldsClaimed(t) ==
  \A d \in Sides : Settled(t, d) /\ sp[t][d] # None =>
    sLock[sp[t][d]] = t /\ ~stream[sp[t][d]].mStandby

ThreadInv(t) ==
  /\ OwnsHardware(t) /\ OwnsStream(t) /\ OwnsTarget(t)
  /\ Snapshot(t) /\ LeavesStandby(t) /\ HoldsClaimed(t)

\* The inductive invariant behind ClaimedActive.
IInv == TypeOK /\ \A t \in Threads : ThreadInv(t)

\* The stream that write() or read() forces closed is still registered when the
\* path is opened, so that dropping the reference there destroys nothing.
PeerRegistered ==
  \A s \in Streams : pc[s] = "open" => \A x \in Claimed(s) : Registered(x)

\* Does thread t wait for the mutex of stream s?
WaitsFor(t, s) ==
  \/ pc[t] \in {"lock", "dtorLock"} /\ sp[t][side[t]] = s
  \/ pc[t] \in {"relock", "ioLock", "standbyLock", "routeLock"} /\ t = s

\* "Mutex acquisition order is always out -> in -> hw": nobody waits for a
\* stream's mutex with the hardware's held, nor for an output's with an input's.
LockOrder ==
  \A t \in Threads, s \in Streams :
    WaitsFor(t, s) =>
      /\ mLock # t
      /\ s \in Outputs => \A i \in Inputs : sLock[i] # t

\* closePcmOut_l() and closeMixer_l() log an error when the count is zero: it
\* is not meant to happen.
NoCloseTooMany == ~hw.unmatched

Count(S) == Cardinality(S)

\* Holders of a reference on the PCM and on the mixer, the FM radio not used
\* and every open successful: the streams that hold a handle, and the call.
PcmHolders   == Count({s \in Outputs : stream[s].mPcm})
                  + (IF mInCallAudioMode THEN 1 ELSE 0)
MixerHolders == Count({s \in Streams : stream[s].mMixer})
                  + (IF mInCallAudioMode THEN 1 ELSE 0)

\* The counters count the holders, a device is open exactly while it has one,
\* and no close is one too many: closing a stream under a call, or ending a
\* call under an active stream, takes nobody's reference away.
CountsMatch ==
  /\ hw.mPcmOpenCnt = PcmHolders /\ hw.mPcm = (PcmHolders > 0)
  /\ hw.mMixerOpenCnt = MixerHolders /\ hw.mMixer = (MixerHolders > 0)
  /\ NoCloseTooMany

\* pcm_write() and pcm_read(), which run without mLock, get an open handle.
TransferOnOpenHandle ==
  \A s \in Streams : pc[s] = "transfer" => HandleOpen(s)

\* A wake lock is held while a stream of its kind is active, and otherwise only
\* while a thread is taking that stream out of standby.
WakeLockHeld ==
  /\ \A s \in Streams : ~stream[s].mStandby => WakeLock(s) \in wakeLocks
  /\ \A w \in wakeLocks : \E s \in Streams :
       /\ w = WakeLock(s)
       /\ \/ ~stream[s].mStandby
          \/ pc[s] \in {"chase", "lock", "relock", "recheck", "open", "dtorLock", "dtorHw"}

\* "... reconfigure the audio path which is the only condition when mSleepReq
\* would be true": a data thread is asked to sleep only while another thread
\* waits for its mutex.
SleepRequested ==
  \A s \in Streams : mSleepReq[s] =>
    \E t \in Threads \ {s} : pc[t] = "lock" /\ Target(t) = s

\* No stream changes the path of a call: once the voice path is selected, it
\* stays until the call ends, whatever is opened, closed or put in standby.
CallPathKept ==
  [][mMode = "IN_CALL" /\ mMode' = "IN_CALL" /\ path = "voice"
       => path' = "voice"]_vars

\* "Call is active.  Delaying FM enable": the FM path is not selected in a call.
FmDelayed == [][mMode = "IN_CALL" /\ mMode' = "IN_CALL" /\ path # "fm"
                  => path' # "fm"]_vars

\* A delayed radio waits for a call that is still under way: the setMode() that
\* ends the call resumes it, whatever the opens answer.  It takes setMode() and
\* radio calls that come one at a time: enableFMRadio() sets the flag some time
\* after it has looked at the mode, with no mutex.
FmNotForgotten == fm.mFmResumeAfterCall => mMode = "IN_CALL"

\* Every call into the HAL returns, once the clients stop making new ones.
CallsReturn == \A t \in Threads : pc[t] # "idle" ~> pc[t] = "idle"
=============================================================================
