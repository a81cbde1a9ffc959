------------------------ MODULE AudioHardwareProofs ------------------------
(***************************************************************************)
(* Proofs about the audio HAL, for any number of streams and of control    *)
(* threads, any results of the driver's opens and any number of calls:     *)
(* type correctness, ClaimedActive, PeerRegistered, and LockOrder for      *)
(* clients that close a stream only while no other call is under way.      *)
(***************************************************************************)
EXTENDS AudioHardware, TLAPS

-----------------------------------------------------------------------------
(* What the operators on the reference counters and on streams return.     *)

\* openPcmOut_l() keeps the type of the counters, and answers a handle or NULL.
LEMMA OpenPcmType ==
  ASSUME NEW h \in HwState, NEW ok \in BOOLEAN
  PROVE  OpenPcm(h, ok) \in HwState /\ PcmHandle(h, ok) \in BOOLEAN
<1>1. CASE h.mPcmOpenCnt > 0
  BY <1>1 DEF HwState, OpenPcm, PcmHandle
<1>2. CASE ~(h.mPcmOpenCnt > 0) /\ ok /\ ~h.mPcm
  BY <1>2 DEF HwState, OpenPcm, PcmHandle
<1>3. CASE ~(h.mPcmOpenCnt > 0) /\ ~(ok /\ ~h.mPcm)
  BY <1>3 DEF HwState, OpenPcm, PcmHandle
<1> QED
  BY <1>1, <1>2, <1>3

\* openMixer_l(), likewise.
LEMMA OpenMixerType ==
  ASSUME NEW h \in HwState, NEW ok \in BOOLEAN
  PROVE  OpenMixer(h, ok) \in HwState /\ MixerHandle(h, ok) \in BOOLEAN
<1>1. CASE h.mMixerOpenCnt > 0
  BY <1>1 DEF HwState, OpenMixer, MixerHandle
<1>2. CASE ~(h.mMixerOpenCnt > 0) /\ ok /\ ~h.mMixer
  BY <1>2 DEF HwState, OpenMixer, MixerHandle
<1>3. CASE ~(h.mMixerOpenCnt > 0) /\ ~(ok /\ ~h.mMixer)
  BY <1>3 DEF HwState, OpenMixer, MixerHandle
<1> QED
  BY <1>1, <1>2, <1>3

\* closePcmOut_l() never takes the counter below zero.
LEMMA ClosePcmType ==
  ASSUME NEW h \in HwState
  PROVE  ClosePcm(h) \in HwState
<1>1. CASE h.mPcmOpenCnt = 0
  BY <1>1 DEF HwState, ClosePcm
<1>2. CASE h.mPcmOpenCnt # 0
  <2> DEFINE n == h.mPcmOpenCnt - 1
             b == h.mPcm /\ h.mPcmOpenCnt > 1
  <2>1. n \in Nat /\ b \in BOOLEAN
    BY <1>2 DEF HwState
  <2>2. ClosePcm(h) = [h EXCEPT !.mPcmOpenCnt = n, !.mPcm = b]
    BY <1>2 DEF ClosePcm
  <2> HIDE DEF n, b
  <2> QED
    BY <2>1, <2>2 DEF HwState
<1> QED
  BY <1>1, <1>2

\* closeMixer_l(), likewise.
LEMMA CloseMixerType ==
  ASSUME NEW h \in HwState
  PROVE  CloseMixer(h) \in HwState
<1>1. CASE h.mMixerOpenCnt = 0
  BY <1>1 DEF HwState, CloseMixer
<1>2. CASE h.mMixerOpenCnt # 0
  <2> DEFINE n == h.mMixerOpenCnt - 1
             b == h.mMixer /\ h.mMixerOpenCnt > 1
  <2>1. n \in Nat /\ b \in BOOLEAN
    BY <1>2 DEF HwState
  <2>2. CloseMixer(h) = [h EXCEPT !.mMixerOpenCnt = n, !.mMixer = b]
    BY <1>2 DEF CloseMixer
  <2> HIDE DEF n, b
  <2> QED
    BY <2>1, <2>2 DEF HwState
<1> QED
  BY <1>1, <1>2

\* close_l() of a stream keeps the type of the counters.
LEMMA CloseStreamType ==
  ASSUME NEW s, NEW h \in HwState
  PROVE  CloseStream(s, h) \in HwState
<1>1. CloseMixer(h) \in HwState
  BY CloseMixerType
<1> DEFINE m == IF stream[s].mMixer THEN CloseMixer(h) ELSE h
<1>2. m \in HwState
  BY <1>1
<1>3. ClosePcm(m) \in HwState
  BY <1>2, ClosePcmType
<1> QED
  BY <1>2, <1>3 DEF CloseStream

\* So does closing what a strong reference, maybe null, refers to.
LEMMA CloseRefType ==
  ASSUME NEW s, NEW h \in HwState
  PROVE  CloseRef(s, h) \in HwState
BY CloseStreamType DEF CloseRef

\* open_l() keeps the type of the counters and of the stream.
LEMMA OpenStreamType ==
  ASSUME NEW s \in Streams, NEW h \in HwState, NEW okPcm \in BOOLEAN, NEW okMixer \in BOOLEAN,
         stream \in [Streams -> StreamState]
  PROVE  /\ OpenStream(s, h, okPcm, okMixer) \in HwState
         /\ Opened(s, h, okPcm, okMixer) \in StreamState
<1> DEFINE p == IF s \in Outputs THEN OpenPcm(h, okPcm) ELSE h
           got == IF s \in Outputs THEN PcmHandle(h, okPcm) ELSE okPcm
<1>1. p \in HwState /\ got \in BOOLEAN
  BY OpenPcmType
<1>2. OpenMixer(p, okMixer) \in HwState /\ MixerHandle(p, okMixer) \in BOOLEAN
  BY <1>1, OpenMixerType
<1>3. OpenStream(s, h, okPcm, okMixer) = IF got THEN OpenMixer(p, okMixer) ELSE p
  BY DEF OpenStream
<1>4. Opened(s, h, okPcm, okMixer)
        = [stream[s] EXCEPT !.mPcm = got, !.mMixer = got /\ MixerHandle(p, okMixer)]
  BY DEF Opened
<1>5. OpenStream(s, h, okPcm, okMixer) \in HwState
  BY <1>1, <1>2, <1>3
<1> DEFINE b == got /\ MixerHandle(p, okMixer)
<1>6. b \in BOOLEAN /\ stream[s] \in StreamState
  OBVIOUS
<1> HIDE DEF p, got, b
<1>7. Opened(s, h, okPcm, okMixer) = [stream[s] EXCEPT !.mPcm = got, !.mMixer = b]
  BY <1>4 DEF b
<1>8. Opened(s, h, okPcm, okMixer) \in StreamState
  BY <1>1, <1>6, <1>7 DEF StreamState
<1> QED
  BY <1>5, <1>8

\* doStandby_l() of any streams keeps their type.
LEMMA StandbyAllType ==
  ASSUME stream \in [Streams -> StreamState], NEW S
  PROVE  StandbyAll(S) \in [Streams -> StreamState]
BY DEF InStandby, StandbyAll, StreamState

\* getActiveInput_l() and output() answer a stream of their kind, or null.
LEMMA ActiveType ==
  ASSUME TypeOK
  PROVE  /\ ActiveInput \in Inputs \cup {None}
         /\ ActiveOutput \in Outputs \cup {None}
BY DEF TypeOK, ActiveInput, ActiveOutput

-----------------------------------------------------------------------------
(* Type correctness.                                                       *)

\* The state the constructor leaves is of the right type.
LEMMA TypeInit == Init => TypeOK
<1> SUFFICES ASSUME Init PROVE TypeOK
  OBVIOUS
<1> USE DEF Init
<1>1. hw \in HwState
  BY DEF HwState
<1>2. stream \in [Streams -> StreamState]
  BY DEF NewStream, StreamState
<1>3. sp \in [Threads -> [out : Outputs \cup {None}, in : Inputs \cup {None}]]
  BY DEF NoRefs
<1>4. fm \in [mFmFd : BOOLEAN, mFmResumeAfterCall : BOOLEAN]
  OBVIOUS
<1> QED
  BY <1>1, <1>2, <1>3, <1>4 DEF TypeOK, Modes, Paths, Sides, PCs

\* The FM radio's fields.
FmState == [mFmFd : BOOLEAN, mFmResumeAfterCall : BOOLEAN]

\* setOutputRoute() selects a path.
LEMMA SelectType ==
  ASSUME NEW route \in Paths, NEW old \in Paths, NEW h
  PROVE  Select(route, h, old) \in Paths
BY DEF Select

\* The delayed enableFMRadio() at the end of setMode() keeps the types.
LEMMA ResumeFmType ==
  ASSUME TypeOK, NEW h \in HwState, NEW p \in Paths, ResumeFm(h, p)
  PROVE  hw' \in HwState /\ path' \in Paths /\ fm' \in FmState
<1>1. CASE fm.mFmResumeAfterCall
  <2>1. PICK okPcm \in OpenResults, okMixer \in OpenResults, okFd \in OpenResults :
          /\ hw' = OpenMixer(OpenPcm(h, okPcm), okMixer)
          /\ path' = Select("fm", hw', p)
          /\ fm' = [mFmFd |-> fm.mFmFd \/ okFd, mFmResumeAfterCall |-> FALSE]
    BY <1>1 DEF ResumeFm
  <2>2. OpenPcm(h, okPcm) \in HwState /\ okMixer \in BOOLEAN
    BY OpenPcmType, BoundsAssumption
  <2>3. hw' \in HwState
    BY <2>1, <2>2, OpenMixerType
  <2>4. path' \in Paths
    BY <2>1, SelectType DEF Paths
  <2>5. fm' \in FmState
    BY <2>1 DEF FmState
  <2> QED
    BY <2>3, <2>4, <2>5
<1>2. CASE ~fm.mFmResumeAfterCall
  BY <1>2 DEF ResumeFm, TypeOK, FmState
<1> QED
  BY <1>1, <1>2

\* What setMode() closes is a stream or a null pointer.
LEMMA CloseBothType ==
  ASSUME TypeOK, NEW t \in Threads, NEW h \in HwState
  PROVE  CloseRef(sp[t].in, CloseRef(sp[t].out, h)) \in HwState
BY CloseRefType

\* The variables setMode() sets when it changes the mode, and all the others.
LEMMA EndModeType ==
  ASSUME TypeOK, NEW t \in Threads, EndMode(t),
         mMode' \in Modes, mInCallAudioMode' \in BOOLEAN,
         hw' \in HwState, path' \in Paths, fm' \in FmState,
         stream' \in [Streams -> StreamState], wakeLocks' \subseteq WakeLocks
  PROVE  TypeOK'
BY DEF EndMode, Goto, TypeOK, regVars, callVars, PCs, FmState

\* What is true of the strong references when one of them is set.
LEMMA RefType ==
  ASSUME TypeOK, NEW t \in Threads, NEW d \in Sides,
         NEW x \in (IF d = "out" THEN Outputs ELSE Inputs) \cup {None}
  PROVE  [sp EXCEPT ![t][d] = x]
           \in [Threads -> [out : Outputs \cup {None}, in : Inputs \cup {None}]]
<1>1. CASE d = "out"
  BY <1>1 DEF TypeOK
<1>2. CASE d = "in"
  BY <1>2 DEF TypeOK
<1> QED
  BY <1>1, <1>2 DEF Sides

\* So does whichever of the two a path loop asks.
LEMMA CurrentType ==
  ASSUME TypeOK, NEW d \in Sides
  PROVE  Current(d) \in (IF d = "out" THEN Outputs ELSE Inputs) \cup {None}
BY ActiveType DEF Current

\* A call that begins keeps the types.
LEMMA TypeBegins == TypeOK /\ Begins => TypeOK'
<1> SUFFICES ASSUME TypeOK, Begins PROVE TypeOK'
  OBVIOUS
<1> USE DEF TypeOK, devVars, regVars, lockVars, threadVars, callVars, Goto
<1>1. ASSUME NEW t \in Controls, NEW s \in Streams, Open(t, s) PROVE TypeOK'
  BY <1>1 DEF Open, NewStream, StreamState
<1>2. ASSUME NEW t \in Controls, NEW s \in Streams, Close(t, s) PROVE TypeOK'
  <2>1. t \in Threads
    BY DEF Threads
  <2>2. sp' \in [Threads -> [out : Outputs \cup {None}, in : Inputs \cup {None}]]
    BY <1>2, <2>1, RefType DEF Close, Sides, Streams
  <2> QED
    BY <1>2, <2>1, <2>2 DEF Close, PCs
<1>3. ASSUME NEW t \in Controls, NEW mode \in Modes, SetMode(t, mode) PROVE TypeOK'
  BY <1>3 DEF SetMode, PCs, Threads
<1>4. ASSUME NEW t \in Controls, FmOn(t) PROVE TypeOK'
  <2>1. hw' \in HwState
    BY <1>4, OpenPcmType, BoundsAssumption DEF FmOn
  <2>2. fm' \in [mFmFd : BOOLEAN, mFmResumeAfterCall : BOOLEAN]
    BY <1>4 DEF FmOn
  <2>3. pc' \in [Threads -> PCs]
    BY <1>4 DEF FmOn, PCs
  <2> QED
    BY <1>4, <2>1, <2>2, <2>3 DEF FmOn, BeginFm
<1>5. ASSUME NEW t \in Controls, FmOff(t) PROVE TypeOK'
  <2>1. hw' \in HwState
    BY <1>5, CloseMixerType DEF FmOff
  <2>2. pc' \in [Threads -> PCs]
    BY <1>5 DEF FmOff, PCs
  <2> QED
    BY <1>5, <2>1, <2>2 DEF FmOff, BeginFm
<1>6. ASSUME NEW s \in Streams, BeginIo(s) \/ BeginStandby(s) \/ BeginRoute(s)
      PROVE  TypeOK'
  <2>1. pc' \in [Threads -> PCs]
    BY <1>6 DEF BeginIo, BeginStandby, BeginRoute, Begin, PCs
  <2>2. calls' \in [Threads -> Nat]
    BY <1>6 DEF BeginIo, BeginStandby, BeginRoute, Begin
  <2> QED
    BY <1>6, <2>1, <2>2 DEF BeginIo, BeginStandby, BeginRoute, Begin
<1> QED
  BY <1>1, <1>2, <1>3, <1>4, <1>5, <1>6 DEF Begins

\* The path loops keep the types.
LEMMA TypeLoop ==
  ASSUME TypeOK, NEW t \in Threads, LoopStep(t)
  PROVE  TypeOK'
<1> USE DEF TypeOK, devVars, regVars, lockVars, callVars, Goto
<1>1. ASSUME EndLoop(t)
      PROVE  /\ side' \in [Threads -> Sides] /\ pc' \in [Threads -> PCs]
             /\ sp' \in [Threads -> [out : Outputs \cup {None}, in : Inputs \cup {None}]]
  <2>1. CASE t \in Controls /\ side[t] = "out"
    <3>1. side' \in [Threads -> Sides] /\ pc' \in [Threads -> PCs]
      BY <1>1, <2>1 DEF EndLoop, Sides, PCs
    <3>2. sp' = [sp EXCEPT ![t]["in"] = ActiveInput]
      BY <1>1, <2>1 DEF EndLoop
    <3>3. sp' \in [Threads -> [out : Outputs \cup {None}, in : Inputs \cup {None}]]
      BY <3>2, RefType, ActiveType DEF Sides
    <3> QED
      BY <3>1, <3>3
  <2>2. CASE ~(t \in Controls /\ side[t] = "out")
    BY <1>1, <2>2 DEF EndLoop, PCs
  <2> QED
    BY <2>1, <2>2
<1>2. CASE ChaseNone(t)
  BY <1>1, <1>2 DEF ChaseNone
<1>3. CASE ChasePrepare(t)
  <2>1. Target(t) \in Streams
    BY <1>3 DEF ChasePrepare, Target, Sides, Streams
  <2>2. cnt' \in [Threads -> Nat]
    BY <1>3, <2>1 DEF ChasePrepare, StreamState
  <2>3. sLock' \in [Streams -> Threads \cup {None}] /\ mSleepReq' \in [Streams -> BOOLEAN]
    BY <1>3 DEF ChasePrepare
  <2> QED
    BY <1>3, <2>2, <2>3 DEF ChasePrepare, PCs
<1>4. CASE LockStream(t)
  BY <1>4 DEF LockStream, Take, PCs
<1>5. CASE RelockSelf(t)
  BY <1>5 DEF RelockSelf, Take, PCs
<1>6. CASE RecheckFound(t)
  BY <1>1, <1>6 DEF RecheckFound
<1>7. CASE RecheckLost(t)
  <2>1. sp' \in [Threads -> [out : Outputs \cup {None}, in : Inputs \cup {None}]]
    <3>1. side[t] \in Sides
      OBVIOUS
    <3>2. [sp EXCEPT ![t][side[t]] = Current(side[t])]
            \in [Threads -> [out : Outputs \cup {None}, in : Inputs \cup {None}]]
      BY <3>1, RefType, CurrentType
    <3>3. sp' = sp \/ sp' = [sp EXCEPT ![t][side[t]] = Current(side[t])]
      BY <1>7 DEF RecheckLost
    <3> QED
      BY <3>2, <3>3
  <2>2. pc' \in [Threads -> PCs]
    BY <1>7 DEF RecheckLost, PCs
  <2> QED
    BY <1>7, <2>1, <2>2 DEF RecheckLost
<1> QED
  BY <1>2, <1>3, <1>4, <1>5, <1>6, <1>7 DEF LoopStep

\* The end of a closed stream keeps the types.
LEMMA TypeDtor ==
  ASSUME TypeOK, NEW t \in Threads, DtorStep(t)
  PROVE  TypeOK'
<1> USE DEF TypeOK, devVars, regVars, lockVars, callVars, Goto
<1>1. CASE Drop(t)
  <2>1. CASE ForgetLocals(t) /\ Goto(t, "idle")
    BY <1>1, <2>1 DEF Drop, ForgetLocals, NoRefs, Sides, Modes, PCs
  <2>2. CASE Goto(t, "dtorLock") /\ UNCHANGED <<sp, cnt, arg>>
                 /\ \E d \in Sides : side' = [side EXCEPT ![t] = d]
    BY <1>1, <2>2 DEF Drop, PCs
  <2> QED
    BY <1>1, <2>1, <2>2 DEF Drop
<1>2. CASE DtorLock(t)
  BY <1>2 DEF DtorLock, Take, PCs
<1>3. CASE DtorHw(t)
  <2>1. sp' \in [Threads -> [out : Outputs \cup {None}, in : Inputs \cup {None}]]
    BY <1>3, RefType DEF DtorHw
  <2>2. stream' \in [Streams -> StreamState]
    BY <1>3, StandbyAllType DEF DtorHw
  <2>3. hw' \in HwState
    BY <1>3, CloseStreamType DEF DtorHw
  <2>4. path' \in Paths /\ sLock' \in [Streams -> Threads \cup {None}] /\ wakeLocks' \subseteq WakeLocks
    BY <1>3 DEF DtorHw, PathAfterClose, Paths
  <2> QED
    BY <1>3, <2>1, <2>2, <2>3, <2>4 DEF DtorHw, PCs
<1> QED
  BY <1>1, <1>2, <1>3 DEF DtorStep

\* setMode() and the FM radio calls keep the types.
LEMMA TypeControl ==
  ASSUME TypeOK, NEW t \in Controls, ControlStep(t)
  PROVE  TypeOK'
<1>0. t \in Threads
  BY DEF Threads
<1>1. CASE ModeHw(t)
  <2>1. sp' \in [Threads -> [out : Outputs \cup {None}, in : Inputs \cup {None}]]
    <3>1. sp' = [sp EXCEPT ![t]["out"] = ActiveOutput]
      BY <1>1 DEF ModeHw
    <3> QED
      BY <1>0, <3>1, RefType, ActiveType DEF Sides
  <2> QED
    BY <1>0, <1>1, <2>1 DEF ModeHw, TypeOK, devVars, regVars, callVars, Goto, Sides, PCs
<1>2. CASE CallStarts(t)
  <2>1. PICK okPcm \in OpenResults, okMixer \in OpenResults :
          hw' = OpenMixer(OpenPcm(CloseRef(sp[t].in, CloseRef(sp[t].out, hw)), okPcm), okMixer)
    BY <1>2 DEF CallStarts
  <2>2. CloseRef(sp[t].in, CloseRef(sp[t].out, hw)) \in HwState
    BY <1>0, CloseBothType DEF TypeOK
  <2>3. hw' \in HwState
    BY <2>1, <2>2, OpenPcmType, OpenMixerType, BoundsAssumption
  <2>4. stream' \in [Streams -> StreamState]
    BY <1>2, StandbyAllType DEF CallStarts, TypeOK
  <2>5. mMode' \in Modes /\ mInCallAudioMode' \in BOOLEAN /\ wakeLocks' \subseteq WakeLocks
    BY <1>2 DEF CallStarts, TypeOK, Modes
  <2>6. path' \in Paths /\ fm' \in FmState /\ EndMode(t)
    BY <1>2 DEF CallStarts, TypeOK, FmState
  <2> QED
    BY <1>0, <2>3, <2>4, <2>5, <2>6, EndModeType
<1>3. CASE CallEnds(t)
  <2> DEFINE h == CloseRef(sp[t].in, CloseRef(sp[t].out, ClosePcm(CloseMixer(hw))))
             p == IF \E s \in Claimed(t) \cap Outputs : stream[s].mMixer
                  THEN "off" ELSE Select("playback", hw, path)
  <2>1. h \in HwState
    BY <1>0, CloseBothType, ClosePcmType, CloseMixerType DEF TypeOK
  <2>2. p \in Paths
    BY DEF Select, TypeOK, Paths
  <2>3. ResumeFm(h, p)
    BY <1>3 DEF CallEnds
  <2> HIDE DEF h, p
  <2>4. hw' \in HwState /\ path' \in Paths /\ fm' \in FmState
    BY <2>1, <2>2, <2>3, ResumeFmType
  <2>5. stream' \in [Streams -> StreamState]
    BY <1>3, StandbyAllType DEF CallEnds, TypeOK
  <2>6. mMode' \in Modes /\ mInCallAudioMode' \in BOOLEAN /\ wakeLocks' \subseteq WakeLocks
    BY <1>0, <1>3 DEF CallEnds, TypeOK
  <2>7. EndMode(t)
    BY <1>3 DEF CallEnds
  <2> QED
    BY <1>0, <2>4, <2>5, <2>6, <2>7, EndModeType
<1>4. CASE ModeOnly(t)
  <2>1. hw' \in HwState /\ path' \in Paths /\ fm' \in FmState
    BY <1>4, ResumeFmType DEF ModeOnly, TypeOK, FmState
  <2>2. mMode' \in Modes /\ mInCallAudioMode' \in BOOLEAN /\ wakeLocks' \subseteq WakeLocks
        /\ stream' \in [Streams -> StreamState]
    BY <1>0, <1>4 DEF ModeOnly, TypeOK
  <2>3. EndMode(t)
    BY <1>4 DEF ModeOnly
  <2> QED
    BY <1>0, <2>1, <2>2, <2>3, EndModeType
<1>5. CASE FmStep(t)
  <2>1. hw' \in HwState
    BY <1>5, OpenMixerType, ClosePcmType, BoundsAssumption DEF FmStep, TypeOK
  <2>2. path' \in Paths
    BY <1>5, SelectType DEF FmStep, TypeOK, Paths
  <2>3. fm' \in FmState
    BY <1>5 DEF FmStep, TypeOK, FmState
  <2>4. pc' \in [Threads -> PCs]
    BY <1>5 DEF FmStep, TypeOK, Goto, PCs
  <2> QED
    BY <1>5, <2>1, <2>2, <2>3, <2>4 DEF FmStep, TypeOK, FmState, regVars, lockVars, callVars
<1> QED
  BY <1>1, <1>2, <1>3, <1>4, <1>5 DEF ControlStep

\* standby() keeps the types.
LEMMA TypeStandbyStep ==
  ASSUME TypeOK, NEW s \in Streams, NEW S, StandbyStep(s, S), path' \in Paths
  PROVE  TypeOK'
<1>1. stream' \in [Streams -> StreamState]
  BY StandbyAllType DEF StandbyStep, TypeOK
<1>2. hw' \in HwState
  BY CloseStreamType DEF StandbyStep, TypeOK
<1>3. wakeLocks' \subseteq WakeLocks
  BY DEF StandbyStep, TypeOK
<1> QED
  BY <1>1, <1>2, <1>3 DEF StandbyStep, TypeOK, Goto, regVars, callVars, PCs

\* The steps of opening a path keep the types.
LEMMA PathHwType ==
  ASSUME TypeOK, NEW s \in Streams, NEW ok \in [Opens -> OpenResults]
  PROVE  /\ OutOpened(s, ok) \in HwState /\ InOpened(s, ok) \in HwState
         /\ \A x \in Streams : Reopened(s, x, ok) \in StreamState
<1>1. PeerClosed(s) \in HwState
  BY CloseRefType DEF PeerClosed, TypeOK
<1>2. \A d \in Opens : ok[d] \in BOOLEAN
  BY BoundsAssumption
<1>3. ok["pcm"] \in BOOLEAN /\ ok["mixer"] \in BOOLEAN
      /\ ok["capturePcm"] \in BOOLEAN /\ ok["captureMixer"] \in BOOLEAN
  BY <1>2 DEF Opens
<1>4. /\ PathOut(s) \in Streams \cup {None} /\ PathIn(s) \in Streams \cup {None}
      /\ stream \in [Streams -> StreamState]
  BY DEF PathOut, PathIn, TypeOK, Streams, Threads
<1>5. OutOpened(s, ok) \in HwState
  BY <1>1, <1>3, <1>4, OpenStreamType DEF OutOpened
<1>6. InOpened(s, ok) \in HwState
  BY <1>3, <1>4, <1>5, OpenStreamType DEF InOpened
<1>7. ASSUME NEW x \in Streams PROVE Reopened(s, x, ok) \in StreamState
  BY <1>1, <1>3, <1>4, <1>5, OpenStreamType DEF Reopened
<1> QED
  BY <1>5, <1>6, <1>7

\* Opening a path keeps the types.
LEMMA TypeOpenPath ==
  ASSUME TypeOK, NEW s \in Streams, OpenPath(s)
  PROVE  TypeOK'
<1>1. PICK ok \in [Opens -> OpenResults] :
        /\ hw' = InOpened(s, ok)
        /\ stream' = [x \in Streams |->
             IF x = s THEN [Reopened(s, s, ok) EXCEPT !.mStandby = ~Reopened(s, s, ok).mPcm]
             ELSE IF x \in FailedPeers(s, ok) THEN InStandby(x)
             ELSE IF x \in Claimed(s) THEN Reopened(s, x, ok)
             ELSE stream[x]]
        /\ wakeLocks' \subseteq wakeLocks
        /\ path' \in {"off", path, "playback"}
        /\ sLock' = [x \in Streams |->
             IF x \in Claimed(s) \/ (x = s /\ ~Reopened(s, s, ok).mPcm) THEN None ELSE sLock[x]]
        /\ Goto(s, IF Reopened(s, s, ok).mPcm THEN "transfer" ELSE "standbyLock")
  BY DEF OpenPath, PathAfterClose, Select
<1>2. hw' \in HwState /\ \A x \in Streams : Reopened(s, x, ok) \in StreamState
  BY <1>1, PathHwType
<1>3. stream' \in [Streams -> StreamState]
  <2>1. stream \in [Streams -> StreamState]
    BY DEF TypeOK
  <2>2. \A x \in Streams : InStandby(x) \in StreamState
    BY <2>1 DEF InStandby, StreamState
  <2>3. [Reopened(s, s, ok) EXCEPT !.mStandby = ~Reopened(s, s, ok).mPcm] \in StreamState
    BY <1>2 DEF StreamState
  <2> QED
    BY <1>1, <1>2, <2>1, <2>2, <2>3
<1>4. sLock' \in [Streams -> Threads \cup {None}] /\ path' \in Paths
  BY <1>1 DEF TypeOK, Paths
<1>5. pc' \in [Threads -> PCs] /\ wakeLocks' \subseteq WakeLocks
  BY <1>1 DEF TypeOK, Goto, PCs
<1>6. /\ sp' \in [Threads -> [out : Outputs \cup {None}, in : Inputs \cup {None}]]
      /\ side' \in [Threads -> Sides] /\ cnt' \in [Threads -> Nat] /\ arg' \in [Threads -> Modes]
  BY DEF OpenPath, ForgetLocals, NoRefs, TypeOK, Sides, Modes
<1> QED
  BY <1>2, <1>3, <1>4, <1>5, <1>6 DEF OpenPath, TypeOK, regVars, callVars

\* write(), read(), standby() and setParameters() keep the types.
LEMMA TypeData ==
  ASSUME TypeOK, NEW s \in Streams, DataStep(s)
  PROVE  TypeOK'
<1> USE DEF TypeOK, devVars, regVars, callVars, Goto, PCs
<1>0. s \in Threads
  BY DEF Threads
<1>1. CASE LockSelf(s)
  BY <1>0, <1>1 DEF LockSelf, Take
<1>2. CASE ExitStandby(s)
  <2> DEFINE d == IF s \in Outputs THEN "in" ELSE "out"
  <2>1. sp' = [sp EXCEPT ![s][d] = Current(d)] /\ side' = [side EXCEPT ![s] = d]
    BY <1>2 DEF ExitStandby
  <2>2. d \in Sides
    BY DEF Sides
  <2> HIDE DEF d
  <2>3. sp' \in [Threads -> [out : Outputs \cup {None}, in : Inputs \cup {None}]]
    <3>1. Current(d) \in (IF d = "out" THEN Outputs ELSE Inputs) \cup {None}
      BY <2>2, CurrentType
    <3> QED
      BY <1>0, <2>1, <2>2, <3>1, RefType
  <2>4. wakeLocks' \subseteq WakeLocks
    BY <1>2 DEF ExitStandby, WakeLock, WakeLocks
  <2> QED
    BY <1>0, <1>2, <2>1, <2>2, <2>3, <2>4 DEF ExitStandby
<1>3. CASE OpenPath(s)
  BY <1>3, TypeOpenPath
<1>4. CASE Transfer(s)
  BY <1>4 DEF Transfer
<1>5. CASE StandbyHw(s)
  BY <1>5, TypeStandbyStep DEF StandbyHw, PathAfterClose, Paths
<1>6. CASE Route(s)
  <2>1. PICK S \in (IF mMode = "IN_CALL" THEN {{}} ELSE {{}, {s}}) :
          /\ StandbyStep(s, S)
          /\ path' = IF mMode = "IN_CALL" /\ s \in Outputs
                     THEN Select("voice", hw, path) ELSE PathAfterClose(S, mMode)
    BY <1>6 DEF Route
  <2>2. path' \in Paths
    BY <2>1 DEF PathAfterClose, Select, Paths
  <2> QED
    BY <2>1, <2>2, TypeStandbyStep
<1>7. CASE InputSource(s)
  <2>1. hw' \in HwState
    BY <1>7, OpenMixerType, CloseMixerType, BoundsAssumption DEF InputSource
  <2> QED
    BY <1>0, <1>7, <2>1 DEF InputSource
<1> QED
  BY <1>1, <1>2, <1>3, <1>4, <1>5, <1>6, <1>7 DEF DataStep

\* Every step keeps the types.
LEMMA TypeStep == TypeOK /\ [Next]_vars => TypeOK'
<1>1. ASSUME TypeOK, NEW t \in Threads, Step(t) PROVE TypeOK'
  BY <1>1, TypeLoop, TypeDtor, TypeControl, TypeData DEF Step
<1>2. ASSUME TypeOK, UNCHANGED vars PROVE TypeOK'
  BY <1>2 DEF vars, TypeOK, devVars, regVars, lockVars, threadVars, callVars
<1> QED
  BY <1>1, <1>2, TypeBegins DEF Next, ClientsDone

\* TypeOK, in every state of every behaviour of the HAL: no counter of open PCMs
\* and mixers goes below zero, references stay of their kind.
THEOREM TypeCorrect == Spec => []TypeOK
BY TypeInit, TypeStep, PTL DEF Spec

-----------------------------------------------------------------------------
(* ClaimedActive, by rely and guarantee: Frame(t) is what a step of thread  *)
(* t guarantees to the others, and what ThreadInv of the others relies on.  *)

\* What a step of t does to the locks, to the streams and to other threads.
Frame(t) ==
  /\ \A u \in Threads \ {t} :
       pc'[u] = pc[u] /\ side'[u] = side[u] /\ sp'[u] = sp[u] /\ cnt'[u] = cnt[u]
  /\ mLock' # mLock => mLock \in {None, t} /\ mLock' \in {None, t}
  /\ \A s \in Streams : sLock'[s] # sLock[s] => sLock[s] \in {None, t} /\ sLock'[s] \in {None, t}
  /\ \A s \in Streams : stream'[s] # stream[s] =>
       /\ mLock \in {None, t}
       /\ stream[s].mStandby /\ ~stream'[s].mStandby => s = t
       /\ ~Referenced(s) \/
            /\ sLock[s] = t
            /\ stream'[s].mStandbyCnt >= stream[s].mStandbyCnt
            /\ ~stream[s].mStandby /\ stream'[s].mStandby
                 => stream'[s].mStandbyCnt > stream[s].mStandbyCnt

\* What a thread refers to is a stream of the right kind, or null.
LEMMA TargetType ==
  ASSUME TypeOK, NEW t \in Threads
  PROVE  /\ \A d \in Sides : sp[t][d] \in Streams \cup {None}
         /\ Target(t) \in Streams \cup {None}
         /\ side[t] \in Sides /\ t # None /\ None \notin Streams
         /\ sp[t].out \in Outputs \cup {None} /\ sp[t].in \in Inputs \cup {None}
BY ThreadsAssumption DEF TypeOK, Target, Sides, Streams, Threads

\* A step of t leaves what another thread u relies on.
LEMMA Interference ==
  ASSUME TypeOK, TypeOK', NEW t \in Threads, NEW u \in Threads \ {t}, ThreadInv(u), Frame(t)
  PROVE  ThreadInv(u)'
<1>1. /\ pc'[u] = pc[u] /\ side'[u] = side[u] /\ sp'[u] = sp[u] /\ cnt'[u] = cnt[u]
      /\ Target(u)' = Target(u)
      /\ \A d \in Sides : Settled(u, d)' = Settled(u, d)
  BY DEF Frame, Target, Settled
<1>2. u # None /\ t # None /\ u # t /\ Target(u) \in Streams \cup {None} /\ None \notin Streams
      /\ \A d \in Sides : sp[u][d] \in Streams \cup {None}
  BY TargetType DEF Sides
<1>3. \A s \in Streams : sLock[s] = u => sLock'[s] = u
  BY <1>2 DEF Frame
<1>4. OwnsHardware(u)'
  BY <1>1, <1>2 DEF OwnsHardware, ThreadInv, Frame
<1>5. OwnsStream(u)'
  BY <1>1, <1>3 DEF OwnsStream, ThreadInv, Streams
<1>6. OwnsTarget(u)'
  BY <1>1, <1>2, <1>3 DEF OwnsTarget, ThreadInv
<1>7. ASSUME NEW d \in Sides, sp[u][d] # None, stream'[sp[u][d]] # stream[sp[u][d]]
      PROVE  /\ mLock # u /\ sLock[sp[u][d]] # u
             /\ stream'[sp[u][d]].mStandbyCnt >= stream[sp[u][d]].mStandbyCnt
             /\ ~stream[sp[u][d]].mStandby /\ stream'[sp[u][d]].mStandby
                  => stream'[sp[u][d]].mStandbyCnt > stream[sp[u][d]].mStandbyCnt
  <2>1. Referenced(sp[u][d])
    BY DEF Referenced
  <2> QED
    BY <1>2, <1>7, <2>1 DEF Frame
<1>8. Snapshot(u)'
  <2>1. side[u] \in Sides
    BY DEF TypeOK
  <2>2. CASE pc[u] = "chase" /\ Target(u) # None
    <3>1. mLock = u
      BY <2>2 DEF ThreadInv, OwnsHardware
    <3>2. stream'[Target(u)] = stream[Target(u)]
      BY <1>7, <2>1, <2>2, <3>1 DEF Target
    <3> QED
      BY <1>1, <2>2, <3>2 DEF Snapshot, ThreadInv
  <2>3. CASE pc[u] \in {"lock", "relock", "recheck"}
    <3>1. /\ Target(u) \in Streams
          /\ cnt[u] <= stream[Target(u)].mStandbyCnt
          /\ cnt[u] = stream[Target(u)].mStandbyCnt => ~stream[Target(u)].mStandby
      BY <1>2, <2>3 DEF Snapshot, OwnsTarget, ThreadInv
    <3>2. CASE stream'[Target(u)] = stream[Target(u)]
      BY <1>1, <2>3, <3>1, <3>2 DEF Snapshot
    <3>3. CASE stream'[Target(u)] # stream[Target(u)]
      <4>1. /\ stream'[Target(u)].mStandbyCnt >= stream[Target(u)].mStandbyCnt
            /\ ~stream[Target(u)].mStandby /\ stream'[Target(u)].mStandby
                  => stream'[Target(u)].mStandbyCnt > stream[Target(u)].mStandbyCnt
        <5>1. sp[u][side[u]] = Target(u) /\ Target(u) # None
          BY <1>2, <3>1 DEF Target
        <5>2. stream'[sp[u][side[u]]] # stream[sp[u][side[u]]] /\ sp[u][side[u]] # None
          BY <3>3, <5>1
        <5>3. /\ stream'[sp[u][side[u]]].mStandbyCnt >= stream[sp[u][side[u]]].mStandbyCnt
              /\ ~stream[sp[u][side[u]]].mStandby /\ stream'[sp[u][side[u]]].mStandby
                   => stream'[sp[u][side[u]]].mStandbyCnt > stream[sp[u][side[u]]].mStandbyCnt
          BY <1>7, <2>1, <5>2
        <5> QED
          BY <5>1, <5>3
      <4>2. cnt[u] \in Int /\ stream[Target(u)].mStandbyCnt \in Int
              /\ stream'[Target(u)].mStandbyCnt \in Int
        BY <3>1 DEF TypeOK, StreamState
      <4> QED
        BY <1>1, <2>3, <3>1, <4>1, <4>2 DEF Snapshot
    <3> QED
      BY <3>2, <3>3
  <2> QED
    BY <1>1, <2>2, <2>3 DEF Snapshot
<1>9. LeavesStandby(u)'
  BY <1>1, <1>2 DEF LeavesStandby, ThreadInv, Frame
<1>10. HoldsClaimed(u)'
  <2> SUFFICES ASSUME NEW d \in Sides, Settled(u, d)', sp'[u][d] # None
               PROVE  sLock'[sp'[u][d]] = u /\ ~stream'[sp'[u][d]].mStandby
    BY DEF HoldsClaimed
  <2>1. sLock[sp[u][d]] = u /\ ~stream[sp[u][d]].mStandby /\ sp[u][d] # None
    BY <1>1 DEF HoldsClaimed, ThreadInv
  <2>2. stream'[sp[u][d]] = stream[sp[u][d]]
    BY <1>7, <2>1
  <2> QED
    BY <1>1, <1>2, <1>3, <2>1, <2>2
<1> QED
  BY <1>4, <1>5, <1>6, <1>8, <1>9, <1>10 DEF ThreadInv

\* A thread at rest, or waiting for its first mutex, holds and claims nothing.
LEMMA AtRest ==
  ASSUME NEW t \in Threads,
         pc'[t] \in {"idle", "modeHw", "drop", "ioLock", "standbyLock", "routeLock",
                     "fmDelay", "fmMixer", "fmFd", "fmOffPcm", "fmOffFd"},
         t \in Outputs => sp'[t].out = None,
         t \in Inputs => sp'[t].in = None
  PROVE  ThreadInv(t)'
BY DEF ThreadInv, OwnsHardware, OwnsStream, OwnsTarget, Snapshot, LeavesStandby,
   HoldsClaimed, Settled

\* A step that leaves every stream as it is.
LEMMA FrameNoStream ==
  ASSUME NEW t \in Threads, UNCHANGED stream,
         \A u \in Threads \ {t} :
           pc'[u] = pc[u] /\ side'[u] = side[u] /\ sp'[u] = sp[u] /\ cnt'[u] = cnt[u],
         mLock' # mLock => mLock \in {None, t} /\ mLock' \in {None, t},
         \A s \in Streams : sLock'[s] # sLock[s] => sLock[s] \in {None, t} /\ sLock'[s] \in {None, t}
  PROVE  Frame(t)
BY DEF Frame

\* The beginning of a call guarantees Frame, and ThreadInv of the caller.
LEMMA BeginsKeep ==
  ASSUME TypeOK, \A t \in Threads : ThreadInv(t), Begins
  PROVE  \E t \in Threads : Frame(t) /\ ThreadInv(t)'
<1> USE DEF TypeOK
<1>0. Controls \subseteq Threads /\ Streams \subseteq Threads
      /\ Streams \cap Controls = {} /\ Outputs \cup Inputs = Streams
  BY ThreadsAssumption DEF Threads, Streams
<1>1. ASSUME NEW t \in Controls, NEW s \in Streams, Open(t, s)
      PROVE  Frame(t) /\ ThreadInv(t)'
  <2>1. Frame(t)
    BY <1>1 DEF Open, Frame, threadVars, lockVars, NewStream, StreamState
  <2>2. ThreadInv(t)'
    BY <1>0, <1>1, AtRest DEF Open, threadVars
  <2> QED
    BY <2>1, <2>2
<1>2. ASSUME NEW t \in Controls, NEW s \in Streams, Close(t, s)
      PROVE  Frame(t) /\ ThreadInv(t)'
  <2>1. Frame(t)
    BY <1>0, <1>2, FrameNoStream DEF Close, Goto, lockVars
  <2>2. ThreadInv(t)'
    BY <1>0, <1>2, AtRest DEF Close, Goto
  <2> QED
    BY <2>1, <2>2
<1>3. ASSUME NEW t \in Controls, NEW mode \in Modes, SetMode(t, mode)
      PROVE  Frame(t) /\ ThreadInv(t)'
  <2>1. Frame(t)
    BY <1>0, <1>3, FrameNoStream DEF SetMode, Goto, lockVars
  <2>2. ThreadInv(t)'
    BY <1>0, <1>3, AtRest DEF SetMode, Goto
  <2> QED
    BY <2>1, <2>2
<1>4. ASSUME NEW t \in Controls, FmOn(t) \/ FmOff(t)
      PROVE  Frame(t) /\ ThreadInv(t)'
  <2>1. Frame(t)
    BY <1>0, <1>4, FrameNoStream DEF FmOn, FmOff, BeginFm, Goto, lockVars
  <2>2. ThreadInv(t)'
    BY <1>0, <1>4, AtRest DEF FmOn, FmOff, BeginFm, Goto
  <2> QED
    BY <2>1, <2>2
<1>5. ASSUME NEW s \in Streams, BeginIo(s) \/ BeginStandby(s) \/ BeginRoute(s)
      PROVE  Frame(s) /\ ThreadInv(s)'
  <2>1. Frame(s)
    BY <1>0, <1>5, FrameNoStream DEF BeginIo, BeginStandby, BeginRoute, Begin, Goto, lockVars
  <2>2. /\ s \in Outputs => sp'[s].out = None
        /\ s \in Inputs => sp'[s].in = None
    BY <1>0, <1>5 DEF BeginIo, BeginStandby, BeginRoute, Begin, ThreadInv, OwnsTarget
  <2>3. ThreadInv(s)'
    BY <1>0, <1>5, <2>2, AtRest DEF BeginIo, BeginStandby, BeginRoute, Begin, Goto
  <2> QED
    BY <2>1, <2>3
<1> QED
  BY <1>0, <1>1, <1>2, <1>3, <1>4, <1>5 DEF Begins

\* The end of a path loop: what it was after is locked and active, or nothing.
LEMMA LoopEnds ==
  ASSUME TypeOK, TypeOK', NEW t \in Threads, ThreadInv(t),
         EndLoop(t), mLock' = t, UNCHANGED <<stream, sLock, cnt>>,
         pc[t] \in {"chase", "recheck"},
         Target(t) # None => sLock[Target(t)] = t /\ ~stream[Target(t)].mStandby,
         pc[t] = "recheck" => Target(t) # None
  PROVE  ThreadInv(t)'
<1>0. /\ Streams \cap Controls = {} /\ Outputs \cup Inputs = Streams /\ Outputs \cap Inputs = {}
      /\ Threads = Streams \cup Controls /\ side[t] \in Sides
  BY ThreadsAssumption DEF Threads, Streams, TypeOK
<1>1. CASE t \in Controls /\ side[t] = "out"
  <2>1. /\ pc'[t] = "chase" /\ side'[t] = "in"
        /\ sp'[t].in = ActiveInput /\ sp'[t].out = Target(t)
    BY <1>1 DEF EndLoop, Goto, TypeOK, Target
  <2>2. ActiveInput # None => ~stream[ActiveInput].mStandby
    BY DEF ActiveInput
  <2>3. Snapshot(t)'
    BY <2>1, <2>2 DEF Snapshot, Target
  <2>4. HoldsClaimed(t)'
    BY <2>1 DEF HoldsClaimed, Settled, Sides
  <2> QED
    BY <1>0, <1>1, <2>1, <2>3, <2>4 DEF ThreadInv, OwnsHardware, OwnsStream, OwnsTarget, LeavesStandby
<1>2. CASE t \in Controls /\ side[t] # "out"
  <2>1. pc'[t] = "apply" /\ side[t] = "in" /\ UNCHANGED <<side, sp>>
    BY <1>0, <1>2 DEF EndLoop, Goto, TypeOK, Sides
  <2>2. Settled(t, "out")
    BY <1>2, <2>1 DEF Settled
  <2>3. HoldsClaimed(t)'
    BY <2>1, <2>2 DEF HoldsClaimed, ThreadInv, Target, Sides
  <2> QED
    BY <1>0, <1>2, <2>1, <2>3 DEF ThreadInv, OwnsHardware, OwnsStream, OwnsTarget, LeavesStandby, Snapshot
<1>3. CASE t \notin Controls
  <2>1. pc'[t] = "open" /\ UNCHANGED <<side, sp>>
    BY <1>3 DEF EndLoop, Goto, TypeOK
  <2>2. \A d \in Sides : sp[t][d] # None => sp[t][d] = Target(t)
    BY <1>0, <1>3 DEF ThreadInv, OwnsTarget, Target, Sides
  <2>3. HoldsClaimed(t)'
    BY <2>1, <2>2 DEF HoldsClaimed
  <2>4. OwnsStream(t)' /\ LeavesStandby(t)'
    BY <1>0, <1>3, <2>1 DEF ThreadInv, OwnsStream, LeavesStandby
  <2> QED
    BY <1>0, <1>3, <2>1, <2>3, <2>4 DEF ThreadInv, OwnsHardware, OwnsTarget, Snapshot
<1> QED
  BY <1>1, <1>2, <1>3

\* The path loops of setMode(), write() and read() guarantee the same.
LEMMA LoopKeeps ==
  ASSUME TypeOK, TypeOK', NEW t \in Threads, ThreadInv(t), LoopStep(t)
  PROVE  Frame(t) /\ ThreadInv(t)'
<1>1. Frame(t)
  <2> USE DEF TypeOK, Goto, lockVars
  <2>1. CASE ChaseNone(t)
    BY <2>1, FrameNoStream DEF ChaseNone, EndLoop
  <2>2. CASE ChasePrepare(t)
    BY <2>2, FrameNoStream DEF ChasePrepare, ThreadInv, OwnsHardware, OwnsStream, Streams
  <2>3. CASE LockStream(t)
    BY <2>3, FrameNoStream DEF LockStream, Take
  <2>4. CASE RelockSelf(t)
    BY <2>4, FrameNoStream DEF RelockSelf, Take
  <2>5. CASE RecheckFound(t)
    BY <2>5, FrameNoStream DEF RecheckFound, EndLoop
  <2>6. CASE RecheckLost(t)
    <3>1. sLock[Target(t)] = t
      BY <2>6 DEF RecheckLost, ThreadInv, OwnsTarget
    <3> QED
      BY <2>6, <3>1, FrameNoStream DEF RecheckLost
  <2> QED
    BY <2>1, <2>2, <2>3, <2>4, <2>5, <2>6 DEF LoopStep
<1>2. ThreadInv(t)'
  <2>0. /\ Streams \cap Controls = {} /\ Outputs \cup Inputs = Streams /\ Outputs \cap Inputs = {}
        /\ Threads = Streams \cup Controls /\ side[t] \in Sides /\ None \notin Threads
        /\ Target(t) \in Streams \cup {None}
    BY ThreadsAssumption DEF Threads, Streams, TypeOK, Target, Sides
  <2>1. CASE ChaseNone(t)
    <3>1. mLock = t
      BY <2>1 DEF ChaseNone, ThreadInv, OwnsHardware
    <3> QED
      BY <2>1, <3>1, LoopEnds DEF ChaseNone, lockVars
  <2>2. CASE ChasePrepare(t)
    <3>1. /\ pc[t] = "chase" /\ pc'[t] = "lock" /\ Target(t) \in Streams
          /\ UNCHANGED <<stream, side, sp>> /\ Target(t)' = Target(t)
          /\ cnt'[t] = stream[Target(t)].mStandbyCnt
          /\ ~stream[Target(t)].mStandby
      BY <2>0, <2>2 DEF ChasePrepare, Goto, TypeOK, Target, ThreadInv, Snapshot
    <3>2. t \in Outputs => sLock'[t] = t
      BY <2>0, <2>2 DEF ChasePrepare, ThreadInv, OwnsStream
    <3>3. Snapshot(t)'
      BY <3>1 DEF Snapshot, TypeOK, StreamState
    <3>4. HoldsClaimed(t)'
      <4>1. t \in Controls => UNCHANGED sLock
        BY <2>0, <2>2 DEF ChasePrepare
      <4>2. \A d \in Sides : Settled(t, d)' => t \in Controls /\ Settled(t, d)
        BY <3>1 DEF Settled
      <4> QED
        BY <3>1, <4>1, <4>2 DEF HoldsClaimed, ThreadInv
    <3> QED
      BY <2>0, <3>1, <3>2, <3>3, <3>4 DEF ThreadInv, OwnsHardware, OwnsStream, OwnsTarget, LeavesStandby
  <2>3. CASE LockStream(t)
    <3>1. /\ pc[t] = "lock" /\ Target(t) \in Streams
          /\ pc'[t] = (IF t \in Inputs THEN "relock" ELSE "recheck")
          /\ UNCHANGED <<stream, side, sp, cnt>> /\ Target(t)' = Target(t)
          /\ sLock[Target(t)] = None /\ sLock' = [sLock EXCEPT ![Target(t)] = t]
      BY <2>0, <2>3 DEF LockStream, Take, Goto, TypeOK, Target, ThreadInv, OwnsTarget
    <3>2. sLock'[Target(t)] = t /\ \A s \in Streams : sLock[s] = t => sLock'[s] = t
      BY <3>1 DEF TypeOK
    <3>3. HoldsClaimed(t)'
      <4>1. \A d \in Sides : Settled(t, d)' => Settled(t, d)
        BY <3>1 DEF Settled
      <4>2. \A d \in Sides : sp[t][d] \in Streams \cup {None}
        BY TargetType
      <4> QED
        BY <3>1, <3>2, <4>1, <4>2 DEF HoldsClaimed, ThreadInv
    <3>4. OwnsStream(t)'
      BY <2>0, <3>1, <3>2 DEF ThreadInv, OwnsStream
    <3> QED
      BY <2>0, <3>1, <3>2, <3>3, <3>4 DEF ThreadInv, OwnsHardware, OwnsTarget, LeavesStandby, Snapshot
  <2>4. CASE RelockSelf(t)
    <3>1. /\ pc[t] = "relock" /\ t \in Inputs /\ pc'[t] = "recheck"
          /\ UNCHANGED <<stream, side, sp, cnt>> /\ Target(t)' = Target(t)
          /\ sLock[t] = None /\ sLock' = [sLock EXCEPT ![t] = t]
          /\ Target(t) \in Streams /\ sLock[Target(t)] = t
      BY <2>0, <2>4 DEF RelockSelf, Take, Goto, TypeOK, Target, ThreadInv, OwnsTarget
    <3>2. sLock'[t] = t /\ sLock'[Target(t)] = t
      BY <2>0, <3>1 DEF TypeOK
    <3>3. HoldsClaimed(t)'
      BY <2>0, <3>1 DEF HoldsClaimed, Settled
    <3> QED
      BY <2>0, <3>1, <3>2, <3>3 DEF ThreadInv, OwnsHardware, OwnsStream, OwnsTarget, LeavesStandby, Snapshot
  <2>5. CASE RecheckFound(t)
    <3>1. pc[t] = "recheck" /\ mLock' = t /\ EndLoop(t) /\ UNCHANGED <<stream, sLock, cnt>>
      BY <2>5 DEF RecheckFound
    <3>2. Target(t) # None /\ sLock[Target(t)] = t /\ ~stream[Target(t)].mStandby
      BY <2>5 DEF RecheckFound, Unchanged, ThreadInv, OwnsTarget, Snapshot
    <3> QED
      BY <3>1, <3>2, LoopEnds
  <2>6. CASE RecheckLost(t)
    <3>1. /\ pc[t] = "recheck" /\ mLock' = t /\ Target(t) \in Streams /\ sLock[Target(t)] = t
          /\ sLock' = [sLock EXCEPT ![Target(t)] = None]
          /\ UNCHANGED <<stream, side, cnt>>
      BY <2>0, <2>6 DEF RecheckLost, ThreadInv, OwnsTarget
    <3>2. \A s \in Streams \ {Target(t)} : sLock'[s] = sLock[s]
      BY <3>1 DEF TypeOK
    <3>3. CASE Goto(t, "dtorLock") /\ UNCHANGED sp
      BY <2>0, <3>1, <3>3 DEF ThreadInv, OwnsHardware, OwnsStream, OwnsTarget, LeavesStandby,
         Snapshot, HoldsClaimed, Settled, Goto, Target, TypeOK
    <3>4. CASE Goto(t, "chase") /\ sp' = [sp EXCEPT ![t][side[t]] = Current(side[t])]
      <4>1. /\ pc'[t] = "chase" /\ Target(t)' = Current(side[t])
            /\ \A d \in Sides \ {side[t]} : sp'[t][d] = sp[t][d]
        BY <2>0, <3>1, <3>4 DEF Goto, Target, TypeOK, Sides
      <4>2. Current(side[t]) # None => ~stream[Current(side[t])].mStandby
        BY DEF Current, ActiveInput, ActiveOutput
      <4>3. Snapshot(t)'
        BY <3>1, <4>1, <4>2 DEF Snapshot
      <4>4. t \in Outputs => side[t] = "in"
        BY <2>0, <3>1 DEF ThreadInv, OwnsTarget, Target, Sides
      <4>5. t \in Inputs => side[t] = "out"
        BY <2>0, <3>1 DEF ThreadInv, OwnsTarget, Target, Sides
      <4>6. /\ t \in Outputs => Target(t) \in Inputs
            /\ t \in Inputs => Target(t) \in Outputs
            /\ side[t] = "in" => Target(t) \in Inputs
        BY <2>0, <3>1, <4>4, <4>5, TargetType DEF Target
      <4>7. OwnsStream(t)' /\ LeavesStandby(t)' /\ OwnsTarget(t)' /\ OwnsHardware(t)'
        BY <2>0, <3>1, <3>2, <4>1, <4>4, <4>5, <4>6
           DEF ThreadInv, OwnsHardware, OwnsStream, OwnsTarget, LeavesStandby, Sides
      <4>8. HoldsClaimed(t)'
        <5> SUFFICES ASSUME NEW d \in Sides, Settled(t, d)', sp'[t][d] # None
                     PROVE  sLock'[sp'[t][d]] = t /\ ~stream'[sp'[t][d]].mStandby
          BY DEF HoldsClaimed
        <5>1. d = "out" /\ t \in Controls /\ side[t] = "in"
          BY <3>1, <4>1 DEF Settled
        <5>2. Settled(t, d) /\ sp'[t][d] = sp[t][d]
          BY <3>1, <4>1, <5>1 DEF Settled
        <5>3. sLock[sp[t][d]] = t /\ ~stream[sp[t][d]].mStandby
          BY <5>2 DEF HoldsClaimed, ThreadInv
        <5>4. sp[t][d] \in Outputs
          BY <5>1, <5>2, TargetType
        <5>5. sp[t][d] \in Streams \ {Target(t)}
          BY <2>0, <4>6, <5>1, <5>4
        <5> QED
          BY <3>1, <3>2, <5>2, <5>3, <5>5
      <4> QED
        BY <4>3, <4>7, <4>8 DEF ThreadInv
    <3> QED
      BY <2>6, <3>3, <3>4 DEF RecheckLost
  <2> QED
    BY <2>1, <2>2, <2>3, <2>4, <2>5, <2>6 DEF LoopStep
<1> QED
  BY <1>1, <1>2

\* doStandby_l() of streams that t has locked, by a thread that may touch the
\* hardware.
LEMMA FrameStandby ==
  ASSUME TypeOK, NEW t \in Threads, NEW S \in SUBSET Streams,
         stream' = StandbyAll(S),
         \A x \in S : sLock[x] = t,
         mLock \in {None, t}, mLock' \in {None, t},
         \A s \in Streams : sLock'[s] # sLock[s] => sLock[s] = t /\ sLock'[s] = None,
         \A u \in Threads \ {t} :
           pc'[u] = pc[u] /\ side'[u] = side[u] /\ sp'[u] = sp[u] /\ cnt'[u] = cnt[u]
  PROVE  Frame(t)
<1>1. ASSUME NEW s \in Streams, stream'[s] # stream[s]
      PROVE  /\ s \in S /\ stream'[s].mStandby
             /\ stream'[s].mStandbyCnt > stream[s].mStandbyCnt
             /\ stream'[s].mStandbyCnt >= stream[s].mStandbyCnt
  <2>1. s \in S /\ stream'[s] = InStandby(s)
    BY <1>1 DEF StandbyAll
  <2>2. stream[s].mStandbyCnt \in Nat
    BY DEF TypeOK, StreamState
  <2> QED
    BY <2>1, <2>2 DEF InStandby
<1> QED
  BY <1>1 DEF Frame

\* The end of a closed stream guarantees the same.
LEMMA DtorKeeps ==
  ASSUME TypeOK, TypeOK', NEW t \in Threads, ThreadInv(t), DtorStep(t)
  PROVE  Frame(t) /\ ThreadInv(t)'
<1> USE DEF Goto
<1>1. CASE Drop(t)
  <2>1. CASE ForgetLocals(t) /\ Goto(t, "idle")
    <3>1. Frame(t)
      BY <1>1, <2>1, FrameNoStream DEF Drop, ForgetLocals, lockVars, TypeOK
    <3>2. ThreadInv(t)'
      BY <2>1, AtRest DEF ForgetLocals, NoRefs, TypeOK
    <3> QED
      BY <3>1, <3>2
  <2>2. CASE /\ Goto(t, "dtorLock") /\ UNCHANGED <<sp, cnt, arg>>
             /\ \E d \in Sides : sp[t][d] # None /\ side' = [side EXCEPT ![t] = d]
    <3>1. Frame(t)
      BY <1>1, <2>2, FrameNoStream DEF Drop, lockVars, TypeOK
    <3>2. pc'[t] = "dtorLock" /\ Target(t)' # None
      BY <2>2 DEF TypeOK, Target
    <3>3. ThreadInv(t)'
      BY <2>2, <3>2 DEF ThreadInv, OwnsHardware, OwnsStream, OwnsTarget, Snapshot,
         LeavesStandby, HoldsClaimed, Settled
    <3> QED
      BY <3>1, <3>3
  <2> QED
    BY <1>1, <2>1, <2>2 DEF Drop
<1>2. CASE DtorLock(t)
  <2>1. Frame(t)
    BY <1>2, FrameNoStream DEF DtorLock, Take, TypeOK
  <2>2. /\ pc'[t] = "dtorHw" /\ UNCHANGED <<side, sp>> /\ Target(t) # None
        /\ Target(t)' = Target(t) /\ sLock'[Target(t)] = t
    BY <1>2, TargetType DEF DtorLock, Take, TypeOK, Target, ThreadInv, OwnsTarget
  <2>3. ThreadInv(t)'
    BY <2>2 DEF ThreadInv, OwnsHardware, OwnsStream, OwnsTarget, Snapshot,
       LeavesStandby, HoldsClaimed, Settled
  <2> QED
    BY <2>1, <2>3
<1>3. CASE DtorHw(t)
  <2>1. /\ Target(t) \in Streams /\ sLock[Target(t)] = t
    BY <1>3, TargetType DEF DtorHw, ThreadInv, OwnsTarget
  <2>2. /\ stream' = StandbyAll({Target(t)}) /\ mLock = None /\ mLock' = None
        /\ sLock' = [sLock EXCEPT ![Target(t)] = None]
        /\ pc' = [pc EXCEPT ![t] = "drop"] /\ UNCHANGED <<side, cnt>>
        /\ sp' = [sp EXCEPT ![t][side[t]] = None]
    BY <1>3 DEF DtorHw
  <2>3. Frame(t)
    <3>1. \A s \in Streams : sLock'[s] # sLock[s] => sLock[s] = t /\ sLock'[s] = None
      BY <2>1, <2>2 DEF TypeOK
    <3>2. \A u \in Threads \ {t} :
            pc'[u] = pc[u] /\ side'[u] = side[u] /\ sp'[u] = sp[u] /\ cnt'[u] = cnt[u]
      BY <2>2 DEF TypeOK
    <3>3. {Target(t)} \in SUBSET Streams /\ \A x \in {Target(t)} : sLock[x] = t
      BY <2>1
    <3> QED
      BY <2>2, <3>1, <3>2, <3>3, FrameStandby
  <2>4. /\ pc'[t] = "drop"
        /\ t \in Outputs => sp'[t].out = None
        /\ t \in Inputs => sp'[t].in = None
    BY <2>2 DEF TypeOK, ThreadInv, OwnsTarget, Sides
  <2>5. ThreadInv(t)'
    BY <2>4, AtRest
  <2> QED
    BY <2>3, <2>5
<1> QED
  BY <1>1, <1>2, <1>3 DEF DtorStep

\* setMode() and the FM radio calls guarantee the same.
LEMMA ControlKeeps ==
  ASSUME TypeOK, TypeOK', NEW t \in Controls, ThreadInv(t), ControlStep(t)
  PROVE  Frame(t) /\ ThreadInv(t)'
<1>0. /\ t \in Threads /\ t \notin Streams /\ t \notin Outputs /\ t \notin Inputs
  BY ThreadsAssumption DEF Threads, Streams
<1> USE DEF Goto
<1>1. CASE ModeHw(t)
  <2>1. Frame(t)
    BY <1>0, <1>1, FrameNoStream DEF ModeHw, TypeOK
  <2>2. /\ pc'[t] = "chase" /\ mLock' = t /\ Target(t)' = ActiveOutput /\ side'[t] = "out"
        /\ stream' = stream
    BY <1>0, <1>1 DEF ModeHw, TypeOK, Target
  <2>3. ActiveOutput # None => ~stream[ActiveOutput].mStandby
    BY DEF ActiveOutput
  <2>4. ThreadInv(t)'
    BY <1>0, <2>2, <2>3 DEF ThreadInv, OwnsHardware, OwnsStream, OwnsTarget, Snapshot,
       LeavesStandby, HoldsClaimed, Settled, Sides
  <2> QED
    BY <2>1, <2>4
<1>2. ASSUME pc[t] = "apply", EndMode(t), stream' = StandbyAll(Claimed(t)) \/ stream' = stream
      PROVE  Frame(t) /\ ThreadInv(t)'
  <2>1. mLock = t
    BY <1>2 DEF ThreadInv, OwnsHardware
  <2>2. Claimed(t) \in SUBSET Streams
    BY <1>0, TargetType DEF Claimed
  <2>3. \A x \in Claimed(t) : sLock[x] = t
    BY <1>2 DEF ThreadInv, HoldsClaimed, Settled, Claimed
  <2>4. \A s \in Streams : sLock'[s] # sLock[s] => sLock[s] = t /\ sLock'[s] = None
    BY <1>2, <2>3 DEF EndMode
  <2>5. \A u \in Threads \ {t} :
          pc'[u] = pc[u] /\ side'[u] = side[u] /\ sp'[u] = sp[u] /\ cnt'[u] = cnt[u]
    BY <1>2 DEF EndMode, TypeOK
  <2>6. mLock' = None
    BY <1>2 DEF EndMode
  <2>7. Frame(t)
    <3>1. CASE stream' = stream
      BY <1>0, <2>1, <2>4, <2>5, <2>6, <3>1, FrameNoStream
    <3>2. CASE stream' = StandbyAll(Claimed(t))
      BY <1>0, <2>1, <2>2, <2>3, <2>4, <2>5, <2>6, <3>2, FrameStandby
    <3> QED
      BY <1>2, <3>1, <3>2
  <2>8. ThreadInv(t)'
    BY <1>0, <1>2, AtRest DEF EndMode, TypeOK
  <2> QED
    BY <2>7, <2>8
<1>3. CASE CallStarts(t) \/ CallEnds(t) \/ ModeOnly(t)
  BY <1>2, <1>3 DEF CallStarts, CallEnds, ModeOnly
<1>4. CASE FmStep(t)
  <2>1. Frame(t)
    BY <1>0, <1>4, FrameNoStream DEF FmStep, TypeOK, lockVars
  <2>2. ThreadInv(t)'
    BY <1>0, <1>4, AtRest DEF FmStep, TypeOK
  <2> QED
    BY <2>1, <2>2
<1> QED
  BY <1>1, <1>3, <1>4 DEF ControlStep

\* open_l() changes a stream's handles only.
LEMMA ReopenedKeeps ==
  ASSUME TypeOK, NEW s \in Streams, NEW x \in Streams, NEW ok \in [Opens -> OpenResults]
  PROVE  /\ Reopened(s, x, ok).mStandby = stream[x].mStandby
         /\ Reopened(s, x, ok).mStandbyCnt = stream[x].mStandbyCnt
         /\ DOMAIN Reopened(s, x, ok) = DOMAIN stream[x]
<1>1. stream[x] \in StreamState
  BY DEF TypeOK
<1>2. ASSUME NEW a, NEW b
      PROVE  LET new == [stream[x] EXCEPT !.mPcm = a, !.mMixer = b]
             IN  /\ new.mStandby = stream[x].mStandby
                 /\ new.mStandbyCnt = stream[x].mStandbyCnt
                 /\ DOMAIN new = DOMAIN stream[x]
  BY <1>1 DEF StreamState
<1> QED
  BY <1>2 DEF Reopened, Opened

\* Opening a path, the peer closed and reopened, guarantees the same.
LEMMA OpenPathKeeps ==
  ASSUME TypeOK, TypeOK', NEW s \in Streams, ThreadInv(s), OpenPath(s)
  PROVE  Frame(s) /\ ThreadInv(s)'
<1>0. /\ s \in Threads /\ Outputs \cup Inputs = Streams /\ Outputs \cap Inputs = {}
      /\ None \notin Streams
  BY ThreadsAssumption DEF Threads, Streams
<1>1. PICK ok \in [Opens -> OpenResults] :
        /\ stream' = [x \in Streams |->
             IF x = s THEN [Reopened(s, s, ok) EXCEPT !.mStandby = ~Reopened(s, s, ok).mPcm]
             ELSE IF x \in FailedPeers(s, ok) THEN InStandby(x)
             ELSE IF x \in Claimed(s) THEN Reopened(s, x, ok)
             ELSE stream[x]]
        /\ sLock' = [x \in Streams |->
             IF x \in Claimed(s) \/ (x = s /\ ~Reopened(s, s, ok).mPcm) THEN None ELSE sLock[x]]
        /\ Goto(s, IF Reopened(s, s, ok).mPcm THEN "transfer" ELSE "standbyLock")
  BY DEF OpenPath
<1>2. /\ pc[s] = "open" /\ mLock = s /\ sLock[s] = s /\ stream[s].mStandby /\ mLock' = None
      /\ ForgetLocals(s)
  BY DEF OpenPath, ThreadInv, OwnsHardware, OwnsStream, LeavesStandby
<1>3. \A x \in Claimed(s) : x \in Streams /\ x # s /\ sLock[x] = s /\ ~stream[x].mStandby
  <2> SUFFICES ASSUME NEW d \in Sides, sp[s][d] # None
               PROVE  /\ sp[s][d] \in Streams /\ sp[s][d] # s
                      /\ sLock[sp[s][d]] = s /\ ~stream[sp[s][d]].mStandby
    BY DEF Claimed
  <2>1. Settled(s, d)
    BY <1>2 DEF Settled
  <2>2. sLock[sp[s][d]] = s /\ ~stream[sp[s][d]].mStandby
    BY <2>1 DEF ThreadInv, HoldsClaimed
  <2>3. (s \in Outputs => sp[s].out = None) /\ (s \in Inputs => sp[s].in = None)
    BY DEF ThreadInv, OwnsTarget
  <2>4. (d = "out" => sp[s][d] \in Outputs) /\ (d = "in" => sp[s][d] \in Inputs)
    BY <1>0, TargetType
  <2>5. sp[s][d] # s
    BY <1>0, <2>3, <2>4 DEF Sides
  <2> QED
    BY <1>0, <2>2, <2>4, <2>5 DEF Sides
<1>4. FailedPeers(s, ok) \subseteq Claimed(s)
  BY DEF FailedPeers
<1>5. \A x \in Streams : stream[x] \in StreamState
  BY DEF TypeOK
<1>6. ASSUME NEW x \in Streams, stream'[x] # stream[x]
      PROVE  /\ sLock[x] = s
             /\ stream[x].mStandby /\ ~stream'[x].mStandby => x = s
             /\ stream'[x].mStandbyCnt >= stream[x].mStandbyCnt
             /\ ~stream[x].mStandby /\ stream'[x].mStandby
                  => stream'[x].mStandbyCnt > stream[x].mStandbyCnt
  <2>0. stream[x].mStandbyCnt \in Nat
    BY <1>5 DEF StreamState
  <2>1. CASE x = s
    <3>1. stream'[s] = [Reopened(s, s, ok) EXCEPT !.mStandby = ~Reopened(s, s, ok).mPcm]
      BY <1>1
    <3>2. stream'[s].mStandbyCnt = Reopened(s, s, ok).mStandbyCnt
      BY <3>1
    <3>3. stream'[s].mStandbyCnt = stream[s].mStandbyCnt
      BY <3>2, ReopenedKeeps
    <3> QED
      BY <1>2, <2>0, <2>1, <3>3
  <2>2. CASE x # s /\ x \in FailedPeers(s, ok)
    <3>1. stream'[x] = InStandby(x)
      BY <1>1, <2>2
    <3>2. stream'[x].mStandby /\ stream'[x].mStandbyCnt = stream[x].mStandbyCnt + 1
      BY <3>1 DEF InStandby
    <3> QED
      BY <1>3, <1>4, <2>0, <2>2, <3>2
  <2>3. CASE x # s /\ x \notin FailedPeers(s, ok) /\ x \in Claimed(s)
    <3>1. stream'[x] = Reopened(s, x, ok)
      BY <1>1, <2>3
    <3>2. stream'[x].mStandby = stream[x].mStandby /\ stream'[x].mStandbyCnt = stream[x].mStandbyCnt
      BY <3>1, ReopenedKeeps
    <3> QED
      BY <1>3, <2>0, <2>3, <3>2
  <2>4. CASE x # s /\ x \notin FailedPeers(s, ok) /\ x \notin Claimed(s)
    BY <1>1, <1>6, <2>4
  <2> QED
    BY <2>1, <2>2, <2>3, <2>4
<1>7. \A x \in Streams : sLock'[x] # sLock[x] => sLock[x] = s /\ sLock'[x] = None
  BY <1>1, <1>2, <1>3
<1>8. \A u \in Threads \ {s} :
        pc'[u] = pc[u] /\ side'[u] = side[u] /\ sp'[u] = sp[u] /\ cnt'[u] = cnt[u]
  BY <1>1, <1>2 DEF ForgetLocals, Goto, TypeOK
<1>9. Frame(s)
  BY <1>2, <1>6, <1>7, <1>8 DEF Frame
<1>10. sp'[s] = NoRefs
  BY <1>0, <1>2 DEF ForgetLocals, TypeOK
<1>11. CASE Reopened(s, s, ok).mPcm
  <2>1. pc'[s] = "transfer" /\ sLock'[s] = s
    BY <1>0, <1>1, <1>2, <1>3, <1>11 DEF Goto, TypeOK
  <2>2. ThreadInv(s)'
    BY <1>10, <2>1 DEF NoRefs, ThreadInv, OwnsHardware, OwnsStream, OwnsTarget, Snapshot,
       LeavesStandby, HoldsClaimed, Settled
  <2> QED
    BY <1>9, <2>2
<1>12. CASE ~Reopened(s, s, ok).mPcm
  <2>1. pc'[s] = "standbyLock"
    BY <1>0, <1>1, <1>12 DEF Goto, TypeOK
  <2>2. ThreadInv(s)'
    BY <1>0, <1>10, <2>1, AtRest DEF NoRefs
  <2> QED
    BY <1>9, <2>2
<1> QED
  BY <1>11, <1>12

\* The calls of data threads guarantee the same.
LEMMA DataKeeps ==
  ASSUME TypeOK, TypeOK', NEW s \in Streams, ThreadInv(s), DataStep(s)
  PROVE  Frame(s) /\ ThreadInv(s)'
<1>0. /\ s \in Threads /\ s \notin Controls /\ Outputs \cup Inputs = Streams
      /\ Outputs \cap Inputs = {} /\ None \notin Threads
  BY ThreadsAssumption DEF Threads, Streams
<1>1. (s \in Outputs => sp[s].out = None) /\ (s \in Inputs => sp[s].in = None)
  BY DEF ThreadInv, OwnsTarget
<1> USE DEF Goto
<1>2. CASE LockSelf(s)
  <2>1. Frame(s)
    BY <1>0, <1>2, FrameNoStream DEF LockSelf, Take, TypeOK
  <2>2. /\ pc'[s] \in {"exitStandby", "transfer", "standbyHw", "routeHw"} /\ sLock'[s] = s
        /\ pc'[s] = "exitStandby" => stream[s].mStandby
        /\ UNCHANGED <<stream, sp>>
    BY <1>0, <1>2 DEF LockSelf, Take, TypeOK
  <2>3. ThreadInv(s)'
    BY <1>1, <2>2 DEF ThreadInv, OwnsHardware, OwnsStream, OwnsTarget, Snapshot,
       LeavesStandby, HoldsClaimed, Settled
  <2> QED
    BY <2>1, <2>3
<1>3. CASE ExitStandby(s)
  <2> DEFINE d == IF s \in Outputs THEN "in" ELSE "out"
  <2>1. /\ pc[s] = "exitStandby" /\ pc' = [pc EXCEPT ![s] = "chase"]
        /\ side' = [side EXCEPT ![s] = d] /\ sp' = [sp EXCEPT ![s][d] = Current(d)]
        /\ mLock = None /\ mLock' = s /\ UNCHANGED <<stream, sLock, cnt>>
    BY <1>3 DEF ExitStandby
  <2>2. Frame(s)
    BY <1>0, <2>1, FrameNoStream DEF TypeOK
  <2>3. sLock[s] = s /\ stream[s].mStandby
    BY <2>1 DEF ThreadInv, OwnsStream, LeavesStandby
  <2>4. /\ pc'[s] = "chase" /\ side'[s] = d /\ Target(s)' = Current(d)
        /\ s \in Outputs => sp'[s].out = None
        /\ s \in Inputs => sp'[s].in = None
    BY <1>0, <1>1, <2>1 DEF Target, TypeOK
  <2>5. Current(d) # None => ~stream[Current(d)].mStandby
    BY DEF Current, ActiveInput, ActiveOutput
  <2>6. Snapshot(s)'
    BY <2>1, <2>4, <2>5 DEF Snapshot
  <2>7. HoldsClaimed(s)'
    BY <1>0, <2>4 DEF HoldsClaimed, Settled
  <2>8. OwnsHardware(s)' /\ OwnsStream(s)' /\ OwnsTarget(s)' /\ LeavesStandby(s)'
    BY <1>0, <2>1, <2>3, <2>4 DEF OwnsHardware, OwnsStream, OwnsTarget, LeavesStandby
  <2> QED
    BY <2>2, <2>6, <2>7, <2>8 DEF ThreadInv
<1>4. CASE OpenPath(s)
  BY <1>4, OpenPathKeeps
<1>5. CASE Transfer(s)
  <2>1. sLock[s] = s
    BY <1>5 DEF Transfer, ThreadInv, OwnsStream
  <2>2. Frame(s)
    BY <1>0, <1>5, <2>1, FrameNoStream DEF Transfer, TypeOK
  <2>3. ThreadInv(s)'
    BY <1>0, <1>1, <1>5, AtRest DEF Transfer, TypeOK
  <2> QED
    BY <2>2, <2>3
<1>6. ASSUME NEW S \in SUBSET {s}, StandbyStep(s, S), mLock = None, sLock[s] = s
      PROVE  Frame(s) /\ ThreadInv(s)'
  <2>1. /\ stream' = StandbyAll(S) /\ sLock' = [sLock EXCEPT ![s] = None]
        /\ pc' = [pc EXCEPT ![s] = "idle"] /\ UNCHANGED <<mLock, side, sp, cnt>>
    BY <1>6 DEF StandbyStep
  <2>2. \A x \in Streams : sLock'[x] # sLock[x] => sLock[x] = s /\ sLock'[x] = None
    BY <1>6, <2>1 DEF TypeOK
  <2>3. \A u \in Threads \ {s} :
          pc'[u] = pc[u] /\ side'[u] = side[u] /\ sp'[u] = sp[u] /\ cnt'[u] = cnt[u]
    BY <2>1 DEF TypeOK
  <2>4. S \in SUBSET Streams /\ \A x \in S : sLock[x] = s
    BY <1>6
  <2>5. Frame(s)
    BY <1>0, <1>6, <2>1, <2>2, <2>3, <2>4, FrameStandby
  <2>6. ThreadInv(s)'
    BY <1>0, <1>1, <2>1, AtRest DEF TypeOK
  <2> QED
    BY <2>5, <2>6
<1>7. CASE StandbyHw(s)
  <2>1. sLock[s] = s
    BY <1>7 DEF StandbyHw, ThreadInv, OwnsStream
  <2> QED
    BY <1>6, <1>7, <2>1 DEF StandbyHw
<1>8. CASE Route(s)
  <2>1. sLock[s] = s
    BY <1>8 DEF Route, ThreadInv, OwnsStream
  <2>2. \E S \in SUBSET {s} : StandbyStep(s, S)
    BY <1>8 DEF Route
  <2> QED
    BY <1>6, <1>8, <2>1, <2>2 DEF Route
<1>9. CASE InputSource(s)
  <2>1. sLock[s] = s
    BY <1>9 DEF InputSource, ThreadInv, OwnsStream
  <2>2. Frame(s)
    BY <1>0, <1>9, <2>1, FrameNoStream DEF InputSource, TypeOK
  <2>3. ThreadInv(s)'
    BY <1>0, <1>1, <1>9, AtRest DEF InputSource, TypeOK
  <2> QED
    BY <2>2, <2>3
<1> QED
  BY <1>2, <1>3, <1>4, <1>5, <1>7, <1>8, <1>9 DEF DataStep

\* The invariant holds at the start.
LEMMA InvInit == Init => IInv
<1> SUFFICES ASSUME Init, NEW t \in Threads PROVE ThreadInv(t)
  BY TypeInit DEF IInv
<1>1. pc[t] = "idle" /\ sp[t] = NoRefs
  BY DEF Init
<1> QED
  BY <1>1 DEF NoRefs, ThreadInv, OwnsHardware, OwnsStream, OwnsTarget, Snapshot,
     LeavesStandby, HoldsClaimed, Settled

\* Every step keeps the invariant: the acting thread by what it guarantees, the
\* others by Interference.
LEMMA InvStep == IInv /\ [Next]_vars => IInv'
<1> SUFFICES ASSUME IInv, [Next]_vars PROVE IInv'
  OBVIOUS
<1>1. TypeOK /\ TypeOK' /\ \A t \in Threads : ThreadInv(t)
  BY TypeStep DEF IInv
<1>2. ASSUME NEW t \in Threads, Frame(t), ThreadInv(t)' PROVE IInv'
  BY <1>1, <1>2, Interference DEF IInv
<1>3. CASE Begins
  BY <1>1, <1>2, <1>3, BeginsKeep
<1>4. ASSUME NEW t \in Threads, Step(t) PROVE IInv'
  BY <1>1, <1>2, <1>4, LoopKeeps, DtorKeeps, ControlKeeps, DataKeeps DEF Step
<1>5. CASE UNCHANGED vars
  <2>1. \A t \in Threads : ThreadInv(t)'
    BY <1>1, <1>5 DEF vars, lockVars, threadVars, ThreadInv, OwnsHardware, OwnsStream,
       OwnsTarget, Snapshot, LeavesStandby, HoldsClaimed, Settled, Target
  <2> QED
    BY <1>1, <2>1 DEF IInv
<1> QED
  BY <1>3, <1>4, <1>5 DEF Next, ClientsDone

\* ClaimedActive, whatever the clients do and whatever fails to open: a stream
\* that setMode(), write() or read() settles on after its "prepare, unlock, lock,
\* recheck" loop is locked by that thread and not in standby.
THEOREM StreamsClaimed == Spec => []ClaimedActive
<1>1. IInv => ClaimedActive
  BY DEF IInv, ThreadInv, HoldsClaimed, ClaimedActive
<1> QED
  BY <1>1, InvInit, InvStep, PTL DEF Spec

-----------------------------------------------------------------------------
(* PeerRegistered: the registry changes with mLock free only, and the thread *)
(* that opens a path owns it since its last look at the registry.          *)

\* Streams are opened and closed with mLock free only.
LEMMA RegistryStep ==
  ASSUME Next
  PROVE  UNCHANGED regVars \/ mLock = None
<1>1. ASSUME NEW t \in Threads, LoopStep(t) \/ DtorStep(t) PROVE UNCHANGED regVars
  BY <1>1 DEF LoopStep, ChaseNone, ChasePrepare, LockStream, RelockSelf, RecheckFound,
     RecheckLost, DtorStep, Drop, DtorLock, DtorHw
<1>2. ASSUME NEW t \in Controls, ControlStep(t) PROVE UNCHANGED regVars
  BY <1>2 DEF ControlStep, ModeHw, CallStarts, CallEnds, ModeOnly, EndMode, FmStep
<1>3. ASSUME NEW s \in Streams, DataStep(s) PROVE UNCHANGED regVars
  BY <1>3 DEF DataStep, LockSelf, ExitStandby, OpenPath, Transfer, StandbyHw, Route,
     StandbyStep, InputSource
<1>4. CASE Begins
  BY <1>4 DEF Begins, Open, Close, SetMode, FmOn, FmOff, BeginFm, BeginIo, BeginStandby,
     BeginRoute, Begin
<1>5. CASE ClientsDone
  BY <1>5 DEF ClientsDone, vars
<1> QED
  BY <1>1, <1>2, <1>3, <1>4, <1>5 DEF Next, Step

\* Only the end of a path loop takes a data thread to "open".
LEMMA ToOpen ==
  ASSUME TypeOK, \A t \in Threads : ThreadInv(t), Next,
         NEW s \in Streams, pc[s] # "open", pc'[s] = "open"
  PROVE  ChaseNone(s) \/ RecheckFound(s)
<1>0. s \in Threads /\ s \notin Controls /\ TypeOK'
  BY TypeStep, ThreadsAssumption DEF Threads, Streams
<1> USE DEF Goto, TypeOK
<1>1. CASE Begins
  BY <1>0, <1>1 DEF Begins, Open, Close, SetMode, FmOn, FmOff, BeginFm, BeginIo,
     BeginStandby, BeginRoute, Begin, threadVars
<1>2. ASSUME NEW t \in Threads \ {s}, Step(t) PROVE FALSE
  <2>1. Frame(t)
    BY <1>0, <1>2, LoopKeeps, DtorKeeps, ControlKeeps, DataKeeps DEF Step
  <2> QED
    BY <1>0, <1>2, <2>1 DEF Frame
<1>3. CASE LoopStep(s)
  BY <1>0, <1>3 DEF LoopStep, ChasePrepare, LockStream, RelockSelf, RecheckLost
<1>4. CASE DtorStep(s)
  BY <1>0, <1>4 DEF DtorStep, Drop, DtorLock, DtorHw
<1>5. CASE DataStep(s)
  <2>1. CASE OpenPath(s)
    BY <2>1 DEF OpenPath
  <2>2. CASE ~OpenPath(s)
    BY <1>0, <1>5, <2>2 DEF DataStep, LockSelf, ExitStandby, Transfer, StandbyHw, Route,
       StandbyStep, InputSource
  <2> QED
    BY <2>1, <2>2
<1>6. CASE ClientsDone
  BY <1>6 DEF ClientsDone, vars, threadVars
<1> QED
  BY <1>0, <1>1, <1>2, <1>3, <1>4, <1>5, <1>6 DEF Next, Step

\* Every step keeps PeerRegistered.
LEMMA PeerStep == IInv /\ PeerRegistered /\ [Next]_vars => PeerRegistered'
<1> SUFFICES ASSUME IInv, PeerRegistered, Next PROVE PeerRegistered'
  <2>1. UNCHANGED vars /\ PeerRegistered => PeerRegistered'
    BY DEF vars, regVars, threadVars, PeerRegistered, Claimed, Registered
  <2> QED
    BY <2>1
<1> SUFFICES ASSUME NEW s \in Streams, pc'[s] = "open", NEW d \in Sides, sp'[s][d] # None
             PROVE  sp'[s][d] = mOutput' \/ sp'[s][d] \in mInputs'
  BY DEF PeerRegistered, Claimed, Registered
<1>0. /\ s \in Threads /\ s # None /\ TypeOK /\ TypeOK' /\ ThreadInv(s) /\ ThreadInv(s)'
      /\ s \notin Controls /\ \A t \in Threads : ThreadInv(t)
  BY TypeStep, InvStep, ThreadsAssumption DEF IInv, Threads, Streams
<1>1. CASE pc[s] = "open"
  <2>1. mLock = s
    BY <1>0, <1>1 DEF ThreadInv, OwnsHardware
  <2>2. UNCHANGED regVars
    BY <1>0, <2>1, RegistryStep
  <2>3. sp'[s] = sp[s]
    <3>1. ASSUME NEW t \in Threads, Step(t), t # s PROVE sp'[s] = sp[s]
      <4>1. Frame(t)
        BY <1>0, <3>1, LoopKeeps, DtorKeeps, ControlKeeps, DataKeeps DEF Step
      <4> QED
        BY <1>0, <3>1, <4>1 DEF Frame
    <3>2. CASE Step(s)
      BY <1>0, <1>1, <3>2 DEF Step, LoopStep, ChaseNone, ChasePrepare, LockStream, RelockSelf,
         RecheckFound, RecheckLost, DtorStep, Drop, DtorLock, DtorHw, DataStep, LockSelf,
         ExitStandby, OpenPath, Transfer, StandbyHw, Route, InputSource, Goto, TypeOK
    <3>3. CASE Begins
      BY <1>0, <2>1, <3>3 DEF Begins, Open, Close, SetMode, FmOn, FmOff, BeginFm, BeginIo,
         BeginStandby, BeginRoute, Begin, threadVars, TypeOK
    <3>4. CASE ClientsDone
      BY <3>4 DEF ClientsDone, vars, threadVars
    <3> QED
      BY <3>1, <3>2, <3>3, <3>4 DEF Next
  <2> QED
    BY <1>1, <2>2, <2>3 DEF PeerRegistered, Claimed, Registered, regVars
<1>2. CASE pc[s] # "open"
  <2>1. ChaseNone(s) \/ RecheckFound(s)
    BY <1>0, <1>2, ToOpen
  <2>2. UNCHANGED regVars /\ UNCHANGED sp
    BY <1>0, <2>1 DEF ChaseNone, RecheckFound, EndLoop
  <2>3. sp[s][d] # None /\ sp[s][d] = Target(s)
    BY <1>0, <2>1, <2>2 DEF ThreadInv, OwnsTarget, Target, Sides, ChaseNone, RecheckFound,
       TypeOK, Streams
  <2>4. Unchanged(s, Target(s))
    BY <2>1, <2>3 DEF ChaseNone, RecheckFound
  <2>5. Registered(Target(s))
    BY <2>3, <2>4 DEF Unchanged, Registered, ActiveInput
  <2> QED
    BY <2>2, <2>3, <2>5 DEF Registered, regVars
<1> QED
  BY <1>1, <1>2

\* PeerRegistered, whatever the clients do: the stream that write() or read()
\* closes and reopens is still registered, so no destructor runs there.
THEOREM PeersStayRegistered == Spec => []PeerRegistered
<1>1. Init => PeerRegistered
  BY DEF Init, PeerRegistered, Threads
<1> QED
  BY <1>1, InvInit, InvStep, PeerStep, PTL DEF Spec

-----------------------------------------------------------------------------
(* LockOrder, for clients that close a stream while no other call is under  *)
(* way: what a thread owns is no more than what its place in the code says. *)

\* The hardware's mutex is owned at these places only ...
HardwareOnly(t) == mLock = t => pc[t] \in {"chase", "apply", "open"}

\* ... a stream's mutex is the thread's own, its target's, or a claimed one ...
StreamsOnly(t) ==
  \A x \in Streams : sLock[x] = t =>
    \/ /\ x = t
       /\ \/ pc[t] \in {"exitStandby", "transfer", "standbyHw", "routeHw",
                        "chase", "recheck", "open"}
          \/ pc[t] = "lock" /\ t \in Outputs
    \/ x = Target(t) /\ pc[t] \in {"relock", "recheck", "dtorHw"}
    \/ \E d \in Sides : Settled(t, d) /\ x = sp[t][d]

\* ... a thread outside the path loops has no strong reference ...
Unreferring(t) ==
  pc[t] \in {"idle", "modeHw", "fmDelay", "fmMixer", "fmFd", "fmOffPcm", "fmOffFd", "ioLock",
             "standbyLock", "routeLock", "exitStandby", "transfer", "standbyHw", "routeHw"}
    => sp[t] = NoRefs

\* ... and one inside them refers to registered streams.
RefsRegistered(t) ==
  pc[t] \notin {"drop", "dtorLock", "dtorHw"} =>
    \A d \in Sides : sp[t][d] # None => Registered(sp[t][d])

Disciplined(t) == HardwareOnly(t) /\ StreamsOnly(t) /\ Unreferring(t) /\ RefsRegistered(t)

LInv == IInv /\ \A t \in Threads : Disciplined(t)

\* A disciplined thread waits for mutexes in the order out -> in -> hw.
LEMMA OrderFromInv == LInv => LockOrder
<1> SUFFICES ASSUME LInv, NEW t \in Threads, NEW s \in Streams, WaitsFor(t, s)
             PROVE  mLock # t /\ (s \in Outputs => \A i \in Inputs : sLock[i] # t)
  BY DEF LockOrder
<1>0. /\ TypeOK /\ ThreadInv(t) /\ HardwareOnly(t) /\ StreamsOnly(t)
      /\ Streams = Outputs \cup Inputs /\ Outputs \cap Inputs = {} /\ Outputs \cap Controls = {}
      /\ None \notin Streams
  BY ThreadsAssumption DEF LInv, IInv, Disciplined, Streams, Threads
<1>1. CASE pc[t] = "lock" /\ Target(t) = s
  <2>1. s \in Outputs => side[t] = "out"
    BY <1>0, <1>1, TargetType DEF Target, Sides
  <2> QED
    BY <1>0, <1>1, <2>1 DEF HardwareOnly, StreamsOnly, Settled
<1>2. CASE pc[t] = "dtorLock"
  BY <1>0, <1>2 DEF HardwareOnly, StreamsOnly, Settled
<1>3. CASE pc[t] = "relock" /\ t = s
  BY <1>0, <1>3 DEF HardwareOnly, ThreadInv, OwnsTarget
<1>4. CASE pc[t] \in {"ioLock", "standbyLock", "routeLock"} /\ t = s
  BY <1>0, <1>4 DEF HardwareOnly, StreamsOnly, Settled
<1> QED
  BY <1>1, <1>2, <1>3, <1>4 DEF WaitsFor, Target

\* A thread whose place, references and locks are as they were.
LEMMA StaysDisciplined ==
  ASSUME NEW u \in Threads, Disciplined(u), u # None,
         pc'[u] = pc[u], side'[u] = side[u], sp'[u] = sp[u],
         mLock' = u => mLock = u,
         \A x \in Streams : sLock'[x] = u => sLock[x] = u,
         \A d \in Sides : sp[u][d] # None /\ Registered(sp[u][d])
           => sp[u][d] = mOutput' \/ sp[u][d] \in mInputs'
  PROVE  Disciplined(u)'
<1>1. Target(u)' = Target(u) /\ \A d \in Sides : Settled(u, d)' = Settled(u, d)
  BY DEF Target, Settled
<1>2. HardwareOnly(u)'
  BY DEF Disciplined, HardwareOnly
<1>3. StreamsOnly(u)'
  BY <1>1 DEF Disciplined, StreamsOnly
<1>4. Unreferring(u)'
  BY DEF Disciplined, Unreferring
<1>5. RefsRegistered(u)'
  BY DEF Disciplined, RefsRegistered, Registered
<1> QED
  BY <1>2, <1>3, <1>4, <1>5 DEF Disciplined

\* A thread that owns no mutex and has no reference.
LEMMA FreeOfLocks ==
  ASSUME NEW t \in Threads, mLock' # t, \A x \in Streams : sLock'[x] # t,
         sp'[t] = NoRefs \/ pc'[t] \in {"drop", "dtorLock"}
  PROVE  Disciplined(t)'
BY DEF Disciplined, HardwareOnly, StreamsOnly, Unreferring, RefsRegistered, NoRefs, Sides

\* What Disciplined says of a thread at these places.
LEMMA Free ==
  ASSUME NEW t \in Threads, Disciplined(t),
         pc[t] \in {"idle", "modeHw", "fmDelay", "fmMixer", "fmFd", "fmOffPcm", "fmOffFd", "ioLock",
                    "standbyLock", "routeLock", "drop", "dtorLock"}
  PROVE  mLock # t /\ \A x \in Streams : sLock[x] # t
BY DEF Disciplined, HardwareOnly, StreamsOnly, Settled

\* A step of t leaves other threads disciplined.
LEMMA OthersDisciplined ==
  ASSUME TypeOK, NEW t \in Threads, NEW u \in Threads \ {t}, Disciplined(u), Frame(t),
         \A d \in Sides : sp[u][d] # None /\ Registered(sp[u][d])
           => sp[u][d] = mOutput' \/ sp[u][d] \in mInputs'
  PROVE  Disciplined(u)'
<1>1. u # None /\ t # u
  BY TargetType
<1>2. /\ pc'[u] = pc[u] /\ side'[u] = side[u] /\ sp'[u] = sp[u]
      /\ mLock' = u => mLock = u
      /\ \A x \in Streams : sLock'[x] = u => sLock[x] = u
  BY <1>1 DEF Frame
<1> QED
  BY <1>1, <1>2, StaysDisciplined

\* The beginning of a call leaves every thread disciplined, when streams are closed
\* only while no other call is under way.
LEMMA BeginsDisciplined ==
  ASSUME LInv, RacyClient = FALSE, Begins, NEW u \in Threads
  PROVE  Disciplined(u)'
<1>0. /\ TypeOK /\ TypeOK' /\ u # None /\ Disciplined(u) /\ \A t \in Threads : Disciplined(t)
      /\ Controls \subseteq Threads /\ Streams \subseteq Threads
  BY TypeBegins, TargetType DEF LInv, IInv, Threads
<1> USE DEF Goto
<1>1. ASSUME NEW t \in Controls, NEW s \in Streams, Open(t, s) PROVE Disciplined(u)'
  <2>1. /\ pc' = pc /\ side' = side /\ sp' = sp /\ mLock' = mLock /\ sLock' = sLock
        /\ mOutput = None \/ mOutput' = mOutput
        /\ mInputs \subseteq mInputs'
    BY <1>1 DEF Open, threadVars, lockVars
  <2> QED
    BY <1>0, <2>1, StaysDisciplined DEF Registered
<1>2. ASSUME NEW t \in Controls, NEW s \in Streams, Close(t, s) PROVE Disciplined(u)'
  <2>1. /\ pc[t] = "idle" /\ \A v \in Threads \ {t} : pc[v] = "idle"
        /\ UNCHANGED <<mLock, sLock, side>>
        /\ pc' = [pc EXCEPT ![t] = "drop"] /\ \A v \in Threads \ {t} : sp'[v] = sp[v]
    BY <1>0, <1>2 DEF Close, AllIdleBut, lockVars, TypeOK
  <2>2. CASE u = t
    BY <1>0, <2>1, <2>2, Free, FreeOfLocks DEF TypeOK
  <2>3. CASE u # t
    <3>1. sp[u] = NoRefs
      BY <1>0, <2>1, <2>3 DEF Disciplined, Unreferring
    <3>2. \A d \in Sides : sp[u][d] = None
      BY <3>1 DEF NoRefs, Sides
    <3>3. pc'[u] = pc[u] /\ side'[u] = side[u] /\ sp'[u] = sp[u]
      BY <2>1, <2>3 DEF TypeOK
    <3> QED
      BY <1>0, <2>1, <3>2, <3>3, StaysDisciplined
  <2> QED
    BY <2>2, <2>3
<1>3. ASSUME NEW t \in Threads, pc[t] = "idle",
             pc'[t] \in {"idle", "modeHw", "fmDelay", "fmMixer", "fmFd", "fmOffPcm", "fmOffFd",
                         "ioLock", "standbyLock", "routeLock"},
             \A v \in Threads \ {t} : pc'[v] = pc[v],
             UNCHANGED <<mLock, sLock, side, sp, regVars>>
      PROVE  Disciplined(u)'
  <2>1. CASE u = t
    <3>1. sp'[t] = NoRefs
      BY <1>0, <1>3 DEF Disciplined, Unreferring
    <3> QED
      BY <1>0, <1>3, <2>1, <3>1, Free, FreeOfLocks
  <2>2. CASE u # t
    BY <1>0, <1>3, <2>2, StaysDisciplined DEF Registered, regVars
  <2> QED
    BY <2>1, <2>2
<1>4. ASSUME NEW t \in Controls, NEW mode \in Modes, SetMode(t, mode) PROVE Disciplined(u)'
  BY <1>0, <1>3, <1>4 DEF SetMode, lockVars, TypeOK
<1>5. ASSUME NEW t \in Controls, FmOn(t) \/ FmOff(t) PROVE Disciplined(u)'
  <2>1. t \in Threads /\ pc[t] = "idle" /\ UNCHANGED <<mLock, sLock, side, sp, regVars>>
    BY <1>0, <1>5 DEF FmOn, FmOff, BeginFm, lockVars
  <2>2. /\ pc'[t] \in {"idle", "fmDelay", "fmMixer", "fmOffPcm", "fmOffFd"}
        /\ \A v \in Threads \ {t} : pc'[v] = pc[v]
    BY <1>0, <1>5, <2>1 DEF FmOn, FmOff, TypeOK
  <2> QED
    BY <1>3, <2>1, <2>2
<1>6. ASSUME NEW s \in Streams, BeginIo(s) \/ BeginStandby(s) \/ BeginRoute(s)
      PROVE  Disciplined(u)'
  <2>1. s \in Threads /\ pc[s] = "idle" /\ UNCHANGED <<mLock, sLock, side, sp, regVars>>
    BY <1>0, <1>6 DEF BeginIo, BeginStandby, BeginRoute, Begin, lockVars
  <2>2. /\ pc'[s] \in {"ioLock", "standbyLock", "routeLock"}
        /\ \A v \in Threads \ {s} : pc'[v] = pc[v]
    BY <1>0, <1>6 DEF BeginIo, BeginStandby, BeginRoute, Begin, TypeOK
  <2> QED
    BY <1>3, <2>1, <2>2
<1> QED
  BY <1>1, <1>2, <1>4, <1>5, <1>6 DEF Begins

\* The end of a path loop leaves its thread disciplined.
LEMMA EndsDisciplined ==
  ASSUME TypeOK, TypeOK', NEW t \in Threads, ThreadInv(t), Disciplined(t),
         EndLoop(t), mLock' = t, UNCHANGED <<sLock, regVars>>,
         \/ pc[t] = "chase" /\ Target(t) = None
         \/ pc[t] = "recheck" /\ Registered(Target(t))
  PROVE  Disciplined(t)'
<1>0. /\ Streams \cap Controls = {} /\ Outputs \cup Inputs = Streams /\ Outputs \cap Inputs = {}
      /\ Threads = Streams \cup Controls /\ side[t] \in Sides /\ None \notin Threads
  BY ThreadsAssumption DEF Threads, Streams, TypeOK
<1>1. \A x \in Streams : sLock[x] = t =>
        \/ x = t
        \/ x = Target(t) /\ pc[t] = "recheck"
        \/ \E d \in Sides : Settled(t, d) /\ x = sp[t][d]
  BY DEF Disciplined, StreamsOnly
<1>2. CASE t \in Controls /\ side[t] = "out"
  <2>1. /\ pc'[t] = "chase" /\ side'[t] = "in"
        /\ sp'[t].in = ActiveInput /\ sp'[t].out = Target(t)
    BY <1>2 DEF EndLoop, Goto, TypeOK, Target
  <2>2. StreamsOnly(t)'
    BY <1>0, <1>1, <1>2, <2>1 DEF StreamsOnly, Settled, Sides
  <2>3. RefsRegistered(t)'
    BY <2>1 DEF RefsRegistered, Registered, ActiveInput, Sides, regVars
  <2> QED
    BY <2>1, <2>2, <2>3 DEF Disciplined, HardwareOnly, Unreferring
<1>3. CASE ~(t \in Controls /\ side[t] = "out")
  <2>1. /\ pc'[t] = (IF t \in Controls THEN "apply" ELSE "open") /\ UNCHANGED <<side, sp>>
    BY <1>3 DEF EndLoop, Goto, TypeOK
  <2>2. StreamsOnly(t)'
    <3> SUFFICES ASSUME NEW x \in Streams, sLock[x] = t
                 PROVE  \/ x = t /\ pc'[t] = "open"
                        \/ \E d \in Sides : Settled(t, d)' /\ x = sp[t][d]
      BY <2>1 DEF StreamsOnly
    <3>1. \A d \in Sides : Settled(t, d)'
      BY <2>1 DEF Settled
    <3>2. CASE x = t
      BY <1>0, <2>1, <3>2
    <3>3. CASE x = Target(t)
      BY <1>0, <3>1, <3>3 DEF Target
    <3> QED
      BY <1>1, <3>1, <3>2, <3>3
  <2>3. RefsRegistered(t)'
    BY <2>1 DEF Disciplined, RefsRegistered, Registered, regVars
  <2> QED
    BY <2>1, <2>2, <2>3 DEF Disciplined, HardwareOnly, Unreferring
<1> QED
  BY <1>2, <1>3

\* So does each step of the loop: a registered target is no last reference.
LEMMA LoopDisciplined ==
  ASSUME TypeOK, TypeOK', NEW t \in Threads, ThreadInv(t), Disciplined(t), LoopStep(t)
  PROVE  Disciplined(t)'
<1>0. /\ Streams \cap Controls = {} /\ Outputs \cup Inputs = Streams /\ Outputs \cap Inputs = {}
      /\ Threads = Streams \cup Controls /\ side[t] \in Sides /\ None \notin Threads
      /\ Target(t) \in Streams \cup {None}
  BY ThreadsAssumption, TargetType DEF Threads, Streams
<1>1. CASE ChaseNone(t)
  BY <1>0, <1>1, EndsDisciplined DEF ChaseNone, lockVars, ThreadInv, OwnsHardware
<1>2. CASE ChasePrepare(t)
  <2>1. /\ pc[t] = "chase" /\ pc'[t] = "lock" /\ mLock' = None
        /\ UNCHANGED <<side, sp, regVars>>
        /\ \A x \in Streams : sLock'[x] = t => sLock[x] = t /\ (t \in Inputs => x # t)
    BY <1>0, <1>2 DEF ChasePrepare, Goto, TypeOK
  <2>2. StreamsOnly(t)'
    BY <1>0, <2>1 DEF Disciplined, StreamsOnly, Settled
  <2>3. RefsRegistered(t)'
    BY <2>1 DEF Disciplined, RefsRegistered, Registered, regVars
  <2> QED
    BY <1>0, <2>1, <2>2, <2>3 DEF Disciplined, HardwareOnly, Unreferring
<1>3. CASE LockStream(t)
  <2>1. /\ pc[t] = "lock" /\ pc'[t] = (IF t \in Inputs THEN "relock" ELSE "recheck")
        /\ UNCHANGED <<mLock, side, sp, regVars>> /\ Target(t)' = Target(t)
        /\ \A x \in Streams \ {Target(t)} : sLock'[x] = sLock[x]
    BY <1>0, <1>3 DEF LockStream, Take, Goto, TypeOK, Target
  <2>2. StreamsOnly(t)'
    BY <1>0, <2>1 DEF Disciplined, StreamsOnly, Settled
  <2>3. RefsRegistered(t)'
    BY <2>1 DEF Disciplined, RefsRegistered, Registered, regVars
  <2> QED
    BY <1>0, <2>1, <2>2, <2>3 DEF Disciplined, HardwareOnly, Unreferring
<1>4. CASE RelockSelf(t)
  <2>1. /\ pc[t] = "relock" /\ pc'[t] = "recheck" /\ t \in Inputs
        /\ UNCHANGED <<mLock, side, sp, regVars>> /\ Target(t)' = Target(t)
        /\ \A x \in Streams \ {t} : sLock'[x] = sLock[x]
    BY <1>0, <1>4 DEF RelockSelf, Take, Goto, TypeOK, Target, ThreadInv, OwnsTarget
  <2>2. StreamsOnly(t)'
    BY <1>0, <2>1 DEF Disciplined, StreamsOnly, Settled
  <2>3. RefsRegistered(t)'
    BY <2>1 DEF Disciplined, RefsRegistered, Registered, regVars
  <2> QED
    BY <1>0, <2>1, <2>2, <2>3 DEF Disciplined, HardwareOnly, Unreferring
<1>5. CASE RecheckFound(t)
  <2>1. Registered(Target(t))
    BY <1>5 DEF RecheckFound, Unchanged, Registered, ActiveInput, ThreadInv, OwnsTarget
  <2> QED
    BY <1>5, <2>1, EndsDisciplined DEF RecheckFound
<1>6. CASE RecheckLost(t)
  <2>1. /\ pc[t] = "recheck" /\ Target(t) \in Streams
        /\ UNCHANGED <<side, regVars>> /\ mLock' = t
        /\ sLock' = [sLock EXCEPT ![Target(t)] = None]
    BY <1>0, <1>6 DEF RecheckLost, ThreadInv, OwnsTarget
  <2>2. Registered(Target(t))
    BY <1>0, <2>1 DEF Disciplined, RefsRegistered, Target
  <2>3. ~LastRef(t, Target(t))
    BY <2>2 DEF LastRef
  <2>4. sp' = [sp EXCEPT ![t][side[t]] = Current(side[t])] /\ pc' = [pc EXCEPT ![t] = "chase"]
    BY <1>6, <2>3 DEF RecheckLost, Goto
  <2>5. /\ pc'[t] = "chase" /\ sp'[t][side[t]] = Current(side[t])
        /\ \A d \in Sides \ {side[t]} : sp'[t][d] = sp[t][d]
    BY <1>0, <2>4 DEF TypeOK, Sides
  <2>6. Current(side[t]) # None => Registered(Current(side[t]))
    BY DEF Current, ActiveInput, ActiveOutput, Registered
  <2>7. RefsRegistered(t)'
    <3> SUFFICES ASSUME NEW d \in Sides, sp'[t][d] # None
                 PROVE  sp'[t][d] = mOutput' \/ sp'[t][d] \in mInputs'
      BY DEF RefsRegistered, Registered
    <3>1. CASE d = side[t]
      BY <2>1, <2>5, <2>6, <3>1 DEF Registered, regVars
    <3>2. CASE d # side[t]
      BY <2>1, <2>5, <3>2 DEF Registered, regVars, Disciplined, RefsRegistered
    <3> QED
      BY <3>1, <3>2
  <2>8. StreamsOnly(t)'
    <3> SUFFICES ASSUME NEW x \in Streams, sLock'[x] = t
                 PROVE  x = t \/ \E d \in Sides : Settled(t, d)' /\ x = sp'[t][d]
      BY <2>5 DEF StreamsOnly
    <3>1. x # Target(t) /\ sLock[x] = t
      BY <1>0, <2>1 DEF TypeOK
    <3>2. CASE x = t
      BY <3>2
    <3>3. ASSUME NEW d \in Sides, Settled(t, d), x = sp[t][d]
          PROVE  Settled(t, d)' /\ x = sp'[t][d]
      BY <2>1, <2>5, <3>3 DEF Settled
    <3> QED
      BY <2>1, <3>1, <3>2, <3>3 DEF Disciplined, StreamsOnly
  <2> QED
    BY <2>1, <2>5, <2>7, <2>8 DEF Disciplined, HardwareOnly, Unreferring
<1> QED
  BY <1>1, <1>2, <1>3, <1>4, <1>5, <1>6 DEF LoopStep

\* So does the end of a closed stream.
LEMMA DtorDisciplined ==
  ASSUME TypeOK, TypeOK', NEW t \in Threads, ThreadInv(t), Disciplined(t), DtorStep(t)
  PROVE  Disciplined(t)'
<1>0. t # None
  BY TargetType
<1>1. CASE Drop(t)
  <2>1. mLock # t /\ \A x \in Streams : sLock[x] # t
    BY <1>1, Free DEF Drop
  <2>2. UNCHANGED <<mLock, sLock>>
    BY <1>1 DEF Drop, lockVars
  <2>3. sp'[t] = NoRefs \/ pc'[t] = "dtorLock"
    BY <1>1 DEF Drop, ForgetLocals, Goto, TypeOK
  <2> QED
    BY <2>1, <2>2, <2>3, FreeOfLocks
<1>2. CASE DtorLock(t)
  <2>1. mLock # t /\ \A x \in Streams : sLock[x] # t
    BY <1>2, Free DEF DtorLock
  <2>2. /\ pc'[t] = "dtorHw" /\ Target(t)' = Target(t) /\ mLock' = mLock
        /\ \A x \in Streams \ {Target(t)} : sLock'[x] = sLock[x]
    BY <1>2 DEF DtorLock, Take, Goto, TypeOK, Target
  <2> QED
    BY <2>1, <2>2 DEF Disciplined, HardwareOnly, StreamsOnly, Unreferring, RefsRegistered
<1>3. CASE DtorHw(t)
  <2>1. /\ pc[t] = "dtorHw" /\ pc'[t] = "drop" /\ mLock' # t
        /\ sLock' = [sLock EXCEPT ![Target(t)] = None]
    BY <1>0, <1>3 DEF DtorHw, Goto, TypeOK
  <2>2. \A x \in Streams : sLock[x] = t => x = Target(t)
    BY <2>1 DEF Disciplined, StreamsOnly, Settled
  <2>3. \A x \in Streams : sLock'[x] # t
    BY <1>0, <2>1, <2>2 DEF TypeOK
  <2> QED
    BY <2>1, <2>3, FreeOfLocks
<1> QED
  BY <1>1, <1>2, <1>3 DEF DtorStep

\* So do setMode() and the FM radio calls.
LEMMA ControlDisciplined ==
  ASSUME TypeOK, TypeOK', NEW t \in Controls, ThreadInv(t), Disciplined(t), ControlStep(t)
  PROVE  Disciplined(t)'
<1>0. t \in Threads /\ t # None /\ t \notin Streams
  BY ThreadsAssumption DEF Threads
<1>1. CASE ModeHw(t)
  <2>1. mLock # t /\ (\A x \in Streams : sLock[x] # t) /\ sp[t] = NoRefs
    BY <1>0, <1>1, Free DEF ModeHw, Disciplined, Unreferring
  <2>2. /\ pc'[t] = "chase" /\ side'[t] = "out" /\ UNCHANGED <<sLock, regVars>>
        /\ sp'[t].out = ActiveOutput /\ sp'[t].in = None
    BY <1>0, <1>1, <2>1 DEF ModeHw, Goto, TypeOK, NoRefs
  <2>3. RefsRegistered(t)'
    BY <2>2 DEF RefsRegistered, Registered, ActiveOutput, Sides, regVars
  <2> QED
    BY <2>1, <2>2, <2>3 DEF Disciplined, HardwareOnly, StreamsOnly, Unreferring
<1>2. CASE CallStarts(t) \/ CallEnds(t) \/ ModeOnly(t)
  <2>1. pc[t] = "apply" /\ EndMode(t)
    BY <1>2 DEF CallStarts, CallEnds, ModeOnly
  <2>2. \A x \in Streams : sLock[x] = t => x \in Claimed(t)
    <3> SUFFICES ASSUME NEW x \in Streams, sLock[x] = t PROVE x \in Claimed(t)
      OBVIOUS
    <3>1. PICK d \in Sides : x = sp[t][d]
      BY <1>0, <2>1 DEF Disciplined, StreamsOnly
    <3>2. x # None
      BY TargetType, <1>0
    <3> QED
      BY <3>1, <3>2 DEF Claimed
  <2>3. mLock' # t /\ \A x \in Streams : sLock'[x] # t
    BY <1>0, <2>1, <2>2 DEF EndMode
  <2>4. pc'[t] = "drop"
    BY <1>0, <2>1 DEF EndMode, Goto, TypeOK
  <2> QED
    BY <1>0, <2>3, <2>4, FreeOfLocks
<1>3. CASE FmStep(t)
  <2>1. mLock # t /\ (\A x \in Streams : sLock[x] # t) /\ sp[t] = NoRefs
    BY <1>0, <1>3, Free DEF FmStep, Disciplined, Unreferring
  <2>2. UNCHANGED <<mLock, sLock, sp>>
    BY <1>3 DEF FmStep, lockVars
  <2> QED
    BY <1>0, <2>1, <2>2, FreeOfLocks
<1> QED
  BY <1>1, <1>2, <1>3 DEF ControlStep

\* So do the calls of data threads.
LEMMA DataDisciplined ==
  ASSUME TypeOK, TypeOK', NEW s \in Streams, ThreadInv(s), Disciplined(s), DataStep(s)
  PROVE  Disciplined(s)'
<1>0. s \in Threads /\ s # None /\ s \notin Controls
  BY ThreadsAssumption DEF Threads
<1> USE DEF Goto
<1>1. CASE LockSelf(s)
  <2>1. mLock # s /\ (\A x \in Streams : sLock[x] # s) /\ sp[s] = NoRefs
    BY <1>0, <1>1, Free DEF LockSelf, Disciplined, Unreferring
  <2>2. /\ pc'[s] \in {"exitStandby", "transfer", "standbyHw", "routeHw"}
        /\ UNCHANGED <<mLock, sp>>
        /\ \A x \in Streams \ {s} : sLock'[x] = sLock[x]
    BY <1>0, <1>1 DEF LockSelf, Take, TypeOK
  <2> QED
    BY <2>1, <2>2 DEF Disciplined, HardwareOnly, StreamsOnly, Unreferring, RefsRegistered,
       NoRefs, Sides
<1>2. ASSUME pc[s] \in {"exitStandby", "transfer", "standbyHw", "routeHw"}
      PROVE  /\ mLock # s /\ sp[s] = NoRefs
             /\ \A x \in Streams : sLock[x] = s => x = s
  BY <1>0, <1>2 DEF Disciplined, HardwareOnly, StreamsOnly, Unreferring, Settled
<1>3. CASE ExitStandby(s)
  <2> DEFINE d == IF s \in Outputs THEN "in" ELSE "out"
  <2>1. /\ pc[s] = "exitStandby" /\ pc'[s] = "chase" /\ UNCHANGED <<sLock, regVars>>
        /\ sp'[s][d] = Current(d) /\ \A e \in Sides \ {d} : sp'[s][e] = sp[s][e]
    BY <1>0, <1>3 DEF ExitStandby, TypeOK, Sides
  <2>2. Current(d) # None => Registered(Current(d))
    BY DEF Current, ActiveInput, ActiveOutput, Registered
  <2>3. \A e \in Sides : sp[s][e] = None
    BY <1>2, <2>1 DEF NoRefs, Sides
  <2>4. RefsRegistered(s)'
    <3> SUFFICES ASSUME NEW e \in Sides, sp'[s][e] # None
                 PROVE  sp'[s][e] = mOutput' \/ sp'[s][e] \in mInputs'
      BY DEF RefsRegistered, Registered
    <3>1. e = d
      BY <2>1, <2>3
    <3> QED
      BY <2>1, <2>2, <3>1 DEF Registered, regVars
  <2> QED
    BY <1>2, <2>1, <2>4 DEF Disciplined, HardwareOnly, StreamsOnly, Unreferring
<1>4. CASE OpenPath(s)
  <2>1. PICK ok \in [Opens -> OpenResults] :
          /\ sLock' = [x \in Streams |->
               IF x \in Claimed(s) \/ (x = s /\ ~Reopened(s, s, ok).mPcm) THEN None ELSE sLock[x]]
          /\ pc' = [pc EXCEPT ![s] = IF Reopened(s, s, ok).mPcm THEN "transfer" ELSE "standbyLock"]
    BY <1>4 DEF OpenPath
  <2>2. pc[s] = "open" /\ mLock' = None /\ sp'[s] = NoRefs
    BY <1>0, <1>4 DEF OpenPath, ForgetLocals, TypeOK
  <2>3. \A x \in Streams : sLock[x] = s => x = s \/ x \in Claimed(s)
    <3> SUFFICES ASSUME NEW x \in Streams, sLock[x] = s, x # s PROVE x \in Claimed(s)
      OBVIOUS
    <3>1. PICK d \in Sides : x = sp[s][d]
      BY <1>0, <2>2 DEF Disciplined, StreamsOnly
    <3>2. x # None
      BY TargetType, <1>0
    <3> QED
      BY <3>1, <3>2 DEF Claimed
  <2>4. CASE Reopened(s, s, ok).mPcm
    <3>1. pc'[s] = "transfer" /\ \A x \in Streams : sLock'[x] = s => x = s
      BY <1>0, <2>1, <2>3, <2>4 DEF TypeOK
    <3> QED
      BY <1>0, <2>2, <3>1 DEF Disciplined, HardwareOnly, StreamsOnly, Unreferring,
         RefsRegistered, NoRefs, Sides
  <2>5. CASE ~Reopened(s, s, ok).mPcm
    <3>1. \A x \in Streams : sLock'[x] # s
      BY <1>0, <2>1, <2>3, <2>5
    <3> QED
      BY <1>0, <2>2, <3>1, FreeOfLocks
  <2> QED
    BY <2>4, <2>5
<1>5. ASSUME pc[s] \in {"transfer", "standbyHw", "routeHw"},
             sLock' = [sLock EXCEPT ![s] = None], UNCHANGED <<mLock, sp>>
      PROVE  Disciplined(s)'
  <2>1. mLock' # s /\ sp'[s] = NoRefs /\ \A x \in Streams : sLock'[x] # s
    BY <1>0, <1>2, <1>5 DEF TypeOK
  <2> QED
    BY <1>0, <2>1, FreeOfLocks
<1>6. CASE Transfer(s) \/ StandbyHw(s) \/ Route(s) \/ InputSource(s)
  BY <1>5, <1>6 DEF Transfer, StandbyHw, Route, StandbyStep, InputSource
<1> QED
  BY <1>1, <1>3, <1>4, <1>6 DEF DataStep

\* Every thread is disciplined at the start.
LEMMA LInvInit == Init => LInv
<1> SUFFICES ASSUME Init, NEW t \in Threads PROVE Disciplined(t)
  BY InvInit DEF LInv
<1>1. pc[t] = "idle" /\ sp[t] = NoRefs /\ mLock = None /\ sLock = [s \in Streams |-> None]
      /\ t # None
  BY ThreadsAssumption DEF Init
<1> QED
  BY <1>1 DEF Disciplined, HardwareOnly, StreamsOnly, Unreferring, RefsRegistered, NoRefs, Sides

\* Every step leaves every thread disciplined.
LEMMA LInvStep == RacyClient = FALSE /\ LInv /\ [Next]_vars => LInv'
<1> SUFFICES ASSUME RacyClient = FALSE, LInv, [Next]_vars PROVE LInv'
  OBVIOUS
<1>1. IInv' /\ TypeOK /\ TypeOK' /\ \A t \in Threads : ThreadInv(t) /\ Disciplined(t)
  BY InvStep DEF LInv, IInv
<1>2. CASE Begins
  BY <1>1, <1>2, BeginsDisciplined DEF LInv
<1>3. ASSUME NEW t \in Threads, Step(t) PROVE LInv'
  <2>1. Frame(t)
    BY <1>1, <1>3, LoopKeeps, DtorKeeps, ControlKeeps, DataKeeps DEF Step
  <2>2. Disciplined(t)'
    BY <1>1, <1>3, LoopDisciplined, DtorDisciplined, ControlDisciplined, DataDisciplined DEF Step
  <2>3. UNCHANGED regVars
    BY <1>3 DEF Step, LoopStep, ChaseNone, ChasePrepare, LockStream, RelockSelf, RecheckFound,
       RecheckLost, DtorStep, Drop, DtorLock, DtorHw, ControlStep, ModeHw, CallStarts, CallEnds,
       ModeOnly, EndMode, FmStep, DataStep, LockSelf, ExitStandby, OpenPath, Transfer, StandbyHw,
       Route, StandbyStep, InputSource
  <2>4. ASSUME NEW u \in Threads \ {t} PROVE Disciplined(u)'
    BY <1>1, <2>1, <2>3, OthersDisciplined DEF Registered, regVars
  <2> QED
    BY <1>1, <2>2, <2>4 DEF LInv
<1>4. CASE UNCHANGED vars
  <2>1. ASSUME NEW u \in Threads PROVE Disciplined(u)'
    BY <1>1, <1>4, TargetType, StaysDisciplined DEF vars, lockVars, threadVars, regVars, Registered
  <2> QED
    BY <1>1, <2>1 DEF LInv
<1> QED
  BY <1>2, <1>3, <1>4 DEF Next, ClientsDone

\* LockOrder, for clients that close a stream only while no other call is under
\* way: "Mutex acquisition order is always out -> in -> hw".
THEOREM LocksInOrder ==
  ASSUME RacyClient = FALSE
  PROVE  Spec => []LockOrder
<1>1. LInv /\ [Next]_vars => LInv'
  BY LInvStep
<1> QED
  BY <1>1, LInvInit, OrderFromInv, PTL DEF Spec

=============================================================================
