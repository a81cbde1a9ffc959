------------------------ MODULE AudioResourceProofs ------------------------
(**************************************************************************)
(* More about the audio HAL, on top of AudioHardwareProofs: the path of a *)
(* call, the delayed FM radio, the sleep requests, the reference counts   *)
(* of the PCM and the mixer, and the wake locks, for any number of        *)
(* streams, threads and calls.  Where the code needs a hypothesis on the  *)
(* constants, the theorem states it.                                      *)
(**************************************************************************)
EXTENDS AudioHardwareProofs, FiniteSetTheorems

-----------------------------------------------------------------------------
(* The FM radio and the path of a call.                                    *)

\* Only setMode() changes the mode, and only setMode() and the radio calls the
\* radio's state.
LEMMA ModeStep ==
  ASSUME Next
  PROVE  \/ UNCHANGED <<mMode, fm>>
         \/ \E t \in Controls :
              FmOn(t) \/ FmStep(t) \/ CallStarts(t) \/ CallEnds(t) \/ ModeOnly(t)
<1>1. ASSUME NEW t \in Threads, LoopStep(t) \/ DtorStep(t) PROVE UNCHANGED <<mMode, fm>>
  BY <1>1 DEF LoopStep, ChaseNone, ChasePrepare, LockStream, RelockSelf, RecheckFound,
     RecheckLost, DtorStep, Drop, DtorLock, DtorHw, devVars
<1>2. ASSUME NEW t \in Controls, ControlStep(t)
      PROVE  \/ UNCHANGED <<mMode, fm>>
             \/ FmStep(t) \/ CallStarts(t) \/ CallEnds(t) \/ ModeOnly(t)
  BY <1>2 DEF ControlStep, ModeHw, devVars
<1>3. ASSUME NEW s \in Streams, DataStep(s) PROVE UNCHANGED <<mMode, fm>>
  BY <1>3 DEF DataStep, LockSelf, ExitStandby, OpenPath, Transfer, StandbyHw, Route,
     StandbyStep, InputSource, devVars
<1>4. CASE Begins
  BY <1>4 DEF Begins, Open, Close, SetMode, FmOff, BeginFm, BeginIo, BeginStandby, BeginRoute,
     Begin, devVars
<1>5. CASE ClientsDone
  BY <1>5 DEF ClientsDone, vars, devVars
<1> QED
  BY <1>1, <1>2, <1>3, <1>4, <1>5 DEF Next, Step

\* The delayed enableFMRadio() at the end of setMode() is not delayed again.
LEMMA ResumeEnds ==
  ASSUME NEW h, NEW p, ResumeFm(h, p), TypeOK
  PROVE  ~fm'.mFmResumeAfterCall
<1>1. CASE fm.mFmResumeAfterCall
  BY <1>1 DEF ResumeFm
<1>2. CASE ~fm.mFmResumeAfterCall
  BY <1>2 DEF ResumeFm
<1> QED
  BY <1>1, <1>2

\* The client makes its setMode() and radio calls one at a time, or does not use
\* the radio.  enableFMRadio() reads mMode without a mutex: a call that starts
\* between its steps would lose its path to the radio, and one that ends there
\* would leave the radio waiting for it.
OneCaller == FmCalls = 0 \/ \A t, u \in Controls : t = u

\* Then what enableFMRadio() has seen of the mode still holds: no call starts
\* before it selects its path, none ends before it sets the flag.
RadioOutsideCall ==
  \A t \in Controls :
    pc[t] \in {"fmMixer", "fmDelay"} =>
      FmCalls # 0 /\ (pc[t] = "fmDelay" <=> mMode = "IN_CALL")

\* Only enableFMRadio()'s look at the mode leads to these two points.
LEMMA ToRadio ==
  ASSUME TypeOK, Next, NEW u \in Controls, NEW q \in {"fmMixer", "fmDelay"}, pc'[u] = q
  PROVE  pc[u] = q \/ (FmOn(u) /\ (q = "fmDelay" <=> mMode = "IN_CALL"))
<1>0. u \in Threads /\ u \notin Streams /\ Streams \subseteq Threads /\ Controls \subseteq Threads
  BY ThreadsAssumption DEF Threads, Streams
<1> USE DEF Goto, TypeOK
<1>1. ASSUME NEW t \in Threads, LoopStep(t) PROVE pc[u] = q
  BY <1>0, <1>1 DEF LoopStep, ChaseNone, ChasePrepare, LockStream, RelockSelf, RecheckFound,
     RecheckLost, EndLoop
<1>2. ASSUME NEW t \in Threads, DtorStep(t) PROVE pc[u] = q
  BY <1>0, <1>2 DEF DtorStep, Drop, DtorLock, DtorHw
<1>3. ASSUME NEW t \in Controls, ControlStep(t) PROVE pc[u] = q
  BY <1>0, <1>3 DEF ControlStep, ModeHw, CallStarts, CallEnds, ModeOnly, EndMode, FmStep
<1>4. ASSUME NEW s \in Streams, DataStep(s) PROVE pc[u] = q
  <2>1. pc'[u] = pc[u]
    BY <1>0, <1>4 DEF DataStep, LockSelf, ExitStandby, OpenPath, Transfer, StandbyHw, Route,
       StandbyStep, InputSource
  <2> QED
    BY <2>1
<1>5. CASE Begins
  <2>1. ASSUME NEW t \in Controls, FmOn(t)
        PROVE  pc[u] = q \/ (FmOn(u) /\ (q = "fmDelay" <=> mMode = "IN_CALL"))
    BY <1>0, <2>1 DEF FmOn
  <2>2. ASSUME NEW t \in Controls, FmOff(t) PROVE pc[u] = q
    BY <1>0, <2>2 DEF FmOff
  <2>3. CASE ~\E t \in Controls : FmOn(t) \/ FmOff(t)
    BY <1>0, <1>5, <2>3 DEF Begins, Open, Close, SetMode, BeginIo, BeginStandby, BeginRoute,
       Begin, threadVars
  <2> QED
    BY <2>1, <2>2, <2>3
<1>6. CASE ClientsDone
  BY <1>6 DEF ClientsDone, vars, threadVars
<1> QED
  BY <1>1, <1>2, <1>3, <1>4, <1>5, <1>6 DEF Next, Step

\* Every step keeps RadioOutsideCall: with one caller, no setMode() ends while a
\* radio call is between its steps.
LEMMA RadioStep ==
  ASSUME OneCaller, TypeOK, RadioOutsideCall, [Next]_vars
  PROVE  RadioOutsideCall'
<1>1. CASE UNCHANGED vars
  BY <1>1 DEF vars, devVars, threadVars, RadioOutsideCall
<1>2. CASE Next
  <2> SUFFICES ASSUME NEW u \in Controls, NEW q \in {"fmMixer", "fmDelay"}, pc'[u] = q
               PROVE  FmCalls # 0 /\ (q = "fmDelay" <=> mMode' = "IN_CALL")
    BY DEF RadioOutsideCall
  <2>1. CASE FmOn(u) /\ (q = "fmDelay" <=> mMode = "IN_CALL")
    BY <2>1, BoundsAssumption DEF FmOn, BeginFm, TypeOK
  <2>2. CASE pc[u] = q
    <3>1. FmCalls # 0 /\ (q = "fmDelay" <=> mMode = "IN_CALL") /\ \A t \in Controls : t = u
      BY <2>2 DEF RadioOutsideCall, OneCaller
    <3>2. ASSUME NEW t \in Controls, CallStarts(t) \/ CallEnds(t) \/ ModeOnly(t) PROVE FALSE
      BY <2>2, <3>1, <3>2 DEF CallStarts, CallEnds, ModeOnly
    <3>3. ASSUME NEW t \in Controls, FmOn(t) \/ FmStep(t) PROVE mMode' = mMode
      BY <3>3 DEF FmOn, BeginFm, FmStep
    <3> QED
      BY <1>2, <3>1, <3>2, <3>3, ModeStep
  <2> QED
    BY <1>2, <2>1, <2>2, ToRadio
<1> QED
  BY <1>1, <1>2

\* FmNotForgotten: a radio turned on during a call is resumed by the setMode()
\* that ends the call, whatever fails to open, when setMode() and the radio calls
\* come one at a time: enableFMRadio() holds no mutex between its look at the mode
\* and the flag, and a setMode() that ends the call in between forgets the radio.
THEOREM RadioRemembered == ASSUME OneCaller PROVE Spec => []FmNotForgotten
<1> DEFINE RadioInv == RadioOutsideCall /\ FmNotForgotten
<1>1. Init => RadioInv
  BY DEF Init, FmNotForgotten, RadioOutsideCall, Threads
<1>2. ASSUME TypeOK, RadioInv, [Next]_vars PROVE FmNotForgotten'
  <2>1. CASE UNCHANGED <<mMode, fm>>
    BY <1>2, <2>1 DEF FmNotForgotten
  <2>2. ASSUME NEW t \in Controls, FmOn(t) PROVE FmNotForgotten'
    BY <1>2, <2>2 DEF FmOn, BeginFm, FmNotForgotten
  <2>3. ASSUME NEW t \in Controls, FmStep(t) PROVE FmNotForgotten'
    <3>1. mMode' = mMode
      BY <2>3 DEF FmStep
    <3>2. fm'.mFmResumeAfterCall => fm.mFmResumeAfterCall \/ pc[t] = "fmDelay"
      BY <1>2, <2>3 DEF FmStep, TypeOK
    <3> QED
      BY <1>2, <3>1, <3>2 DEF FmNotForgotten, RadioOutsideCall
  <2>4. ASSUME NEW t \in Controls, CallStarts(t) PROVE FmNotForgotten'
    BY <2>4 DEF CallStarts, FmNotForgotten
  <2>5. ASSUME NEW t \in Controls, CallEnds(t) PROVE FmNotForgotten'
    BY <1>2, <2>5, ResumeEnds DEF CallEnds, FmNotForgotten
  <2>6. ASSUME NEW t \in Controls, ModeOnly(t) PROVE FmNotForgotten'
    BY <1>2, <2>6, ResumeEnds DEF ModeOnly, FmNotForgotten
  <2>7. UNCHANGED vars => UNCHANGED <<mMode, fm>>
    BY DEF vars, devVars
  <2> QED
    BY <1>2, <2>1, <2>2, <2>3, <2>4, <2>5, <2>6, <2>7, ModeStep
<1>3. TypeOK /\ RadioInv /\ [Next]_vars => RadioInv'
  BY <1>2, RadioStep
<1>4. RadioInv => FmNotForgotten
  OBVIOUS
<1> QED
  BY <1>1, <1>3, <1>4, TypeCorrect, PTL DEF Spec

\* In a call, the path changes to the voice path only, where the radio does not
\* select its own.
LEMMA PathStep ==
  ASSUME TypeOK, RadioOutsideCall, [Next]_vars, mMode = "IN_CALL", mMode' = "IN_CALL"
  PROVE  path' = path \/ path' = "voice"
<1>1. ASSUME NEW t \in Threads, LoopStep(t) PROVE path' = path
  BY <1>1 DEF LoopStep, ChaseNone, ChasePrepare, LockStream, RelockSelf, RecheckFound,
     RecheckLost, devVars
<1>2. ASSUME NEW t \in Threads, DtorStep(t) PROVE path' = path
  BY <1>2 DEF DtorStep, Drop, DtorLock, DtorHw, devVars, PathAfterClose
<1>3. ASSUME NEW t \in Controls, ControlStep(t) PROVE path' = path
  <2>1. CASE ModeHw(t) \/ CallStarts(t) \/ CallEnds(t) \/ ModeOnly(t)
    BY <2>1 DEF ModeHw, CallStarts, CallEnds, ModeOnly, devVars
  <2>2. CASE FmStep(t)
    BY <2>2 DEF FmStep, RadioOutsideCall
  <2> QED
    BY <1>3, <2>1, <2>2 DEF ControlStep
<1>4. ASSUME NEW s \in Streams, DataStep(s) PROVE path' = path \/ path' = "voice"
  <2>1. CASE OpenPath(s)
    <3>1. PICK ok \in [Opens -> OpenResults] :
            LET played == /\ PathOut(s) # None /\ Reopened(s, PathOut(s), ok).mPcm
                          /\ mMode # "IN_CALL"
                closed == PathAfterClose(Claimed(s), mMode)
            IN  path' = IF played THEN Select("playback", OutOpened(s, ok), closed) ELSE closed
      BY <2>1 DEF OpenPath
    <3>2. path' = PathAfterClose(Claimed(s), mMode)
      BY <3>1
    <3> QED
      BY <3>2 DEF PathAfterClose
  <2>2. CASE Route(s)
    BY <2>2 DEF Route, PathAfterClose, Select
  <2>3. CASE StandbyHw(s)
    BY <2>3 DEF StandbyHw, PathAfterClose
  <2>4. CASE LockSelf(s) \/ ExitStandby(s) \/ Transfer(s) \/ InputSource(s)
    BY <2>4 DEF LockSelf, ExitStandby, Transfer, InputSource, devVars
  <2> QED
    BY <1>4, <2>1, <2>2, <2>3, <2>4 DEF DataStep
<1>5. CASE Begins
  BY <1>5 DEF Begins, Open, Close, SetMode, FmOn, FmOff, BeginFm, BeginIo, BeginStandby,
     BeginRoute, Begin, devVars
<1>6. CASE UNCHANGED vars
  BY <1>6 DEF vars, devVars
<1> QED
  BY <1>1, <1>2, <1>3, <1>4, <1>5, <1>6 DEF Next, Step, ClientsDone

\* The radio is off its path at the start.
LEMMA RadioInit == Init => RadioOutsideCall
BY ThreadsAssumption DEF Init, RadioOutsideCall, Threads

\* CallPathKept, for one caller: once the voice path is selected, nothing that is
\* opened, closed, routed or put in standby takes it away before the call ends.
THEOREM VoiceStays ==
  ASSUME OneCaller
  PROVE  Spec => CallPathKept
<1>1. TypeOK /\ RadioOutsideCall /\ [Next]_vars => RadioOutsideCall'
  BY RadioStep
<1>2. TypeOK /\ RadioOutsideCall /\ [Next]_vars =>
        [mMode = "IN_CALL" /\ mMode' = "IN_CALL" /\ path = "voice" => path' = "voice"]_vars
  BY PathStep
<1> QED
  BY <1>1, <1>2, RadioInit, TypeCorrect, PTL DEF Spec, CallPathKept

\* FmDelayed, for one caller: "Call is active.  Delaying FM enable".
THEOREM RadioDelayed ==
  ASSUME OneCaller
  PROVE  Spec => FmDelayed
<1>1. TypeOK /\ RadioOutsideCall /\ [Next]_vars => RadioOutsideCall'
  BY RadioStep
<1>2. TypeOK /\ RadioOutsideCall /\ [Next]_vars =>
        [mMode = "IN_CALL" /\ mMode' = "IN_CALL" /\ path # "fm" => path' # "fm"]_vars
  BY PathStep
<1> QED
  BY <1>1, <1>2, RadioInit, TypeCorrect, PTL DEF Spec, FmDelayed

-----------------------------------------------------------------------------
(* Sleep requests: mSleepReq is set by prepareLock() and cleared by lock(). *)

\* A thread waits for the mutex of a stream that is not its own.
LEMMA TargetIsOther ==
  ASSUME TypeOK, NEW t \in Threads, ThreadInv(t), Target(t) # None
  PROVE  Target(t) \in Streams \ {t}
BY TargetType DEF ThreadInv, OwnsTarget, Target, Sides, Streams, TypeOK

\* A step of another thread, or one that leaves the requests alone and is not
\* the one that stops waiting, keeps a request and the thread behind it.
LEMMA SleepersStay ==
  ASSUME SleepRequested, NEW t \in Threads, Frame(t), UNCHANGED mSleepReq, pc[t] # "lock"
  PROVE  SleepRequested'
<1> SUFFICES ASSUME NEW s \in Streams, mSleepReq[s]
             PROVE  \E u \in Threads \ {s} : pc'[u] = "lock" /\ sp'[u][side'[u]] = s
  BY DEF SleepRequested, Target
<1>1. PICK u \in Threads \ {s} : pc[u] = "lock" /\ sp[u][side[u]] = s
  BY DEF SleepRequested, Target
<1>2. pc'[u] = pc[u] /\ side'[u] = side[u] /\ sp'[u] = sp[u]
  BY <1>1 DEF Frame
<1> QED
  BY <1>1, <1>2

\* prepareLock(): the request it sets is its own thread's, which waits from now on.
LEMMA PrepareAsks ==
  ASSUME TypeOK, SleepRequested, NEW t \in Threads, ThreadInv(t), Frame(t), ChasePrepare(t)
  PROVE  SleepRequested'
<1>1. Target(t) \in Streams \ {t}
  BY TargetIsOther DEF ChasePrepare
<1>2. /\ pc[t] = "chase" /\ pc'[t] = "lock" /\ sp'[t][side'[t]] = Target(t)
      /\ \A s \in Streams : mSleepReq'[s] => s = Target(t) \/ mSleepReq[s]
  BY DEF ChasePrepare, Goto, TypeOK, Target
<1> SUFFICES ASSUME NEW s \in Streams, mSleepReq'[s]
             PROVE  \E u \in Threads \ {s} : pc'[u] = "lock" /\ sp'[u][side'[u]] = s
  BY DEF SleepRequested, Target
<1>3. CASE s = Target(t)
  BY <1>1, <1>2, <1>3
<1>4. CASE s # Target(t)
  <2>1. PICK u \in Threads \ {s} : pc[u] = "lock" /\ sp[u][side[u]] = s
    BY <1>2, <1>4 DEF SleepRequested, Target
  <2>2. pc'[u] = pc[u] /\ side'[u] = side[u] /\ sp'[u] = sp[u]
    BY <1>2, <2>1 DEF Frame
  <2> QED
    BY <2>1, <2>2
<1> QED
  BY <1>3, <1>4

\* lock(): the thread that stops waiting clears the request.
LEMMA LockAnswers ==
  ASSUME TypeOK, SleepRequested, NEW t \in Threads, Frame(t), LockStream(t)
  PROVE  SleepRequested'
<1>1. \A s \in Streams : mSleepReq'[s] => s # Target(t) /\ mSleepReq[s]
  BY DEF LockStream, TypeOK
<1> SUFFICES ASSUME NEW s \in Streams, mSleepReq'[s]
             PROVE  \E u \in Threads \ {s} : pc'[u] = "lock" /\ sp'[u][side'[u]] = s
  BY DEF SleepRequested, Target
<1>2. PICK u \in Threads \ {s} : pc[u] = "lock" /\ sp[u][side[u]] = s
  BY <1>1 DEF SleepRequested, Target
<1>3. u # t
  BY <1>1, <1>2 DEF Target
<1>4. pc'[u] = pc[u] /\ side'[u] = side[u] /\ sp'[u] = sp[u]
  BY <1>2, <1>3 DEF Frame
<1> QED
  BY <1>2, <1>4

\* No other step touches the requests, or ends a wait.
LEMMA SleepStep == IInv /\ SleepRequested /\ [Next]_vars => SleepRequested'
<1> SUFFICES ASSUME IInv, SleepRequested, [Next]_vars PROVE SleepRequested'
  OBVIOUS
<1>0. TypeOK /\ TypeOK' /\ \A t \in Threads : ThreadInv(t)
  BY TypeStep DEF IInv
<1>1. CASE Begins
  <2>1. UNCHANGED mSleepReq
    BY <1>1 DEF Begins, Open, Close, SetMode, FmOn, FmOff, BeginFm, BeginIo, BeginStandby,
       BeginRoute, Begin, lockVars
  <2>2. ASSUME NEW t \in Threads, pc[t] = "lock" PROVE UNCHANGED <<pc[t], side[t], sp[t]>>
    BY <1>0, <1>1, <2>2 DEF Begins, Open, Close, SetMode, FmOn, FmOff, BeginFm, BeginIo,
       BeginStandby, BeginRoute, Begin, threadVars, Goto, TypeOK
  <2> QED
    BY <2>1, <2>2 DEF SleepRequested, Target
<1>2. ASSUME NEW t \in Threads, Step(t), ~ChasePrepare(t), ~LockStream(t)
      PROVE  pc[t] # "lock" /\ UNCHANGED mSleepReq
  <2>1. CASE LoopStep(t)
    BY <1>2, <2>1 DEF LoopStep, ChaseNone, RelockSelf, RecheckFound, RecheckLost, lockVars
  <2>2. CASE DtorStep(t)
    BY <2>2 DEF DtorStep, Drop, DtorLock, DtorHw, lockVars
  <2>3. CASE t \in Controls /\ ControlStep(t)
    BY <2>3 DEF ControlStep, ModeHw, CallStarts, CallEnds, ModeOnly, EndMode, FmStep, lockVars
  <2>4. CASE t \in Streams /\ DataStep(t)
    BY <2>4 DEF DataStep, LockSelf, ExitStandby, OpenPath, Transfer, StandbyHw, Route,
       StandbyStep, InputSource, lockVars
  <2> QED
    BY <1>2, <2>1, <2>2, <2>3, <2>4 DEF Step
<1>3. ASSUME NEW t \in Threads, Step(t) PROVE SleepRequested'
  <2>1. Frame(t)
    BY <1>0, <1>3, LoopKeeps, DtorKeeps, ControlKeeps, DataKeeps DEF Step
  <2> QED
    BY <1>0, <1>2, <1>3, <2>1, SleepersStay, PrepareAsks, LockAnswers
<1>4. CASE UNCHANGED vars
  BY <1>4 DEF vars, lockVars, threadVars, SleepRequested, Target
<1> QED
  BY <1>1, <1>3, <1>4 DEF Next, ClientsDone

\* SleepRequested, whatever the clients do and whatever fails to open: the data
\* thread that write() or read() puts to sleep is one that another thread waits
\* for, so it does not sleep for nothing.
THEOREM SleepersWaitedFor == Spec => []SleepRequested
<1>1. Init => SleepRequested
  BY DEF Init, SleepRequested
<1> QED
  BY <1>1, InvInit, InvStep, SleepStep, PTL DEF Spec

-----------------------------------------------------------------------------
(* Who holds a stream.  An active stream is registered, or kept by a strong  *)
(* reference until its destructor has put it in standby: no object is made   *)
(* anew while it holds a handle or a wake lock.                              *)

\* A control thread has not looked for the input while it is after the output.
NoInputYet(t) ==
  t \in Controls /\ side[t] = "out" /\ pc[t] \in {"chase", "lock", "relock", "recheck"}
    => sp[t].in = None

\* A stream in a call is registered: it is closed only when its thread is idle.
CallersRegistered == \A s \in Streams : pc[s] # "idle" => Registered(s)

\* An active stream is registered or referred to.
ActiveOwned == \A s \in Streams : ~stream[s].mStandby => Registered(s) \/ Referenced(s)

Owned ==
  /\ \A t \in Threads : Unreferring(t) /\ NoInputYet(t)
  /\ CallersRegistered
  /\ ActiveOwned

OwnInv == IInv /\ PeerRegistered /\ Owned

\* The constructor leaves no reference and no active stream.
LEMMA OwnInit == Init => OwnInv
<1> SUFFICES ASSUME Init PROVE OwnInv
  OBVIOUS
<1>1. \A t \in Threads : Unreferring(t) /\ NoInputYet(t)
  BY DEF Init, Unreferring, NoInputYet, NoRefs
<1>2. CallersRegistered
  BY DEF Init, CallersRegistered, Threads
<1>3. ActiveOwned
  BY DEF Init, ActiveOwned, NewStream
<1>4. PeerRegistered
  BY DEF Init, PeerRegistered, Threads
<1> QED
  BY <1>1, <1>2, <1>3, <1>4, InvInit DEF OwnInv, Owned

\* Calls that begin leave references to their callers only in Close.
LEMMA BeginsRefs ==
  ASSUME TypeOK, Begins, NEW t \in Threads, Unreferring(t), NoInputYet(t)
  PROVE  Unreferring(t)' /\ NoInputYet(t)'
<1>0. Controls \subseteq Threads /\ Streams \subseteq Threads
  BY DEF Threads
<1> USE DEF Goto, TypeOK
<1>1. ASSUME NEW u \in Controls, NEW s \in Streams, Close(u, s)
      PROVE  Unreferring(t)' /\ NoInputYet(t)'
  <2>1. CASE t = u
    BY <1>0, <1>1, <2>1 DEF Close, Unreferring, NoInputYet
  <2>2. CASE t # u
    BY <1>0, <1>1, <2>2 DEF Close, Unreferring, NoInputYet
  <2> QED
    BY <2>1, <2>2
<1>2. ASSUME NEW u \in Threads, pc[u] = "idle", UNCHANGED <<side, sp>>,
             pc'[u] \notin {"chase", "lock", "relock", "recheck"},
             \A v \in Threads \ {u} : pc'[v] = pc[v]
      PROVE  Unreferring(t)' /\ NoInputYet(t)'
  <2>1. CASE t = u
    BY <1>2, <2>1 DEF Unreferring, NoInputYet
  <2>2. CASE t # u
    BY <1>2, <2>2 DEF Unreferring, NoInputYet
  <2> QED
    BY <2>1, <2>2
<1>3. ASSUME NEW u \in Controls, NEW s \in Streams, Open(u, s)
      PROVE  Unreferring(t)' /\ NoInputYet(t)'
  BY <1>3 DEF Open, threadVars, Unreferring, NoInputYet
<1>4. ASSUME NEW u \in Controls, NEW mode \in Modes, SetMode(u, mode)
      PROVE  Unreferring(t)' /\ NoInputYet(t)'
  BY <1>0, <1>2, <1>4 DEF SetMode
<1>5. ASSUME NEW u \in Controls, FmOn(u) \/ FmOff(u)
      PROVE  Unreferring(t)' /\ NoInputYet(t)'
  <2>1. /\ u \in Threads /\ pc[u] = "idle" /\ UNCHANGED <<side, sp>>
        /\ pc'[u] \in {"idle", "fmDelay", "fmMixer", "fmOffPcm", "fmOffFd"}
        /\ \A v \in Threads \ {u} : pc'[v] = pc[v]
    BY <1>0, <1>5 DEF FmOn, FmOff, BeginFm
  <2> QED
    BY <1>2, <2>1
<1>6. ASSUME NEW u \in Streams, BeginIo(u) \/ BeginStandby(u) \/ BeginRoute(u)
      PROVE  Unreferring(t)' /\ NoInputYet(t)'
  <2>1. /\ u \in Threads /\ pc[u] = "idle" /\ UNCHANGED <<side, sp>>
        /\ pc'[u] \in {"ioLock", "standbyLock", "routeLock"}
        /\ \A v \in Threads \ {u} : pc'[v] = pc[v]
    BY <1>0, <1>6 DEF BeginIo, BeginStandby, BeginRoute, Begin
  <2> QED
    BY <1>2, <2>1
<1> QED
  BY <1>1, <1>3, <1>4, <1>5, <1>6 DEF Begins

\* The steps of a thread leave its references where Unreferring and NoInputYet
\* say they may be.
LEMMA StepRefs ==
  ASSUME TypeOK, NEW t \in Threads, Step(t), Unreferring(t), NoInputYet(t)
  PROVE  Unreferring(t)' /\ NoInputYet(t)'
<1>0. Streams \cap Controls = {} /\ side[t] \in Sides
  BY ThreadsAssumption DEF TypeOK
<1> USE DEF Goto, TypeOK
<1>1. ASSUME EndLoop(t) PROVE Unreferring(t)' /\ NoInputYet(t)'
  BY <1>1 DEF EndLoop, Unreferring, NoInputYet
<1>2. CASE ChaseNone(t) \/ RecheckFound(t)
  BY <1>1, <1>2 DEF ChaseNone, RecheckFound
<1>3. CASE ChasePrepare(t) \/ LockStream(t) \/ RelockSelf(t)
  BY <1>3 DEF ChasePrepare, LockStream, RelockSelf, Unreferring, NoInputYet
<1>4. CASE RecheckLost(t)
  <2>1. CASE pc' = [pc EXCEPT ![t] = "dtorLock"]
    BY <2>1 DEF Unreferring, NoInputYet
  <2>2. CASE sp' = [sp EXCEPT ![t][side[t]] = Current(side[t])] /\ pc' = [pc EXCEPT ![t] = "chase"]
    BY <1>0, <1>4, <2>2 DEF RecheckLost, Unreferring, NoInputYet, Sides
  <2> QED
    BY <1>4, <2>1, <2>2 DEF RecheckLost
<1>5. CASE DtorStep(t)
  BY <1>5 DEF DtorStep, Drop, DtorLock, DtorHw, ForgetLocals, Unreferring, NoInputYet
<1>6. CASE ModeHw(t)
  BY <1>6 DEF ModeHw, Unreferring, NoInputYet, NoRefs
<1>7. CASE CallStarts(t) \/ CallEnds(t) \/ ModeOnly(t)
  BY <1>7 DEF CallStarts, CallEnds, ModeOnly, EndMode, Unreferring, NoInputYet
<1>8. CASE FmStep(t)
  BY <1>8 DEF FmStep, Unreferring, NoInputYet
<1>9. ASSUME t \in Streams, DataStep(t) PROVE Unreferring(t)' /\ NoInputYet(t)'
  <2>1. CASE OpenPath(t)
    BY <2>1 DEF OpenPath, ForgetLocals, Unreferring, NoInputYet
  <2>2. CASE LockSelf(t)
    BY <2>2 DEF LockSelf, Unreferring, NoInputYet
  <2>3. CASE ExitStandby(t)
    BY <1>0, <1>9, <2>3 DEF ExitStandby, Unreferring, NoInputYet
  <2>4. CASE Transfer(t)
    BY <2>4 DEF Transfer, Unreferring, NoInputYet
  <2>5. CASE StandbyHw(t) \/ Route(t) \/ InputSource(t)
    BY <2>5 DEF StandbyHw, Route, StandbyStep, InputSource, Unreferring, NoInputYet
  <2> QED
    BY <1>9, <2>1, <2>2, <2>3, <2>4, <2>5 DEF DataStep
<1> QED
  BY <1>2, <1>3, <1>4, <1>5, <1>6, <1>7, <1>8, <1>9 DEF Step, LoopStep, ControlStep

\* A step inside the HAL does not open or close a stream, and an idle thread takes
\* none.
LEMMA StepInside ==
  ASSUME NEW t \in Threads, Step(t)
  PROVE  UNCHANGED regVars /\ pc[t] # "idle"
<1>1. CASE LoopStep(t)
  BY <1>1 DEF LoopStep, ChaseNone, ChasePrepare, LockStream, RelockSelf, RecheckFound,
     RecheckLost
<1>2. CASE DtorStep(t)
  BY <1>2 DEF DtorStep, Drop, DtorLock, DtorHw
<1>3. CASE ControlStep(t)
  BY <1>3 DEF ControlStep, ModeHw, CallStarts, CallEnds, ModeOnly, EndMode, FmStep
<1>4. CASE DataStep(t)
  BY <1>4 DEF DataStep, LockSelf, ExitStandby, OpenPath, Transfer, StandbyHw, Route,
     StandbyStep, InputSource
<1> QED
  BY <1>1, <1>2, <1>3, <1>4 DEF Step

\* A stream stays registered while its thread is in a call.
LEMMA CallersStay ==
  ASSUME TypeOK, CallersRegistered, Begins
  PROVE  CallersRegistered'
<1>0. Controls \cap Streams = {} /\ Streams \subseteq Threads /\ None \notin Streams
  BY ThreadsAssumption DEF Threads, Streams
<1> SUFFICES ASSUME NEW x \in Streams, pc'[x] # "idle"
             PROVE  x = mOutput' \/ x \in mInputs'
  BY DEF CallersRegistered, Registered
<1> USE DEF Goto, TypeOK
<1>1. ASSUME NEW t \in Controls, NEW s \in Streams, Open(t, s)
      PROVE  x = mOutput' \/ x \in mInputs'
  BY <1>0, <1>1 DEF Open, threadVars, CallersRegistered, Registered
<1>2. ASSUME NEW t \in Controls, NEW s \in Streams, Close(t, s)
      PROVE  x = mOutput' \/ x \in mInputs'
  BY <1>0, <1>2 DEF Close, CallersRegistered, Registered
<1>3. ASSUME NEW t \in Controls, NEW mode \in Modes, SetMode(t, mode) \/ FmOn(t) \/ FmOff(t)
      PROVE  x = mOutput' \/ x \in mInputs'
  <2>1. pc'[x] = pc[x] /\ UNCHANGED regVars
    BY <1>0, <1>3 DEF SetMode, FmOn, FmOff, BeginFm
  <2> QED
    BY <2>1 DEF regVars, CallersRegistered, Registered
<1>4. ASSUME NEW s \in Streams, BeginIo(s) \/ BeginStandby(s) \/ BeginRoute(s)
      PROVE  x = mOutput' \/ x \in mInputs'
  <2>1. Registered(s) /\ UNCHANGED regVars /\ (x = s \/ pc'[x] = pc[x])
    BY <1>0, <1>4 DEF BeginIo, BeginStandby, BeginRoute, Begin
  <2> QED
    BY <2>1 DEF regVars, CallersRegistered, Registered
<1> QED
  BY <1>1, <1>2, <1>3, <1>4 DEF Begins

\* A reference that a step inside the HAL gives up is not the last one to an
\* active stream: the destructor ran, or the registry or another thread keeps it.
LEMMA RefsKept ==
  ASSUME OwnInv, TypeOK', NEW t \in Threads, Step(t), NEW d \in Sides, NEW s \in Streams,
         sp[t][d] = s, sp'[t][d] # s
  PROVE  \/ stream'[s].mStandby
         \/ Registered(s)
         \/ \E u \in Threads \ {t}, e \in Sides : sp[u][e] = s
<1>0. /\ TypeOK /\ ThreadInv(t) /\ Unreferring(t) /\ NoInputYet(t)
      /\ s # None /\ side[t] \in Sides /\ (t \in Streams => t \notin Controls)
  BY ThreadsAssumption DEF OwnInv, IInv, Owned, TypeOK, Threads, Streams
<1>1. ASSUME sp[t] = NoRefs PROVE FALSE
  BY <1>0, <1>1 DEF NoRefs, Sides
<1> USE DEF Goto
<1>2. ASSUME EndLoop(t), pc[t] \in {"chase", "recheck"} PROVE FALSE
  <2>1. t \in Controls /\ side[t] = "out" /\ sp' = [sp EXCEPT ![t].in = ActiveInput]
    BY <1>2 DEF EndLoop
  <2>2. sp[t].in = None
    BY <1>0, <1>2, <2>1 DEF NoInputYet
  <2> QED
    BY <1>0, <2>1, <2>2 DEF TypeOK, Sides
<1>3. CASE LoopStep(t)
  <2>1. CASE ~RecheckLost(t)
    BY <1>2, <1>3, <2>1 DEF LoopStep, ChaseNone, ChasePrepare, LockStream, RelockSelf, RecheckFound
  <2>2. CASE RecheckLost(t)
    <3>1. ~LastRef(t, Target(t)) /\ sp' = [sp EXCEPT ![t][side[t]] = Current(side[t])]
      BY <2>2 DEF RecheckLost
    <3>2. s = Target(t)
      BY <1>0, <3>1 DEF Target, TypeOK, Sides
    <3> QED
      BY <3>1, <3>2 DEF LastRef
  <2> QED
    BY <2>1, <2>2
<1>4. CASE DtorStep(t)
  <2>1. CASE Drop(t)
    <3>1. {e \in Sides : sp[t][e] # None /\ LastRef(t, sp[t][e])} = {}
      BY <2>1 DEF Drop
    <3>2. ~LastRef(t, s)
      BY <1>0, <3>1
    <3> QED
      BY <3>2 DEF LastRef
  <2>2. CASE DtorLock(t)
    BY <2>2 DEF DtorLock
  <2>3. CASE DtorHw(t)
    <3>1. sp' = [sp EXCEPT ![t][side[t]] = None] /\ stream' = StandbyAll({Target(t)})
      BY <2>3 DEF DtorHw
    <3>2. s = Target(t)
      BY <1>0, <3>1 DEF Target, TypeOK, Sides
    <3> QED
      BY <3>1, <3>2 DEF StandbyAll, InStandby
  <2> QED
    BY <1>4, <2>1, <2>2, <2>3 DEF DtorStep
<1>5. CASE t \in Controls /\ ControlStep(t)
  <2>1. ASSUME ModeHw(t) PROVE FALSE
    BY <1>0, <1>1, <2>1 DEF ModeHw, Unreferring
  <2>2. ASSUME CallStarts(t) \/ CallEnds(t) \/ ModeOnly(t) \/ FmStep(t) PROVE FALSE
    BY <2>2 DEF CallStarts, CallEnds, ModeOnly, EndMode, FmStep
  <2> QED
    BY <1>5, <2>1, <2>2 DEF ControlStep
<1>6. CASE t \in Streams /\ DataStep(t)
  <2>1. ASSUME ExitStandby(t) PROVE FALSE
    BY <1>0, <1>1, <2>1 DEF ExitStandby, Unreferring
  <2>2. ASSUME OpenPath(t) PROVE Registered(s)
    <3>1. pc[t] = "open"
      BY <2>2 DEF OpenPath
    <3>2. s \in Claimed(t)
      BY <1>0 DEF Claimed
    <3> QED
      BY <1>6, <3>1, <3>2 DEF OwnInv, PeerRegistered
  <2>3. ASSUME LockSelf(t) \/ Transfer(t) \/ StandbyHw(t) \/ Route(t) \/ InputSource(t) PROVE FALSE
    BY <2>3 DEF LockSelf, Transfer, StandbyHw, Route, StandbyStep, InputSource
  <2> QED
    BY <1>6, <2>1, <2>2, <2>3 DEF DataStep
<1> QED
  BY <1>3, <1>4, <1>5, <1>6 DEF Step

\* Steps inside the HAL keep ActiveOwned: a stream that becomes active is its own
\* thread's, which is in a call.
LEMMA ActiveStays ==
  ASSUME OwnInv, TypeOK', NEW t \in Threads, Step(t), Frame(t)
  PROVE  ActiveOwned'
<1> SUFFICES ASSUME NEW s \in Streams, ~stream'[s].mStandby
             PROVE  Registered(s)' \/ Referenced(s)'
  BY DEF ActiveOwned
<1>0. UNCHANGED regVars /\ pc[t] # "idle" /\ (Registered(s)' <=> Registered(s))
  BY StepInside DEF Registered, regVars
<1>1. CASE stream[s].mStandby
  <2>1. s = t
    BY <1>1 DEF Frame
  <2> QED
    BY <1>0, <2>1 DEF OwnInv, Owned, CallersRegistered
<1>2. CASE ~stream[s].mStandby /\ ~Registered(s)
  <2>1. PICK u \in Threads, d \in Sides : sp[u][d] = s
    BY <1>2 DEF OwnInv, Owned, ActiveOwned, Referenced
  <2>2. CASE sp'[u][d] = s
    BY <2>2 DEF Referenced
  <2>3. CASE sp'[u][d] # s
    <3>1. u = t
      BY <2>1, <2>3 DEF Frame
    <3>2. PICK v \in Threads \ {t}, e \in Sides : sp[v][e] = s
      BY <1>2, <2>1, <2>3, <3>1, RefsKept
    <3>3. sp'[v] = sp[v]
      BY DEF Frame
    <3> QED
      BY <3>2, <3>3 DEF Referenced
  <2> QED
    BY <2>2, <2>3
<1> QED
  BY <1>0, <1>1, <1>2

\* A call that begins keeps ActiveOwned: Close leaves its caller a reference.
LEMMA ActiveBegins ==
  ASSUME OwnInv, TypeOK', Begins
  PROVE  ActiveOwned'
<1> SUFFICES ASSUME NEW s \in Streams, ~stream'[s].mStandby
             PROVE  Registered(s)' \/ Referenced(s)'
  BY DEF ActiveOwned
<1>0. /\ TypeOK /\ Controls \subseteq Threads /\ Streams \subseteq Threads
      /\ \A t \in Threads : Unreferring(t)
      /\ None \notin Streams /\ Outputs \cup Inputs = Streams
  BY ThreadsAssumption DEF OwnInv, IInv, Owned, Threads, Streams
<1>1. ASSUME NEW t \in Controls, NEW x \in Streams, Open(t, x)
      PROVE  Registered(s)' \/ Referenced(s)'
  <2>1. s # x /\ stream'[s] = stream[s]
    BY <1>0, <1>1 DEF Open, NewStream, TypeOK
  <2>2. Registered(s) \/ Referenced(s)
    BY <2>1 DEF OwnInv, Owned, ActiveOwned
  <2> QED
    BY <1>0, <1>1, <2>2 DEF Open, Registered, Referenced, threadVars
<1>2. ASSUME NEW t \in Controls, NEW x \in Streams, Close(t, x)
      PROVE  Registered(s)' \/ Referenced(s)'
  <2>1. Registered(s) \/ Referenced(s)
    BY <1>2 DEF OwnInv, Owned, ActiveOwned, Close
  <2>2. t \in Threads /\ sp[t] = NoRefs
    BY <1>0, <1>2 DEF Close, Unreferring
  <2>3. CASE s = x
    <3>1. sp'[t][IF x \in Outputs THEN "out" ELSE "in"] = x
      BY <1>0, <1>2, <2>2 DEF Close, TypeOK
    <3> QED
      BY <2>2, <2>3, <3>1 DEF Referenced, Sides
  <2>4. CASE s # x
    <3>1. Registered(s) => Registered(s)'
      BY <1>0, <1>2, <2>4 DEF Registered, Close
    <3>2. \A u \in Threads, d \in Sides : sp[u][d] = s => sp'[u][d] = s
      <4> SUFFICES ASSUME NEW u \in Threads, NEW d \in Sides, sp[u][d] = s PROVE sp'[u] = sp[u]
        OBVIOUS
      <4>1. u # t
        BY <1>0, <2>2 DEF NoRefs, Sides
      <4> QED
        BY <1>0, <1>2, <4>1 DEF Close, TypeOK
    <3> QED
      BY <2>1, <3>1, <3>2 DEF Referenced
  <2> QED
    BY <2>3, <2>4
<1>3. ASSUME UNCHANGED <<regVars, stream, sp>>
      PROVE  Registered(s)' \/ Referenced(s)'
  BY <1>3 DEF OwnInv, Owned, ActiveOwned, Registered, Referenced, regVars
<1>4. ASSUME NEW t \in Controls, NEW mode \in Modes, SetMode(t, mode)
      PROVE  UNCHANGED <<regVars, stream, sp>>
  BY <1>4 DEF SetMode
<1>5. ASSUME NEW t \in Controls, FmOn(t) \/ FmOff(t) PROVE UNCHANGED <<regVars, stream, sp>>
  BY <1>5 DEF FmOn, FmOff, BeginFm
<1>6. ASSUME NEW x \in Streams, BeginIo(x) \/ BeginStandby(x) \/ BeginRoute(x)
      PROVE  UNCHANGED <<regVars, stream, sp>>
  BY <1>6 DEF BeginIo, BeginStandby, BeginRoute, Begin
<1> QED
  BY <1>1, <1>2, <1>3, <1>4, <1>5, <1>6 DEF Begins

\* Every step keeps Owned.
LEMMA OwnStep == OwnInv /\ [Next]_vars => OwnInv'
<1> SUFFICES ASSUME OwnInv, [Next]_vars PROVE OwnInv'
  OBVIOUS
<1>0. /\ TypeOK /\ TypeOK' /\ IInv' /\ PeerRegistered'
      /\ \A t \in Threads : ThreadInv(t) /\ Unreferring(t) /\ NoInputYet(t)
  BY TypeStep, InvStep, PeerStep DEF OwnInv, IInv, Owned
<1>1. CASE Begins
  <2>1. \A t \in Threads : Unreferring(t)' /\ NoInputYet(t)'
    BY <1>0, <1>1, BeginsRefs
  <2>2. CallersRegistered'
    BY <1>0, <1>1, CallersStay DEF OwnInv, Owned
  <2> QED
    BY <1>0, <1>1, <2>1, <2>2, ActiveBegins DEF OwnInv, Owned
<1>2. ASSUME NEW t \in Threads, Step(t) PROVE OwnInv'
  <2>1. Frame(t)
    BY <1>0, <1>2, LoopKeeps, DtorKeeps, ControlKeeps, DataKeeps DEF Step
  <2>2. Unreferring(t)' /\ NoInputYet(t)'
    BY <1>0, <1>2, StepRefs
  <2>3. ASSUME NEW u \in Threads \ {t} PROVE Unreferring(u)' /\ NoInputYet(u)'
    BY <1>0, <2>1 DEF Frame, Unreferring, NoInputYet
  <2>4. CallersRegistered'
    <3>1. UNCHANGED regVars /\ pc[t] # "idle"
      BY <1>2, StepInside
    <3>2. \A s \in Streams : pc'[s] # "idle" => pc[s] # "idle"
      BY <2>1, <3>1 DEF Frame, Threads
    <3> QED
      BY <3>1, <3>2 DEF OwnInv, Owned, CallersRegistered, Registered, regVars
  <2>5. ActiveOwned'
    BY <1>0, <1>2, <2>1, ActiveStays
  <2> QED
    BY <1>0, <2>2, <2>3, <2>4, <2>5 DEF OwnInv, Owned
<1>3. CASE UNCHANGED vars
  <2>1. \A t \in Threads : Unreferring(t)' /\ NoInputYet(t)'
    BY <1>0, <1>3 DEF vars, threadVars, Unreferring, NoInputYet
  <2>2. CallersRegistered' /\ ActiveOwned'
    BY <1>3 DEF vars, threadVars, regVars, OwnInv, Owned, CallersRegistered, ActiveOwned,
       Registered, Referenced
  <2> QED
    BY <1>0, <2>1, <2>2 DEF OwnInv, Owned
<1> QED
  BY <1>1, <1>2, <1>3 DEF Next, ClientsDone

-----------------------------------------------------------------------------
(* The reference counts.  Balanced relates the counters to the streams that *)
(* hold a PCM or a mixer handle and to the call; each operation on the       *)
(* counters is shown to keep it, and each step composes such operations.    *)

\* The streams that hold a handle.
PcmSet   == {s \in Outputs : stream[s].mPcm}
MixerSet == {s \in Streams : stream[s].mMixer}

\* The references of the call.
CallRefs == IF mInCallAudioMode THEN 1 ELSE 0

\* Counters h count the streams of P and M, and c more references on each device.
Balanced(h, P, M, c) ==
  /\ IsFiniteSet(P) /\ IsFiniteSet(M)
  /\ h.mPcmOpenCnt = Cardinality(P) + c /\ (h.mPcm <=> Cardinality(P) + c > 0)
  /\ h.mMixerOpenCnt = Cardinality(M) + c /\ (h.mMixer <=> Cardinality(M) + c > 0)
  /\ ~h.unmatched

\* openPcmOut_l() of a balanced count, when the driver opens the device.
LEMMA OpenPcmCounts ==
  ASSUME NEW h \in HwState, h.mPcm <=> h.mPcmOpenCnt > 0
  PROVE  LET n == OpenPcm(h, TRUE)
         IN  /\ n.mPcmOpenCnt = h.mPcmOpenCnt + 1 /\ n.mPcm
             /\ n.mMixerOpenCnt = h.mMixerOpenCnt /\ (n.mMixer <=> h.mMixer)
             /\ (n.unmatched <=> h.unmatched)
             /\ PcmHandle(h, TRUE)
<1>1. CASE h.mPcmOpenCnt > 0
  BY <1>1 DEF OpenPcm, PcmHandle, HwState
<1>2. CASE ~(h.mPcmOpenCnt > 0)
  <2>1. h.mPcmOpenCnt = 0 /\ ~h.mPcm
    BY <1>2 DEF HwState
  <2> QED
    BY <1>2, <2>1 DEF OpenPcm, PcmHandle, HwState
<1> QED
  BY <1>1, <1>2

\* openMixer_l(), likewise.
LEMMA OpenMixerCounts ==
  ASSUME NEW h \in HwState, h.mMixer <=> h.mMixerOpenCnt > 0
  PROVE  LET n == OpenMixer(h, TRUE)
         IN  /\ n.mMixerOpenCnt = h.mMixerOpenCnt + 1 /\ n.mMixer
             /\ n.mPcmOpenCnt = h.mPcmOpenCnt /\ (n.mPcm <=> h.mPcm)
             /\ (n.unmatched <=> h.unmatched)
             /\ MixerHandle(h, TRUE)
<1>1. CASE h.mMixerOpenCnt > 0
  BY <1>1 DEF OpenMixer, MixerHandle, HwState
<1>2. CASE ~(h.mMixerOpenCnt > 0)
  <2>1. h.mMixerOpenCnt = 0 /\ ~h.mMixer
    BY <1>2 DEF HwState
  <2> QED
    BY <1>2, <2>1 DEF OpenMixer, MixerHandle, HwState
<1> QED
  BY <1>1, <1>2

\* closePcmOut_l() of a count that is not zero.
LEMMA ClosePcmCounts ==
  ASSUME NEW h \in HwState, h.mPcm <=> h.mPcmOpenCnt > 0, h.mPcmOpenCnt > 0
  PROVE  LET n == ClosePcm(h)
         IN  /\ n.mPcmOpenCnt = h.mPcmOpenCnt - 1 /\ (n.mPcm <=> h.mPcmOpenCnt - 1 > 0)
             /\ n.mMixerOpenCnt = h.mMixerOpenCnt /\ (n.mMixer <=> h.mMixer)
             /\ (n.unmatched <=> h.unmatched)
<1> DEFINE k == h.mPcmOpenCnt - 1
           b == h.mPcm /\ h.mPcmOpenCnt > 1
<1>1. ClosePcm(h) = [h EXCEPT !.mPcmOpenCnt = k, !.mPcm = b]
  BY DEF ClosePcm, HwState
<1>2. b <=> k > 0
  BY DEF HwState
<1> HIDE DEF k, b
<1>3. LET n == ClosePcm(h)
      IN  /\ n.mPcmOpenCnt = k /\ n.mPcm = b
          /\ n.mMixerOpenCnt = h.mMixerOpenCnt /\ n.mMixer = h.mMixer
          /\ n.unmatched = h.unmatched
  BY <1>1 DEF HwState
<1> QED
  BY <1>2, <1>3 DEF k

\* closeMixer_l(), likewise.
LEMMA CloseMixerCounts ==
  ASSUME NEW h \in HwState, h.mMixer <=> h.mMixerOpenCnt > 0, h.mMixerOpenCnt > 0
  PROVE  LET n == CloseMixer(h)
         IN  /\ n.mMixerOpenCnt = h.mMixerOpenCnt - 1 /\ (n.mMixer <=> h.mMixerOpenCnt - 1 > 0)
             /\ n.mPcmOpenCnt = h.mPcmOpenCnt /\ (n.mPcm <=> h.mPcm)
             /\ (n.unmatched <=> h.unmatched)
<1> DEFINE k == h.mMixerOpenCnt - 1
           b == h.mMixer /\ h.mMixerOpenCnt > 1
<1>1. CloseMixer(h) = [h EXCEPT !.mMixerOpenCnt = k, !.mMixer = b]
  BY DEF CloseMixer, HwState
<1>2. b <=> k > 0
  BY DEF HwState
<1> HIDE DEF k, b
<1>3. LET n == CloseMixer(h)
      IN  /\ n.mMixerOpenCnt = k /\ n.mMixer = b
          /\ n.mPcmOpenCnt = h.mPcmOpenCnt /\ n.mPcm = h.mPcm
          /\ n.unmatched = h.unmatched
  BY <1>1 DEF HwState
<1> QED
  BY <1>2, <1>3 DEF k

\* Balanced counters are flags of open devices.
LEMMA BalancedFlags ==
  ASSUME NEW h \in HwState, NEW P, NEW M, NEW c \in Nat, Balanced(h, P, M, c)
  PROVE  /\ Cardinality(P) \in Nat /\ Cardinality(M) \in Nat
         /\ (h.mPcm <=> h.mPcmOpenCnt > 0) /\ (h.mMixer <=> h.mMixerOpenCnt > 0)
BY FS_CardinalityType DEF Balanced

\* setMode() takes the call's references.
LEMMA CallTakes ==
  ASSUME NEW h \in HwState, NEW P, NEW M, NEW c \in Nat, Balanced(h, P, M, c)
  PROVE  Balanced(OpenMixer(OpenPcm(h, TRUE), TRUE), P, M, c + 1)
<1> DEFINE n == OpenPcm(h, TRUE)
<1>1. Cardinality(P) \in Nat /\ Cardinality(M) \in Nat
  BY BalancedFlags
<1>2. n \in HwState
  BY OpenPcmType
<1>3. /\ n.mPcmOpenCnt = h.mPcmOpenCnt + 1 /\ n.mPcm
      /\ n.mMixerOpenCnt = h.mMixerOpenCnt /\ (n.mMixer <=> h.mMixer)
      /\ (n.unmatched <=> h.unmatched)
  BY BalancedFlags, OpenPcmCounts
<1>4. n.mMixer <=> n.mMixerOpenCnt > 0
  BY <1>3, BalancedFlags
<1> DEFINE m == OpenMixer(n, TRUE)
<1> HIDE DEF n
<1>5. /\ m.mMixerOpenCnt = n.mMixerOpenCnt + 1 /\ m.mMixer
      /\ m.mPcmOpenCnt = n.mPcmOpenCnt /\ (m.mPcm <=> n.mPcm)
      /\ (m.unmatched <=> n.unmatched)
  BY <1>2, <1>4, OpenMixerCounts
<1> HIDE DEF m
<1>6. Balanced(m, P, M, c + 1)
  BY <1>1, <1>3, <1>5 DEF Balanced
<1> QED
  BY <1>6 DEF m, n

\* setMode() gives the call's references back.
LEMMA CallGives ==
  ASSUME NEW h \in HwState, NEW P, NEW M, NEW c \in Nat, Balanced(h, P, M, c + 1)
  PROVE  Balanced(ClosePcm(CloseMixer(h)), P, M, c)
<1> DEFINE n == CloseMixer(h)
<1>1. Cardinality(P) \in Nat /\ Cardinality(M) \in Nat /\ c + 1 \in Nat
  BY BalancedFlags
<1>2. n \in HwState /\ h.mMixerOpenCnt > 0 /\ h.mPcmOpenCnt > 0
  BY <1>1, CloseMixerType DEF Balanced
<1>3. /\ n.mMixerOpenCnt = h.mMixerOpenCnt - 1 /\ (n.mMixer <=> h.mMixerOpenCnt - 1 > 0)
      /\ n.mPcmOpenCnt = h.mPcmOpenCnt /\ (n.mPcm <=> h.mPcm)
      /\ (n.unmatched <=> h.unmatched)
  BY <1>1, <1>2, BalancedFlags, CloseMixerCounts
<1>4. n.mPcm <=> n.mPcmOpenCnt > 0
  BY <1>1, <1>3, BalancedFlags
<1> DEFINE m == ClosePcm(n)
<1> HIDE DEF n
<1>5. /\ m.mPcmOpenCnt = n.mPcmOpenCnt - 1 /\ (m.mPcm <=> n.mPcmOpenCnt - 1 > 0)
      /\ m.mMixerOpenCnt = n.mMixerOpenCnt /\ (m.mMixer <=> n.mMixer)
      /\ (m.unmatched <=> n.unmatched)
  BY <1>2, <1>3, <1>4, ClosePcmCounts
<1> HIDE DEF m
<1>6. Balanced(m, P, M, c)
  BY <1>1, <1>3, <1>5 DEF Balanced
<1> QED
  BY <1>6 DEF m, n

\* A mixer opened and closed again leaves the counters as they were.
LEMMA MixerBorrowed ==
  ASSUME NEW h \in HwState, NEW P, NEW M, NEW c \in Nat, Balanced(h, P, M, c)
  PROVE  Balanced(CloseMixer(OpenMixer(h, TRUE)), P, M, c)
<1> DEFINE n == OpenMixer(h, TRUE)
<1>1. Cardinality(P) \in Nat /\ Cardinality(M) \in Nat
  BY BalancedFlags
<1>2. n \in HwState
  BY OpenMixerType
<1>3. /\ n.mMixerOpenCnt = h.mMixerOpenCnt + 1 /\ n.mMixer
      /\ n.mPcmOpenCnt = h.mPcmOpenCnt /\ (n.mPcm <=> h.mPcm)
      /\ (n.unmatched <=> h.unmatched)
  BY BalancedFlags, OpenMixerCounts
<1>4. h.mMixerOpenCnt \in Nat
  BY DEF HwState
<1> DEFINE m == CloseMixer(n)
<1> HIDE DEF n
<1>5. /\ m.mMixerOpenCnt = n.mMixerOpenCnt - 1 /\ (m.mMixer <=> n.mMixerOpenCnt - 1 > 0)
      /\ m.mPcmOpenCnt = n.mPcmOpenCnt /\ (m.mPcm <=> n.mPcm)
      /\ (m.unmatched <=> n.unmatched)
  BY <1>2, <1>3, <1>4, CloseMixerCounts
<1> HIDE DEF m
<1>6. Balanced(m, P, M, c)
  BY <1>1, <1>3, <1>4, <1>5 DEF Balanced
<1> QED
  BY <1>6 DEF m, n

\* A stream that holds no PCM handle takes one.
LEMMA PcmTaken ==
  ASSUME NEW h \in HwState, NEW P, NEW M, NEW c \in Nat, Balanced(h, P, M, c),
         NEW s, s \notin P
  PROVE  Balanced(OpenPcm(h, TRUE), P \cup {s}, M, c) /\ PcmHandle(h, TRUE)
<1> DEFINE n == OpenPcm(h, TRUE)
           Q == P \cup {s}
<1>1. /\ n.mPcmOpenCnt = h.mPcmOpenCnt + 1 /\ n.mPcm
      /\ n.mMixerOpenCnt = h.mMixerOpenCnt /\ (n.mMixer <=> h.mMixer)
      /\ (n.unmatched <=> h.unmatched)
      /\ PcmHandle(h, TRUE)
  BY BalancedFlags, OpenPcmCounts
<1>2. IsFiniteSet(Q) /\ Cardinality(Q) = Cardinality(P) + 1 /\ Cardinality(P) \in Nat
  BY BalancedFlags, FS_AddElement DEF Balanced
<1> HIDE DEF n, Q
<1>3. Balanced(n, Q, M, c)
  BY <1>1, <1>2 DEF Balanced
<1> QED
  BY <1>1, <1>3 DEF n, Q

\* A stream that holds no mixer handle takes one.
LEMMA MixerTaken ==
  ASSUME NEW h \in HwState, NEW P, NEW M, NEW c \in Nat, Balanced(h, P, M, c),
         NEW s, s \notin M
  PROVE  Balanced(OpenMixer(h, TRUE), P, M \cup {s}, c) /\ MixerHandle(h, TRUE)
<1> DEFINE n == OpenMixer(h, TRUE)
           Q == M \cup {s}
<1>1. /\ n.mMixerOpenCnt = h.mMixerOpenCnt + 1 /\ n.mMixer
      /\ n.mPcmOpenCnt = h.mPcmOpenCnt /\ (n.mPcm <=> h.mPcm)
      /\ (n.unmatched <=> h.unmatched)
      /\ MixerHandle(h, TRUE)
  BY BalancedFlags, OpenMixerCounts
<1>2. IsFiniteSet(Q) /\ Cardinality(Q) = Cardinality(M) + 1 /\ Cardinality(M) \in Nat
  BY BalancedFlags, FS_AddElement DEF Balanced
<1> HIDE DEF n, Q
<1>3. Balanced(n, P, Q, c)
  BY <1>1, <1>2 DEF Balanced
<1> QED
  BY <1>1, <1>3 DEF n, Q

\* A stream that holds a PCM handle gives it back.
LEMMA PcmGiven ==
  ASSUME NEW h \in HwState, NEW P, NEW M, NEW c \in Nat, Balanced(h, P, M, c),
         NEW s \in P
  PROVE  Balanced(ClosePcm(h), P \ {s}, M, c)
<1> DEFINE n == ClosePcm(h)
           Q == P \ {s}
<1>1. /\ IsFiniteSet(Q) /\ Cardinality(Q) = Cardinality(P) - 1 /\ Cardinality(P) \in Nat
      /\ Cardinality(Q) \in Nat
  BY BalancedFlags, FS_RemoveElement, FS_CardinalityType DEF Balanced
<1>2. h.mPcmOpenCnt > 0
  BY <1>1 DEF Balanced
<1>3. /\ n.mPcmOpenCnt = h.mPcmOpenCnt - 1 /\ (n.mPcm <=> h.mPcmOpenCnt - 1 > 0)
      /\ n.mMixerOpenCnt = h.mMixerOpenCnt /\ (n.mMixer <=> h.mMixer)
      /\ (n.unmatched <=> h.unmatched)
  BY <1>2, BalancedFlags, ClosePcmCounts
<1> HIDE DEF n, Q
<1>4. Balanced(n, Q, M, c)
  BY <1>1, <1>3 DEF Balanced
<1> QED
  BY <1>4 DEF n, Q

\* A stream that holds a mixer handle gives it back.
LEMMA MixerGiven ==
  ASSUME NEW h \in HwState, NEW P, NEW M, NEW c \in Nat, Balanced(h, P, M, c),
         NEW s \in M
  PROVE  Balanced(CloseMixer(h), P, M \ {s}, c)
<1> DEFINE n == CloseMixer(h)
           Q == M \ {s}
<1>1. /\ IsFiniteSet(Q) /\ Cardinality(Q) = Cardinality(M) - 1 /\ Cardinality(M) \in Nat
      /\ Cardinality(Q) \in Nat
  BY BalancedFlags, FS_RemoveElement, FS_CardinalityType DEF Balanced
<1>2. h.mMixerOpenCnt > 0
  BY <1>1 DEF Balanced
<1>3. /\ n.mMixerOpenCnt = h.mMixerOpenCnt - 1 /\ (n.mMixer <=> h.mMixerOpenCnt - 1 > 0)
      /\ n.mPcmOpenCnt = h.mPcmOpenCnt /\ (n.mPcm <=> h.mPcm)
      /\ (n.unmatched <=> h.unmatched)
  BY <1>2, BalancedFlags, CloseMixerCounts
<1> HIDE DEF n, Q
<1>4. Balanced(n, P, Q, c)
  BY <1>1, <1>3 DEF Balanced
<1> QED
  BY <1>4 DEF n, Q

\* open_l() of a stream that holds no handle gives it both, and counts it.
LEMMA StreamTakes ==
  ASSUME NEW s \in Streams, NEW h \in HwState, NEW P, NEW M, NEW c \in Nat,
         Balanced(h, P, M, c), s \notin P, s \notin M
  PROVE  /\ OpenStream(s, h, TRUE, TRUE) \in HwState
         /\ Balanced(OpenStream(s, h, TRUE, TRUE),
                     IF s \in Outputs THEN P \cup {s} ELSE P, M \cup {s}, c)
         /\ Opened(s, h, TRUE, TRUE) = [stream[s] EXCEPT !.mPcm = TRUE, !.mMixer = TRUE]
<1> DEFINE p == IF s \in Outputs THEN OpenPcm(h, TRUE) ELSE h
           Q == IF s \in Outputs THEN P \cup {s} ELSE P
           got == IF s \in Outputs THEN PcmHandle(h, TRUE) ELSE TRUE
<1>1. p \in HwState /\ Balanced(p, Q, M, c) /\ got
  BY PcmTaken, OpenPcmType
<1>2. /\ OpenStream(s, h, TRUE, TRUE) = IF got THEN OpenMixer(p, TRUE) ELSE p
      /\ Opened(s, h, TRUE, TRUE)
           = [stream[s] EXCEPT !.mPcm = got, !.mMixer = got /\ MixerHandle(p, TRUE)]
  BY DEF OpenStream, Opened
<1>3. got \in BOOLEAN /\ MixerHandle(p, TRUE) \in BOOLEAN
  BY <1>1, OpenPcmType, OpenMixerType
<1> HIDE DEF p, got
<1>4. Balanced(OpenMixer(p, TRUE), Q, M \cup {s}, c) /\ MixerHandle(p, TRUE)
  BY <1>1, MixerTaken
<1>5. OpenMixer(p, TRUE) \in HwState
  BY <1>1, OpenMixerType
<1>6. got = TRUE /\ (got /\ MixerHandle(p, TRUE)) = TRUE
  BY <1>1, <1>3, <1>4
<1>7. Opened(s, h, TRUE, TRUE) = [stream[s] EXCEPT !.mPcm = TRUE, !.mMixer = TRUE]
  BY <1>2, <1>6
<1> QED
  BY <1>1, <1>2, <1>4, <1>5, <1>7

\* close_l() of a stream, or of a null reference, gives back what it holds.
LEMMA StreamGives ==
  ASSUME NEW s, NEW h \in HwState, NEW P, NEW M, NEW c \in Nat,
         Balanced(h, P, M, c), s \in Streams,
         s \in P <=> s \in Outputs /\ stream[s].mPcm,
         s \in M <=> stream[s].mMixer
  PROVE  CloseStream(s, h) \in HwState /\ Balanced(CloseStream(s, h), P \ {s}, M \ {s}, c)
<1> DEFINE m == IF stream[s].mMixer THEN CloseMixer(h) ELSE h
<1>1. m \in HwState
  BY CloseMixerType
<1>2. Balanced(m, P, M \ {s}, c)
  <2>1. CASE s \in M
    BY <2>1, MixerGiven
  <2>2. CASE s \notin M
    <3>1. M \ {s} = M
      BY <2>2
    <3> QED
      BY <2>2, <3>1
  <2> QED
    BY <2>1, <2>2
<1>3. CloseStream(s, h) = IF s \in Outputs /\ stream[s].mPcm THEN ClosePcm(m) ELSE m
  BY DEF CloseStream
<1> HIDE DEF m
<1>4. CASE s \in P
  BY <1>1, <1>2, <1>3, <1>4, PcmGiven, ClosePcmType
<1>5. CASE s \notin P
  <2>1. P \ {s} = P
    BY <1>5
  <2> QED
    BY <1>1, <1>2, <1>3, <1>5, <2>1
<1> QED
  BY <1>4, <1>5

\* The same for a strong reference that may be null.
LEMMA RefGives ==
  ASSUME NEW s \in Streams \cup {None}, NEW h \in HwState, NEW P, NEW M, NEW c \in Nat,
         Balanced(h, P, M, c), P \subseteq Streams, M \subseteq Streams,
         s # None => (s \in P <=> s \in Outputs /\ stream[s].mPcm),
         s # None => (s \in M <=> stream[s].mMixer)
  PROVE  CloseRef(s, h) \in HwState /\ Balanced(CloseRef(s, h), P \ {s}, M \ {s}, c)
<1>1. CASE s = None
  <2>1. None \notin Streams
    BY ThreadsAssumption DEF Threads
  <2>2. P \ {s} = P /\ M \ {s} = M
    BY <1>1, <2>1
  <2> QED
    BY <1>1, <2>2 DEF CloseRef
<1>2. CASE s # None
  BY <1>2, StreamGives DEF CloseRef
<1> QED
  BY <1>1, <1>2

-----------------------------------------------------------------------------
(* CountsMatch, when every open succeeds and the FM radio is not used: a     *)
(* failed open leaves a call that believes it has a reference, and the radio *)
(* calls close what they may not have opened.                                *)

Reliable == OpenResults = {TRUE} /\ FmCalls = 0

\* No radio call is under way, and none was delayed.
RadioOff == ~fm.mFmResumeAfterCall /\ \A t \in Controls : pc[t] \notin FmPCs

\* A stream holds its handles while it is active, and no longer.
HandlesKept ==
  \A s \in Streams : /\ stream[s].mPcm <=> ~stream[s].mStandby
                     /\ stream[s].mMixer <=> ~stream[s].mStandby

\* A stream that transfers is active.
TransferActive == \A s \in Streams : pc[s] = "transfer" => ~stream[s].mStandby

Counted == HandlesKept /\ TransferActive /\ Balanced(hw, PcmSet, MixerSet, CallRefs)

CountInv == OwnInv /\ RadioOff /\ Counted

\* Where the radio is not used, it stays off.
LEMMA RadioOffStep ==
  ASSUME Reliable, TypeOK, RadioOff, Next
  PROVE  RadioOff'
<1>0. /\ \A u \in Controls : u \in Threads /\ u \notin Streams
      /\ Streams \subseteq Threads
  BY ThreadsAssumption DEF Threads, Streams
<1>1. ASSUME NEW t \in Controls, FmOn(t) \/ FmOff(t) \/ FmStep(t) PROVE FALSE
  <2>1. fmCalls \in Nat /\ FmCalls = 0
    BY DEF TypeOK, Reliable
  <2>2. ~FmOn(t) /\ ~FmOff(t)
    BY <2>1 DEF FmOn, FmOff, BeginFm
  <2>3. ~FmStep(t)
    BY DEF FmStep, RadioOff, FmPCs
  <2> QED
    BY <1>1, <2>2, <2>3
<1>2. ~fm'.mFmResumeAfterCall
  <2>1. ASSUME NEW t \in Controls, CallStarts(t) \/ CallEnds(t) \/ ModeOnly(t)
        PROVE  ~fm'.mFmResumeAfterCall
    BY <2>1, ResumeEnds DEF CallStarts, CallEnds, ModeOnly, RadioOff
  <2> QED
    BY <1>1, <2>1, ModeStep DEF RadioOff
<1> USE DEF Goto, TypeOK, FmPCs
<1> SUFFICES ASSUME NEW u \in Controls PROVE pc'[u] \notin FmPCs
  BY <1>2 DEF RadioOff
<1>3. u \in Threads /\ u \notin Streams /\ pc[u] \notin FmPCs
  BY <1>0 DEF RadioOff
<1>4. ASSUME NEW t \in Threads, LoopStep(t) PROVE pc'[u] \notin FmPCs
  BY <1>3, <1>4 DEF LoopStep, ChaseNone, ChasePrepare, LockStream, RelockSelf, RecheckFound,
     RecheckLost, EndLoop
<1>5. ASSUME NEW t \in Threads, DtorStep(t) PROVE pc'[u] \notin FmPCs
  BY <1>3, <1>5 DEF DtorStep, Drop, DtorLock, DtorHw
<1>6. ASSUME NEW t \in Controls, ControlStep(t) PROVE pc'[u] \notin FmPCs
  BY <1>0, <1>1, <1>3, <1>6 DEF ControlStep, ModeHw, CallStarts, CallEnds, ModeOnly, EndMode
<1>7. ASSUME NEW s \in Streams, DataStep(s) PROVE pc'[u] \notin FmPCs
  <2>1. pc'[u] = pc[u]
    BY <1>0, <1>3, <1>7 DEF DataStep, LockSelf, ExitStandby, OpenPath, Transfer, StandbyHw,
       Route, StandbyStep, InputSource
  <2> QED
    BY <1>3, <2>1
<1>8. CASE Begins
  BY <1>0, <1>1, <1>3, <1>8 DEF Begins, Open, Close, SetMode, BeginIo, BeginStandby,
     BeginRoute, Begin, threadVars
<1>9. CASE ClientsDone
  BY <1>3, <1>9 DEF ClientsDone, vars, threadVars
<1> QED
  BY <1>4, <1>5, <1>6, <1>7, <1>8, <1>9 DEF Next, Step

\* A step that touches neither streams nor counters, and begins no transfer.
LEMMA StillCounted ==
  ASSUME Counted, UNCHANGED <<stream, hw, mInCallAudioMode>>,
         \A s \in Streams : pc'[s] = "transfer" => pc[s] = "transfer" \/ ~stream[s].mStandby
  PROVE  Counted'
BY DEF Counted, HandlesKept, TransferActive, PcmSet, MixerSet, CallRefs

\* doStandby_l() of some streams: they no longer hold their handles.
LEMMA StandbySets ==
  ASSUME TypeOK, HandlesKept, NEW S \in SUBSET Streams, stream' = StandbyAll(S)
  PROVE  HandlesKept' /\ PcmSet' = PcmSet \ S /\ MixerSet' = MixerSet \ S
<1>1. \A x \in Streams : stream'[x] = IF x \in S THEN InStandby(x) ELSE stream[x]
  BY DEF StandbyAll
<1>2. ASSUME NEW x \in S PROVE stream'[x].mStandby /\ ~stream'[x].mPcm /\ ~stream'[x].mMixer
  <2>1. stream'[x] = InStandby(x)
    BY <1>1
  <2> QED
    BY <2>1 DEF InStandby
<1>3. HandlesKept'
  BY <1>1, <1>2 DEF HandlesKept
<1>4. PcmSet' = PcmSet \ S
  BY <1>1, <1>2 DEF PcmSet, Streams
<1>5. MixerSet' = MixerSet \ S
  BY <1>1, <1>2 DEF MixerSet
<1> QED
  BY <1>3, <1>4, <1>5

\* ... and none of them is in a transfer: its own thread would own its mutex.
LEMMA StandbyTransfer ==
  ASSUME TypeOK, TransferActive, NEW t \in Threads, \A u \in Threads : ThreadInv(u), Frame(t),
         pc'[t] # "transfer",
         NEW S \in SUBSET Streams, stream' = StandbyAll(S), \A x \in S : sLock[x] = t
  PROVE  TransferActive'
<1> SUFFICES ASSUME NEW s \in Streams, pc'[s] = "transfer" PROVE ~stream'[s].mStandby
  BY DEF TransferActive
<1>1. s \in Threads /\ s # t
  BY DEF Threads
<1>2. pc[s] = "transfer"
  BY <1>1 DEF Frame
<1>3. sLock[s] = s
  BY <1>1, <1>2 DEF ThreadInv, OwnsStream
<1>4. s \notin S
  BY <1>1, <1>3
<1> QED
  BY <1>2, <1>4 DEF StandbyAll, TransferActive

\* What setMode() has settled on: at most one output and one input, both locked,
\* or null.
LEMMA ClaimedSets ==
  ASSUME TypeOK, NEW t \in Threads, ThreadInv(t), pc[t] \in {"apply", "open"}
  PROVE  /\ Claimed(t) \in SUBSET Streams
         /\ \A x \in Claimed(t) : sLock[x] = t /\ ~stream[x].mStandby
         /\ sp[t].out \in Streams \cup {None} /\ sp[t].in \in Streams \cup {None}
         /\ \A X \in SUBSET Streams : (X \ {sp[t].out}) \ {sp[t].in} = X \ Claimed(t)
<1>1. /\ \A d \in Sides : sp[t][d] \in Streams \cup {None}
      /\ None \notin Streams
  BY TargetType
<1>2. \A d \in Sides : sp[t][d] # None => sLock[sp[t][d]] = t /\ ~stream[sp[t][d]].mStandby
  BY DEF ThreadInv, HoldsClaimed, Settled
<1>3. Claimed(t) = {sp[t].out, sp[t].in} \ {None}
  BY DEF Claimed, Sides
<1> QED
  BY <1>1, <1>2, <1>3 DEF Sides

\* Closing both of them, one after the other, gives their references back.
LEMMA BothGive ==
  ASSUME TypeOK, NEW t \in Threads, ThreadInv(t), pc[t] \in {"apply", "open"},
         NEW h \in HwState, NEW c \in Nat, Balanced(h, PcmSet, MixerSet, c)
  PROVE  /\ CloseRef(sp[t].in, CloseRef(sp[t].out, h)) \in HwState
         /\ Balanced(CloseRef(sp[t].in, CloseRef(sp[t].out, h)),
                     PcmSet \ Claimed(t), MixerSet \ Claimed(t), c)
<1> DEFINE o == sp[t].out
           i == sp[t].in
           P == PcmSet \ {o}
           M == MixerSet \ {o}
           m == CloseRef(o, h)
<1>0. /\ PcmSet \subseteq Streams /\ MixerSet \subseteq Streams /\ Outputs \cap Inputs = {}
      /\ o \in Streams \cup {None} /\ i \in Streams \cup {None}
      /\ (o # None => o \in Outputs) /\ (i # None => i \in Inputs)
  BY TargetType, ClaimedSets, ThreadsAssumption DEF PcmSet, MixerSet, Streams
<1>1. /\ o # None => (o \in PcmSet <=> o \in Outputs /\ stream[o].mPcm)
      /\ o # None => (o \in MixerSet <=> stream[o].mMixer)
  BY <1>0 DEF PcmSet, MixerSet
<1>2. m \in HwState /\ Balanced(m, P, M, c)
  BY <1>0, <1>1, RefGives
<1>3. /\ P \subseteq Streams /\ M \subseteq Streams
      /\ i # None => (i \in P <=> i \in Outputs /\ stream[i].mPcm)
      /\ i # None => (i \in M <=> stream[i].mMixer)
  BY <1>0 DEF PcmSet, MixerSet
<1> HIDE DEF m
<1>4. CloseRef(i, m) \in HwState /\ Balanced(CloseRef(i, m), P \ {i}, M \ {i}, c)
  BY <1>0, <1>2, <1>3, RefGives
<1>5. P \ {i} = PcmSet \ Claimed(t) /\ M \ {i} = MixerSet \ Claimed(t)
  BY <1>0, ClaimedSets
<1> QED
  BY <1>4, <1>5 DEF m

\* setMode() keeps the counts: the streams give theirs back, and the call takes
\* or gives its own.
LEMMA ModeCounted ==
  ASSUME Reliable, CountInv, NEW t \in Controls, Frame(t),
         CallStarts(t) \/ CallEnds(t) \/ ModeOnly(t)
  PROVE  Counted'
<1>0. /\ TypeOK /\ t \in Threads /\ t \notin Streams /\ \A u \in Threads : ThreadInv(u)
      /\ pc[t] = "apply" /\ pc'[t] = "drop"
      /\ HandlesKept /\ TransferActive /\ Balanced(hw, PcmSet, MixerSet, CallRefs)
      /\ hw \in HwState /\ mInCallAudioMode \in BOOLEAN
  BY ThreadsAssumption DEF CountInv, OwnInv, IInv, Counted, Threads, CallStarts, CallEnds,
     ModeOnly, EndMode, Goto, TypeOK
<1>1. Claimed(t) \in SUBSET Streams /\ \A x \in Claimed(t) : sLock[x] = t
  BY <1>0, ClaimedSets
<1>2. CASE CallStarts(t)
  <2>1. stream' = StandbyAll(Claimed(t)) /\ CallRefs = 0 /\ CallRefs' = 1
    BY <1>2 DEF CallStarts, CallRefs
  <2>2. /\ HandlesKept' /\ PcmSet' = PcmSet \ Claimed(t) /\ MixerSet' = MixerSet \ Claimed(t)
        /\ TransferActive'
    BY <1>0, <1>1, <2>1, StandbySets, StandbyTransfer
  <2> DEFINE h == CloseRef(sp[t].in, CloseRef(sp[t].out, hw))
  <2>3. h \in HwState /\ Balanced(h, PcmSet \ Claimed(t), MixerSet \ Claimed(t), 0)
    BY <1>0, <2>1, BothGive
  <2>4. hw' = OpenMixer(OpenPcm(h, TRUE), TRUE)
    BY <1>2 DEF CallStarts, Reliable
  <2> HIDE DEF h
  <2>5. Balanced(hw', PcmSet \ Claimed(t), MixerSet \ Claimed(t), 0 + 1)
    BY <2>3, <2>4, CallTakes
  <2> QED
    BY <2>1, <2>2, <2>5 DEF Counted
<1>3. CASE CallEnds(t)
  <2>1. stream' = StandbyAll(Claimed(t)) /\ CallRefs = 1 /\ CallRefs' = 0
    BY <1>3 DEF CallEnds, CallRefs
  <2>2. /\ HandlesKept' /\ PcmSet' = PcmSet \ Claimed(t) /\ MixerSet' = MixerSet \ Claimed(t)
        /\ TransferActive'
    BY <1>0, <1>1, <2>1, StandbySets, StandbyTransfer
  <2> DEFINE h == ClosePcm(CloseMixer(hw))
  <2>3. h \in HwState
    BY <1>0, CloseMixerType, ClosePcmType
  <2>4. Balanced(hw, PcmSet, MixerSet, 0 + 1)
    BY <1>0, <2>1
  <2>5. Balanced(h, PcmSet, MixerSet, 0)
    BY <1>0, <2>4, CallGives
  <2>6. hw' = CloseRef(sp[t].in, CloseRef(sp[t].out, h))
    BY <1>3 DEF CallEnds, ResumeFm, CountInv, RadioOff
  <2> HIDE DEF h
  <2>7. Balanced(hw', PcmSet \ Claimed(t), MixerSet \ Claimed(t), 0)
    BY <1>0, <2>3, <2>5, <2>6, BothGive
  <2> QED
    BY <2>1, <2>2, <2>7 DEF Counted
<1>4. CASE ModeOnly(t)
  <2>1. UNCHANGED <<stream, hw, mInCallAudioMode>>
    BY <1>4 DEF ModeOnly, ResumeFm, CountInv, RadioOff
  <2>2. \A s \in Streams : pc'[s] = pc[s]
    BY <1>0 DEF Frame, Threads
  <2> QED
    BY <2>1, <2>2, StillCounted DEF CountInv
<1> QED
  BY <1>2, <1>3, <1>4

\* write() or read() opens its path: the peer gives its references back and takes
\* them again, the thread's own stream takes its own, and every handle is open.
LEMMA PathOpens ==
  ASSUME Reliable, TypeOK, NEW s \in Streams, ThreadInv(s), pc[s] = "open", HandlesKept,
         NEW c \in Nat, Balanced(hw, PcmSet, MixerSet, c), NEW ok \in [Opens -> OpenResults]
  PROVE  /\ Balanced(InOpened(s, ok), IF s \in Outputs THEN PcmSet \cup {s} ELSE PcmSet,
                     MixerSet \cup {s}, c)
         /\ \A x \in Claimed(s) \cup {s} :
              Reopened(s, x, ok) = [stream[x] EXCEPT !.mPcm = TRUE, !.mMixer = TRUE]
<1>0. /\ ok["pcm"] = TRUE /\ ok["mixer"] = TRUE
      /\ ok["capturePcm"] = TRUE /\ ok["captureMixer"] = TRUE
  BY DEF Reliable, Opens
<1>1. /\ s \in Threads /\ None \notin Streams /\ Outputs \cap Inputs = {}
      /\ Outputs \cup Inputs = Streams /\ hw \in HwState
      /\ PcmSet \subseteq Streams /\ MixerSet \subseteq Streams
  BY ThreadsAssumption DEF Threads, Streams, TypeOK, PcmSet, MixerSet
<1>2. s \notin PcmSet /\ s \notin MixerSet /\ s # None
  BY <1>1 DEF ThreadInv, LeavesStandby, HandlesKept, PcmSet, MixerSet
<1>3. /\ sp[s].out \in Outputs \cup {None} /\ sp[s].in \in Inputs \cup {None}
      /\ s \in Outputs => sp[s].out = None
      /\ s \in Inputs => sp[s].in = None
      /\ Claimed(s) = {sp[s].out, sp[s].in} \ {None}
      /\ \A x \in Claimed(s) : x \in MixerSet /\ (x \in PcmSet <=> x \in Outputs) /\ x # s
  <2>1. Claimed(s) = {sp[s].out, sp[s].in} \ {None}
    BY DEF Claimed, Sides
  <2>2. \A x \in Claimed(s) : x \in Streams /\ ~stream[x].mStandby
    BY <1>1, ClaimedSets
  <2>3. stream[s].mStandby
    BY DEF ThreadInv, LeavesStandby
  <2>4. \A x \in Claimed(s) : x \in MixerSet /\ (x \in PcmSet <=> x \in Outputs) /\ x # s
    BY <2>2, <2>3 DEF HandlesKept, PcmSet, MixerSet
  <2> QED
    BY <1>1, <2>1, <2>4, TargetType DEF ThreadInv, OwnsTarget
<1> DEFINE h == PeerClosed(s)
<1>4. CASE s \in Outputs
  <2> DEFINE i == sp[s].in
             P == PcmSet \ {i}
             M == MixerSet \ {i}
             o == OpenStream(s, h, TRUE, TRUE)
  <2>1. h = CloseRef(i, hw)
    BY <1>3, <1>4 DEF PeerClosed, CloseRef
  <2>2. h \in HwState /\ Balanced(h, P, M, c)
    <3>1. /\ i \in Streams \cup {None}
          /\ i # None => (i \in PcmSet <=> i \in Outputs /\ stream[i].mPcm)
          /\ i # None => (i \in MixerSet <=> stream[i].mMixer)
      BY <1>1, <1>3 DEF PcmSet, MixerSet
    <3> HIDE DEF i
    <3>2. CloseRef(i, hw) \in HwState /\ Balanced(CloseRef(i, hw), P, M, c)
      BY <1>1, <3>1, RefGives
    <3> QED
      BY <2>1, <3>2
  <2>3. P = PcmSet
    BY <1>1, <1>3
  <2>4. s \notin P /\ s \notin M
    BY <1>2
  <2>5. OutOpened(s, ok) = o /\ Reopened(s, s, ok) = Opened(s, h, TRUE, TRUE)
    BY <1>0, <1>2, <1>4 DEF OutOpened, PathOut, Reopened
  <2> HIDE DEF h, P, M
  <2>6. /\ o \in HwState /\ Balanced(o, P \cup {s}, M \cup {s}, c)
        /\ Opened(s, h, TRUE, TRUE) = [stream[s] EXCEPT !.mPcm = TRUE, !.mMixer = TRUE]
    BY <1>4, <2>2, <2>4, StreamTakes
  <2>7. CASE i = None
    <3>1. InOpened(s, ok) = o /\ M = MixerSet /\ Claimed(s) = {}
      BY <1>1, <1>3, <1>4, <2>5, <2>7 DEF InOpened, PathIn, M
    <3> QED
      BY <1>4, <2>3, <2>5, <2>6, <3>1
  <2>8. CASE i # None
    <3>1. /\ i \in Streams /\ i \notin Outputs /\ i # s /\ Claimed(s) = {i} /\ i \in MixerSet
      BY <1>1, <1>3, <1>4, <2>8
    <3>2. i \notin P \cup {s} /\ i \notin M \cup {s}
      BY <3>1 DEF P, M
    <3>3. /\ InOpened(s, ok) = OpenStream(i, o, TRUE, TRUE)
          /\ Reopened(s, i, ok) = Opened(i, o, TRUE, TRUE)
      BY <1>0, <1>1, <1>4, <2>5, <2>8, <3>1 DEF InOpened, PathIn, Reopened
    <3> HIDE DEF o
    <3>4. /\ Balanced(OpenStream(i, o, TRUE, TRUE), P \cup {s}, (M \cup {s}) \cup {i}, c)
          /\ Opened(i, o, TRUE, TRUE) = [stream[i] EXCEPT !.mPcm = TRUE, !.mMixer = TRUE]
      BY <2>6, <3>1, <3>2, StreamTakes
    <3>5. (M \cup {s}) \cup {i} = MixerSet \cup {s}
      BY <3>1 DEF M
    <3> QED
      BY <1>4, <2>3, <2>5, <2>6, <3>1, <3>3, <3>4, <3>5
  <2> QED
    BY <2>7, <2>8
<1>5. CASE s \in Inputs
  <2> DEFINE o == sp[s].out
             P == PcmSet \ {o}
             M == MixerSet \ {o}
             g == OutOpened(s, ok)
  <2>1. h = CloseRef(o, hw) /\ s \notin Outputs
    BY <1>1, <1>3, <1>5 DEF PeerClosed, CloseRef
  <2>2. h \in HwState /\ Balanced(h, P, M, c)
    <3>1. /\ o \in Streams \cup {None}
          /\ o # None => (o \in PcmSet <=> o \in Outputs /\ stream[o].mPcm)
          /\ o # None => (o \in MixerSet <=> stream[o].mMixer)
      BY <1>1, <1>3 DEF PcmSet, MixerSet
    <3> HIDE DEF o
    <3>2. CloseRef(o, hw) \in HwState /\ Balanced(CloseRef(o, hw), P, M, c)
      BY <1>1, <3>1, RefGives
    <3> QED
      BY <2>1, <3>2
  <2> HIDE DEF h
  <2>3. /\ g \in HwState /\ Balanced(g, PcmSet, MixerSet, c)
        /\ \A x \in Claimed(s) :
             Reopened(s, x, ok) = [stream[x] EXCEPT !.mPcm = TRUE, !.mMixer = TRUE]
    <3>1. CASE o = None
      <4>1. g = h /\ P = PcmSet /\ M = MixerSet /\ Claimed(s) = {}
        BY <1>1, <1>3, <1>5, <2>1, <3>1 DEF OutOpened, PathOut, h
      <4> QED
        BY <2>2, <4>1
    <3>2. CASE o # None
      <4>1. /\ o \in Streams /\ o \in Outputs /\ Claimed(s) = {o} /\ o \in MixerSet /\ o \in PcmSet
        BY <1>1, <1>3, <1>5, <3>2
      <4>2. o \notin P /\ o \notin M /\ P \cup {o} = PcmSet /\ M \cup {o} = MixerSet
        BY <4>1
      <4>3. /\ g = OpenStream(o, h, TRUE, TRUE)
            /\ Reopened(s, o, ok) = Opened(o, h, TRUE, TRUE)
        BY <1>0, <2>1, <3>2, <4>1 DEF OutOpened, PathOut, Reopened, h
      <4> HIDE DEF P, M
      <4>4. /\ OpenStream(o, h, TRUE, TRUE) \in HwState
            /\ Balanced(OpenStream(o, h, TRUE, TRUE), P \cup {o}, M \cup {o}, c)
            /\ Opened(o, h, TRUE, TRUE) = [stream[o] EXCEPT !.mPcm = TRUE, !.mMixer = TRUE]
        BY <2>2, <4>1, <4>2, StreamTakes
      <4> QED
        BY <4>1, <4>2, <4>3, <4>4
    <3> QED
      BY <3>1, <3>2
  <2>4. /\ InOpened(s, ok) = OpenStream(s, g, TRUE, TRUE)
        /\ Reopened(s, s, ok) = Opened(s, g, TRUE, TRUE)
    BY <1>0, <1>2, <1>5, <2>1 DEF InOpened, PathIn, Reopened
  <2> HIDE DEF g
  <2>5. /\ Balanced(OpenStream(s, g, TRUE, TRUE), PcmSet, MixerSet \cup {s}, c)
        /\ Opened(s, g, TRUE, TRUE) = [stream[s] EXCEPT !.mPcm = TRUE, !.mMixer = TRUE]
    BY <1>2, <2>1, <2>3, StreamTakes
  <2> QED
    BY <2>1, <2>3, <2>4, <2>5
<1> QED
  BY <1>1, <1>4, <1>5

\* So the counts hold after OpenPath.
LEMMA OpenPathCounted ==
  ASSUME Reliable, CountInv, TypeOK', NEW s \in Streams, Frame(s), OpenPath(s)
  PROVE  Counted'
<1>0. /\ TypeOK /\ s \in Threads /\ (\A u \in Threads : ThreadInv(u))
      /\ HandlesKept /\ TransferActive /\ Balanced(hw, PcmSet, MixerSet, CallRefs) /\ pc[s] = "open"
      /\ CallRefs \in Nat /\ CallRefs' = CallRefs /\ ThreadInv(s)
      /\ stream \in [Streams -> StreamState]
  BY DEF CountInv, OwnInv, IInv, Counted, Threads, OpenPath, CallRefs, TypeOK
<1>1. PICK ok \in [Opens -> OpenResults] :
        LET failed == FailedPeers(s, ok)
            opened == Reopened(s, s, ok).mPcm
        IN  /\ hw' = InOpened(s, ok)
            /\ stream' = [x \in Streams |->
                 IF x = s THEN [Reopened(s, s, ok) EXCEPT !.mStandby = ~opened]
                 ELSE IF x \in failed THEN InStandby(x)
                 ELSE IF x \in Claimed(s) THEN Reopened(s, x, ok)
                 ELSE stream[x]]
  BY DEF OpenPath
<1>2. /\ Balanced(hw', IF s \in Outputs THEN PcmSet \cup {s} ELSE PcmSet,
                  MixerSet \cup {s}, CallRefs)
      /\ \A x \in Claimed(s) \cup {s} :
           Reopened(s, x, ok) = [stream[x] EXCEPT !.mPcm = TRUE, !.mMixer = TRUE]
  BY <1>0, <1>1, PathOpens
<1>3. \A x \in Streams :
        LET new == [stream[x] EXCEPT !.mPcm = TRUE, !.mMixer = TRUE]
        IN  new.mPcm /\ new.mMixer /\ new.mStandby = stream[x].mStandby
            /\ new \in StreamState
  BY <1>0 DEF StreamState
<1>4. Claimed(s) \in SUBSET Streams /\ \A x \in Claimed(s) : ~stream[x].mStandby /\ sLock[x] = s
  BY <1>0, ClaimedSets
<1>5. FailedPeers(s, ok) = {}
  <2>1. ASSUME NEW x \in Claimed(s) PROVE Reopened(s, x, ok).mPcm
    <3>1. Reopened(s, x, ok) = [stream[x] EXCEPT !.mPcm = TRUE, !.mMixer = TRUE]
      BY <1>2
    <3> QED
      BY <1>3, <1>4, <3>1
  <2> QED
    BY <2>1 DEF FailedPeers
<1>6. stream'[s].mPcm /\ stream'[s].mMixer /\ ~stream'[s].mStandby
  <2> DEFINE r == Reopened(s, s, ok)
  <2>1. r \in StreamState /\ r.mPcm /\ r.mMixer
    BY <1>2, <1>3
  <2>2. stream'[s] = [r EXCEPT !.mStandby = ~r.mPcm]
    BY <1>1
  <2> HIDE DEF r
  <2> QED
    BY <2>1, <2>2 DEF StreamState
<1>7. \A x \in Claimed(s) : stream'[x].mPcm /\ stream'[x].mMixer /\ ~stream'[x].mStandby
  <2> SUFFICES ASSUME NEW x \in Claimed(s)
               PROVE  stream'[x].mPcm /\ stream'[x].mMixer /\ ~stream'[x].mStandby
    OBVIOUS
  <2>1. CASE x = s
    BY <1>6, <2>1
  <2>2. CASE x # s
    <3>1. stream'[x] = Reopened(s, x, ok) /\ x \in Streams
      BY <1>1, <1>4, <1>5, <2>2
    <3> QED
      BY <1>2, <1>3, <1>4, <3>1
  <2> QED
    BY <2>1, <2>2
<1>8. \A x \in Streams : x # s /\ x \notin Claimed(s) => stream'[x] = stream[x]
  BY <1>1, <1>5
<1>9. HandlesKept'
  BY <1>0, <1>6, <1>7, <1>8 DEF HandlesKept
<1>10. \A x \in Streams : ~stream'[x].mStandby <=> x = s \/ ~stream[x].mStandby
  BY <1>4, <1>6, <1>7, <1>8
<1>11. PcmSet' = IF s \in Outputs THEN PcmSet \cup {s} ELSE PcmSet
  BY <1>0, <1>9, <1>10 DEF PcmSet, HandlesKept, Streams
<1>12. MixerSet' = MixerSet \cup {s}
  BY <1>0, <1>9, <1>10 DEF MixerSet, HandlesKept
<1>13. TransferActive'
  <2> SUFFICES ASSUME NEW x \in Streams, pc'[x] = "transfer" PROVE ~stream'[x].mStandby
    BY DEF TransferActive
  <2>1. CASE x # s
    BY <1>0, <1>10, <2>1 DEF Frame, TransferActive, Threads
  <2> QED
    BY <1>6, <2>1
<1> QED
  BY <1>0, <1>2, <1>9, <1>11, <1>12, <1>13 DEF Counted

\* standby() of one stream, by its own thread or by the thread that destroys it.
LEMMA OneCounted ==
  ASSUME CountInv, NEW t \in Threads, Frame(t), NEW s \in Streams, sLock[s] = t,
         stream' = StandbyAll({s}), hw' = CloseStream(s, hw), UNCHANGED mInCallAudioMode,
         pc'[t] # "transfer"
  PROVE  Counted'
<1>0. /\ TypeOK /\ \A u \in Threads : ThreadInv(u)
      /\ HandlesKept /\ TransferActive /\ Balanced(hw, PcmSet, MixerSet, CallRefs)
      /\ CallRefs \in Nat /\ CallRefs' = CallRefs /\ hw \in HwState
  BY DEF CountInv, OwnInv, IInv, Counted, CallRefs, TypeOK
<1>1. /\ HandlesKept' /\ PcmSet' = PcmSet \ {s} /\ MixerSet' = MixerSet \ {s}
      /\ TransferActive'
  BY <1>0, StandbySets, StandbyTransfer
<1>2. /\ s \in PcmSet <=> s \in Outputs /\ stream[s].mPcm
      /\ s \in MixerSet <=> stream[s].mMixer
  BY DEF PcmSet, MixerSet
<1>3. Balanced(hw', PcmSet \ {s}, MixerSet \ {s}, CallRefs)
  BY <1>0, <1>2, StreamGives
<1> QED
  BY <1>0, <1>1, <1>3 DEF Counted

\* A new object is made where no active stream was, so it takes nobody's handles.
LEMMA OpenCounted ==
  ASSUME CountInv, NEW t \in Controls, NEW s \in Streams, Open(t, s)
  PROVE  Counted'
<1>0. /\ TypeOK /\ HandlesKept /\ TransferActive /\ Balanced(hw, PcmSet, MixerSet, CallRefs)
      /\ ActiveOwned /\ CallersRegistered
      /\ UNCHANGED <<hw, mInCallAudioMode, pc>>
  BY DEF CountInv, OwnInv, IInv, Counted, Owned, Open, devVars, threadVars
<1>1. ~Registered(s) /\ ~Referenced(s) /\ stream' = [stream EXCEPT ![s] = NewStream]
  BY DEF Open
<1>2. stream[s].mStandby /\ ~stream[s].mPcm /\ ~stream[s].mMixer /\ pc[s] = "idle"
  BY <1>0, <1>1 DEF ActiveOwned, HandlesKept, CallersRegistered
<1>3. stream'[s].mStandby /\ ~stream'[s].mPcm /\ ~stream'[s].mMixer
  BY <1>0, <1>1 DEF NewStream, TypeOK
<1>4. \A x \in Streams : x # s => stream'[x] = stream[x]
  BY <1>0, <1>1 DEF TypeOK
<1>5. HandlesKept'
  BY <1>0, <1>3, <1>4 DEF HandlesKept
<1>6. TransferActive'
  BY <1>0, <1>2, <1>4 DEF TransferActive
<1>7. PcmSet' = PcmSet
  BY <1>2, <1>3, <1>4 DEF PcmSet, Streams
<1>8. MixerSet' = MixerSet
  BY <1>2, <1>3, <1>4 DEF MixerSet
<1> QED
  BY <1>0, <1>5, <1>6, <1>7, <1>8 DEF Counted, CallRefs

\* The other calls that begin count nothing.
LEMMA BeginsCounted ==
  ASSUME Reliable, CountInv, Begins
  PROVE  Counted'
<1>0. TypeOK /\ Streams \subseteq Threads /\ Controls \subseteq Threads /\ Counted
      /\ Controls \cap Streams = {}
  BY ThreadsAssumption DEF CountInv, OwnInv, IInv, Threads
<1> USE DEF Goto
<1>1. ASSUME NEW t \in Controls, NEW s \in Streams, Close(t, s) PROVE Counted'
  BY <1>0, <1>1, StillCounted DEF Close, devVars, TypeOK
<1>2. ASSUME NEW t \in Controls, NEW mode \in Modes, SetMode(t, mode) PROVE Counted'
  BY <1>0, <1>2, StillCounted DEF SetMode, devVars, TypeOK
<1>3. ASSUME NEW t \in Controls, FmOn(t) \/ FmOff(t) PROVE FALSE
  <2>1. fmCalls \in Nat /\ FmCalls = 0
    BY <1>0 DEF TypeOK, Reliable
  <2>2. BeginFm(t)
    BY <1>3 DEF FmOn, FmOff
  <2> QED
    BY <2>1, <2>2 DEF BeginFm
<1>4. ASSUME NEW s \in Streams, BeginIo(s) \/ BeginStandby(s) \/ BeginRoute(s) PROVE Counted'
  BY <1>0, <1>4, StillCounted DEF BeginIo, BeginStandby, BeginRoute, Begin, devVars, TypeOK
<1> QED
  BY <1>1, <1>2, <1>3, <1>4, OpenCounted DEF Begins

\* Every step inside the HAL keeps the counts.
LEMMA StepCounted ==
  ASSUME Reliable, CountInv, TypeOK', NEW t \in Threads, Frame(t), Step(t)
  PROVE  Counted'
<1>0. /\ TypeOK /\ ThreadInv(t) /\ Counted /\ RadioOff
      /\ Balanced(hw, PcmSet, MixerSet, CallRefs) /\ CallRefs \in Nat /\ hw \in HwState
      /\ Streams \subseteq Threads
  BY DEF CountInv, OwnInv, IInv, Counted, CallRefs, TypeOK, Threads
<1>1. ASSUME UNCHANGED <<stream, hw, mInCallAudioMode>>,
             t \in Streams /\ pc'[t] = "transfer" => ~stream[t].mStandby
      PROVE  Counted'
  <2>1. \A s \in Streams : pc'[s] = "transfer" => pc[s] = "transfer" \/ ~stream[s].mStandby
    BY <1>0, <1>1 DEF Frame
  <2> QED
    BY <1>0, <1>1, <2>1, StillCounted
<1> USE DEF Goto, TypeOK
<1>2. CASE LoopStep(t)
  <2>1. /\ UNCHANGED <<stream, hw, mInCallAudioMode>>
        /\ pc'[t] # "transfer"
    BY <1>0, <1>2 DEF LoopStep, ChaseNone, ChasePrepare, LockStream, RelockSelf, RecheckFound,
       RecheckLost, EndLoop, devVars
  <2> QED
    BY <1>1, <2>1
<1>3. CASE DtorStep(t)
  <2>1. CASE Drop(t) \/ DtorLock(t)
    <3>1. UNCHANGED <<stream, hw, mInCallAudioMode>> /\ pc'[t] # "transfer"
      BY <1>0, <2>1 DEF Drop, DtorLock, devVars
    <3> QED
      BY <1>1, <3>1
  <2>2. CASE DtorHw(t)
    <3>1. Target(t) \in Streams /\ sLock[Target(t)] = t
      BY <1>0, <2>2, TargetType DEF DtorHw, ThreadInv, OwnsTarget
    <3>2. /\ stream' = StandbyAll({Target(t)}) /\ hw' = CloseStream(Target(t), hw)
          /\ UNCHANGED mInCallAudioMode /\ pc'[t] # "transfer"
      BY <1>0, <2>2 DEF DtorHw
    <3> QED
      BY <3>1, <3>2, OneCounted
  <2> QED
    BY <1>3, <2>1, <2>2 DEF DtorStep
<1>4. CASE t \in Controls /\ ControlStep(t)
  <2>1. CASE ModeHw(t)
    <3>1. UNCHANGED <<stream, hw, mInCallAudioMode>> /\ pc'[t] # "transfer"
      BY <1>0, <2>1 DEF ModeHw, devVars
    <3> QED
      BY <1>1, <3>1
  <2>2. CASE FmStep(t)
    BY <1>0, <1>4, <2>2 DEF FmStep, RadioOff, FmPCs
  <2> QED
    BY <1>4, <2>1, <2>2, ModeCounted DEF ControlStep
<1>5. CASE t \in Streams /\ DataStep(t)
  <2>1. ASSUME StandbyStep(t, {t}), sLock[t] = t, UNCHANGED mInCallAudioMode
        PROVE  Counted'
    <3>1. /\ stream' = StandbyAll({t}) /\ hw' = CloseStream(t, hw) /\ pc'[t] # "transfer"
      BY <1>0, <2>1 DEF StandbyStep
    <3> QED
      BY <1>5, <2>1, <3>1, OneCounted
  <2>2. ASSUME StandbyStep(t, {}) PROVE Counted'
    <3>1. stream' = stream
      <4>1. stream' = [x \in Streams |-> stream[x]] /\ stream \in [Streams -> StreamState]
        BY <1>0, <2>2 DEF StandbyStep, StandbyAll
      <4> QED
        BY <4>1
    <3>2. UNCHANGED <<hw, mInCallAudioMode>> /\ pc'[t] # "transfer"
      BY <1>0, <2>2 DEF StandbyStep
    <3> QED
      BY <1>1, <3>1, <3>2
  <2>3. CASE StandbyHw(t)
    BY <1>0, <1>5, <2>1, <2>3 DEF StandbyHw, ThreadInv, OwnsStream, StandbyStep
  <2>4. CASE Route(t)
    <3>1. StandbyStep(t, {}) \/ StandbyStep(t, {t})
      BY <2>4 DEF Route
    <3>2. sLock[t] = t
      BY <1>0, <1>5, <2>4 DEF Route, ThreadInv, OwnsStream
    <3> QED
      BY <2>1, <2>2, <3>1, <3>2 DEF StandbyStep
  <2>5. CASE InputSource(t)
    <3>1. /\ hw' = CloseMixer(OpenMixer(hw, TRUE)) /\ UNCHANGED <<stream, mInCallAudioMode>>
          /\ pc'[t] = "idle"
      BY <1>0, <2>5 DEF InputSource, Reliable
    <3>2. Balanced(hw', PcmSet, MixerSet, CallRefs)
      BY <1>0, <3>1, MixerBorrowed
    <3>3. \A s \in Streams : pc'[s] = "transfer" => pc[s] = "transfer"
      BY <1>0, <3>1 DEF Frame
    <3> QED
      BY <1>0, <3>1, <3>2, <3>3 DEF Counted, HandlesKept, TransferActive, PcmSet, MixerSet,
         CallRefs
  <2>6. CASE LockSelf(t)
    <3>1. /\ UNCHANGED <<stream, hw, mInCallAudioMode>>
          /\ pc'[t] = "transfer" => ~stream[t].mStandby
      BY <1>0, <2>6 DEF LockSelf, devVars
    <3> QED
      BY <1>1, <3>1
  <2>7. CASE ExitStandby(t) \/ Transfer(t)
    <3>1. UNCHANGED <<stream, hw, mInCallAudioMode>> /\ pc'[t] # "transfer"
      BY <1>0, <2>7 DEF ExitStandby, Transfer, devVars
    <3> QED
      BY <1>1, <3>1
  <2> QED
    BY <1>5, <2>3, <2>4, <2>5, <2>6, <2>7, OpenPathCounted DEF DataStep
<1> QED
  BY <1>2, <1>3, <1>4, <1>5 DEF Step

\* Nothing is open, and nobody holds anything, at the start.
LEMMA CountInit == Init => CountInv
<1> SUFFICES ASSUME Init PROVE CountInv
  OBVIOUS
<1>1. PcmSet = {} /\ MixerSet = {} /\ CallRefs = 0
  BY DEF Init, PcmSet, MixerSet, CallRefs, NewStream, Streams
<1>2. Balanced(hw, PcmSet, MixerSet, CallRefs)
  BY <1>1, FS_EmptySet DEF Balanced, Init
<1>3. HandlesKept /\ TransferActive
  BY DEF Init, HandlesKept, TransferActive, NewStream, Threads
<1>4. RadioOff
  BY DEF Init, RadioOff, FmPCs, Threads
<1> QED
  BY <1>2, <1>3, <1>4, OwnInit DEF CountInv, Counted

\* Every step keeps the counts.
LEMMA CountStep == Reliable /\ CountInv /\ [Next]_vars => CountInv'
<1> SUFFICES ASSUME Reliable, CountInv, [Next]_vars PROVE CountInv'
  OBVIOUS
<1>0. /\ TypeOK /\ TypeOK' /\ OwnInv' /\ RadioOff /\ Counted /\ \A t \in Threads : ThreadInv(t)
  BY OwnStep, TypeStep DEF CountInv, OwnInv, IInv
<1>1. CASE UNCHANGED vars
  <2>1. RadioOff'
    BY <1>0, <1>1 DEF RadioOff, vars, devVars, threadVars
  <2>2. Counted'
    BY <1>0, <1>1, StillCounted DEF vars, devVars, threadVars
  <2> QED
    BY <1>0, <2>1, <2>2 DEF CountInv
<1>2. CASE Next
  <2>1. RadioOff'
    BY <1>0, <1>2, RadioOffStep
  <2>2. ASSUME NEW t \in Threads, Step(t) PROVE Counted'
    <3>1. Frame(t)
      BY <1>0, <2>2, LoopKeeps, DtorKeeps, ControlKeeps, DataKeeps DEF Step
    <3> QED
      BY <1>0, <2>2, <3>1, StepCounted
  <2>3. ASSUME ClientsDone PROVE Counted'
    <3>1. UNCHANGED vars
      BY <2>3 DEF ClientsDone
    <3>2. UNCHANGED <<stream, hw, mInCallAudioMode, pc>>
      BY <3>1 DEF vars, devVars, threadVars
    <3> QED
      BY <1>0, <3>2, StillCounted
  <2> QED
    BY <1>0, <1>2, <2>1, <2>2, <2>3, BeginsCounted DEF Next, CountInv
<1> QED
  BY <1>1, <1>2

\* CountsMatch, when every open succeeds and the radio is not used, for clients
\* that may close a stream at any time: setMode(), standby() and the destructors
\* take no reference that is not theirs, and every device is closed with its last.
THEOREM CountsAgree ==
  ASSUME Reliable
  PROVE  Spec => []CountsMatch
<1>1. CountInv /\ [Next]_vars => CountInv'
  BY CountStep
<1>2. CountInv => CountsMatch
  <2> SUFFICES ASSUME CountInv PROVE CountsMatch
    OBVIOUS
  <2>1. Balanced(hw, PcmSet, MixerSet, CallRefs) /\ hw \in HwState
    BY DEF CountInv, Counted, OwnInv, IInv, TypeOK
  <2>2. /\ PcmHolders = Cardinality(PcmSet) + CallRefs
        /\ MixerHolders = Cardinality(MixerSet) + CallRefs
    BY DEF PcmHolders, MixerHolders, PcmSet, MixerSet, CallRefs, Count
  <2>3. hw.mPcm \in BOOLEAN /\ hw.mMixer \in BOOLEAN
    BY <2>1 DEF HwState
  <2> QED
    BY <2>1, <2>2, <2>3 DEF Balanced, CountsMatch, NoCloseTooMany
<1> QED
  BY <1>1, <1>2, CountInit, PTL DEF Spec

\* TransferOnOpenHandle, likewise: pcm_write() and pcm_read(), which run without
\* the hardware's mutex, get a handle that nobody has closed since.
THEOREM TransfersOnOpenHandle ==
  ASSUME Reliable
  PROVE  Spec => []TransferOnOpenHandle
<1>1. CountInv /\ [Next]_vars => CountInv'
  BY CountStep
<1>2. CountInv => TransferOnOpenHandle
  <2> SUFFICES ASSUME CountInv, NEW s \in Streams, pc[s] = "transfer"
               PROVE  stream[s].mPcm /\ (s \in Outputs => hw.mPcm)
    BY DEF TransferOnOpenHandle, HandleOpen
  <2>1. stream[s].mPcm
    BY DEF CountInv, Counted, TransferActive, HandlesKept
  <2>2. ASSUME s \in Outputs PROVE hw.mPcm
    <3>1. s \in PcmSet /\ IsFiniteSet(PcmSet)
      BY <2>1, <2>2 DEF PcmSet, CountInv, Counted, Balanced
    <3>2. Cardinality(PcmSet) \in Nat /\ Cardinality(PcmSet) # 0
      BY <3>1, FS_EmptySet, FS_CardinalityType
    <3>3. CallRefs \in Nat
      BY DEF CallRefs
    <3> QED
      BY <3>2, <3>3 DEF CountInv, Counted, Balanced
  <2> QED
    BY <2>1, <2>2
<1> QED
  BY <1>1, <1>2, CountInit, PTL DEF Spec

-----------------------------------------------------------------------------
(* The wake locks.  They are two, not counted: doStandby_l() of one stream   *)
(* would release the lock of another of its kind.  The policy lets one input *)
(* work at a time; OneOutput is the same of the outputs.                     *)

LoopPCs == {"chase", "lock", "relock", "recheck", "open", "dtorLock", "dtorHw"}

OneOutput == \A o, p \in Outputs : o = p

\* Who acquired a wake lock and has not released it, and who may be about to.
Holding(s) == ~stream[s].mStandby \/ pc[s] \in LoopPCs
Working(s) == Holding(s) \/ pc[s] \in {"ioLock", "exitStandby", "transfer"}

\* One stream of each kind works at a time ...
OneWorker ==
  \A x, y \in Streams : Working(x) /\ Working(y) /\ WakeLock(x) = WakeLock(y) => x = y

\* ... it holds the lock of its kind, and nobody else does ...
Held ==
  /\ \A s \in Streams : Holding(s) => WakeLock(s) \in wakeLocks
  /\ \A w \in wakeLocks : \E s \in Streams : Holding(s) /\ w = WakeLock(s)

\* ... and no data thread destroys a stream: one that would waits for ever for
\* the hardware's mutex, which it owns.
NoDestroyer ==
  \A s \in Streams : pc[s] # "drop" /\ (pc[s] \in {"dtorLock", "dtorHw"} => mLock = s)

WakeInv == OwnInv /\ OneWorker /\ Held /\ NoDestroyer

\* A step after which the streams of R no longer hold their wake locks, and
\* nobody else begins or ceases to hold one.
Gives(R) ==
  /\ R \subseteq Streams
  /\ \A x \in R : Working(x) /\ ~Holding(x)'
  /\ \A y \in Streams \ R : Holding(y)' <=> Holding(y)
  /\ \A y \in Streams : Working(y)' => Working(y)
  /\ wakeLocks' = wakeLocks \ {WakeLock(x) : x \in R}

LEMMA HeldAfter ==
  ASSUME OneWorker, Held, NEW R, Gives(R)
  PROVE  OneWorker' /\ Held'
<1>1. OneWorker'
  BY DEF OneWorker, Gives, WakeLock
<1>2. ASSUME NEW s \in Streams, Holding(s)' PROVE WakeLock(s) \in wakeLocks'
  <2>1. s \notin R
    BY <1>2 DEF Gives
  <2>2. Holding(s) /\ Working(s) /\ WakeLock(s) \in wakeLocks
    BY <1>2, <2>1 DEF Gives, Held, Working
  <2>3. \A x \in R : WakeLock(x) # WakeLock(s)
    BY <2>1, <2>2 DEF Gives, OneWorker
  <2> QED
    BY <2>2, <2>3 DEF Gives
<1>3. ASSUME NEW w \in wakeLocks' PROVE \E s \in Streams : Holding(s)' /\ w = WakeLock(s)
  <2>1. PICK s \in Streams : Holding(s) /\ w = WakeLock(s)
    BY <1>3 DEF Gives, Held
  <2>2. s \notin R
    BY <1>3, <2>1 DEF Gives
  <2> QED
    BY <2>1, <2>2 DEF Gives
<1>4. (\A s \in Streams : Holding(s) => WakeLock(s) \in wakeLocks)'
  BY <1>2 DEF WakeLock
<1>5. (\A w \in wakeLocks : \E s \in Streams : Holding(s) /\ w = WakeLock(s))'
  BY <1>3 DEF WakeLock
<1> QED
  BY <1>1, <1>4, <1>5 DEF Held

\* A step that changes no stream and no wake lock, and takes no thread into the
\* loop or out of it.
LEMMA NoneGiven ==
  ASSUME UNCHANGED <<stream, wakeLocks>>,
         \A y \in Streams : pc'[y] \in LoopPCs <=> pc[y] \in LoopPCs,
         \A y \in Streams : Working(y)' => Working(y)
  PROVE  Gives({})
BY DEF Gives, Holding

\* The same, of a thread t that alone moves.
LEMMA NoneGivenBy ==
  ASSUME NEW t, UNCHANGED <<stream, wakeLocks>>,
         \A y \in Streams : y # t => pc'[y] = pc[y],
         t \in Streams => (pc'[t] \in LoopPCs <=> pc[t] \in LoopPCs),
         t \in Streams => (Working(t)' => Working(t))
  PROVE  Gives({})
<1>1. \A y \in Streams : pc'[y] \in LoopPCs <=> pc[y] \in LoopPCs
  OBVIOUS
<1>2. ASSUME NEW y \in Streams, Working(y)' PROVE Working(y)
  BY <1>2 DEF Working, Holding
<1> QED
  BY <1>1, <1>2, NoneGiven

\* A data thread that holds a stream's last reference in the loop stays there.
LEMMA NoDestroyerStep ==
  ASSUME TypeOK, NoDestroyer, NEW t \in Threads, Frame(t), Step(t)
  PROVE  NoDestroyer'
<1>0. /\ Streams \subseteq Threads /\ None \notin Streams /\ Controls \cap Streams = {}
      /\ pc \in [Threads -> PCs]
  BY ThreadsAssumption DEF Threads, Streams, TypeOK
<1> SUFFICES ASSUME NEW s \in Streams
             PROVE  pc'[s] # "drop" /\ (pc'[s] \in {"dtorLock", "dtorHw"} => mLock' = s)
  BY DEF NoDestroyer
<1>1. pc[s] # "drop" /\ (pc[s] \in {"dtorLock", "dtorHw"} => mLock = s)
  BY DEF NoDestroyer
<1>2. CASE s # t
  <2>1. pc'[s] = pc[s] /\ (mLock' # mLock => mLock \in {None, t})
    BY <1>0, <1>2 DEF Frame
  <2> QED
    BY <1>0, <1>1, <1>2, <2>1
<1>3. CASE s = t
  <2>1. CASE LoopStep(t)
    BY <1>0, <1>3, <2>1 DEF LoopStep, ChaseNone, ChasePrepare, LockStream, RelockSelf,
       RecheckFound, RecheckLost, EndLoop, Goto
  <2>2. CASE DtorStep(t)
    BY <1>0, <1>1, <1>3, <2>2 DEF DtorStep, Drop, DtorLock, DtorHw, Goto
  <2>3. CASE DataStep(t)
    BY <1>0, <1>3, <2>3 DEF DataStep, LockSelf, ExitStandby, OpenPath, Transfer, StandbyHw,
       Route, StandbyStep, InputSource, Goto
  <2> QED
    BY <1>0, <1>3, <2>1, <2>2, <2>3 DEF Step
<1> QED
  BY <1>2, <1>3

LEMMA NoDestroyerBegins ==
  ASSUME TypeOK, NoDestroyer, Begins
  PROVE  NoDestroyer'
<1>0. /\ Streams \subseteq Threads /\ Controls \cap Streams = {} /\ pc \in [Threads -> PCs]
  BY ThreadsAssumption DEF Threads, Streams, TypeOK
<1> USE DEF Goto
<1>1. mLock' = mLock
  BY DEF Begins, Open, Close, SetMode, FmOn, FmOff, BeginFm, BeginIo, BeginStandby, BeginRoute,
     Begin, lockVars
<1>2. ASSUME NEW s \in Streams
      PROVE  pc'[s] = pc[s] \/ pc'[s] \in {"ioLock", "standbyLock", "routeLock"}
  BY <1>0 DEF Begins, Open, Close, SetMode, FmOn, FmOff, BeginFm, BeginIo, BeginStandby,
     BeginRoute, Begin, threadVars
<1> QED
  BY <1>1, <1>2 DEF NoDestroyer

\* An active stream is not in the loop: neither its write() or read() takes it
\* out of standby, nor does its thread destroy a stream, unless it owns mLock.
LEMMA NotInLoop ==
  ASSUME TypeOK, NoDestroyer, NEW s \in Streams, ThreadInv(s), ~stream[s].mStandby, mLock # s
  PROVE  pc[s] \notin LoopPCs
BY DEF NoDestroyer, ThreadInv, LeavesStandby, LoopPCs

\* The loop is left alone by its own steps.
LEMMA LoopGives ==
  ASSUME TypeOK, NEW t \in Threads, LoopStep(t)
  PROVE  Gives({})
<1>0. Streams \subseteq Threads /\ pc \in [Threads -> PCs] /\ Controls \cap Streams = {}
  BY ThreadsAssumption DEF Threads, Streams, TypeOK
<1> USE DEF Goto
<1>1. UNCHANGED <<stream, wakeLocks>>
  BY DEF LoopStep, ChaseNone, ChasePrepare, LockStream, RelockSelf, RecheckFound, RecheckLost
<1>2. ASSUME NEW y \in Streams, y # t PROVE pc'[y] = pc[y]
  BY <1>0, <1>2 DEF LoopStep, ChaseNone, ChasePrepare, LockStream, RelockSelf, RecheckFound,
     RecheckLost, EndLoop
<1>3. ASSUME t \in Streams PROVE pc[t] \in LoopPCs /\ pc'[t] \in LoopPCs
  BY <1>0, <1>3 DEF LoopPCs, LoopStep, ChaseNone, ChasePrepare, LockStream, RelockSelf,
     RecheckFound, RecheckLost, EndLoop
<1>4. t \in Streams => Working(t)
  BY <1>3 DEF Working, Holding
<1> QED
  BY <1>1, <1>2, <1>3, <1>4, NoneGivenBy

\* doStandby_l() of a stream that is in no loop then.
LEMMA StandbyGives ==
  ASSUME TypeOK, NEW S \in SUBSET Streams, stream' = StandbyAll(S),
         wakeLocks' = wakeLocks \ Released(S),
         \A x \in S : ~stream[x].mStandby => pc'[x] \notin LoopPCs,
         \A y \in Streams : pc'[y] \in LoopPCs <=> pc[y] \in LoopPCs,
         \A y \in Streams : pc'[y] = pc[y] \/ pc'[y] \notin LoopPCs \cup
                              {"ioLock", "exitStandby", "transfer"}
  PROVE  \E R : Gives(R)
<1> DEFINE R == {x \in S : ~stream[x].mStandby}
<1>1. \A x \in S : stream'[x].mStandby
  BY DEF StandbyAll, InStandby
<1>2. \A y \in Streams \ S : stream'[y] = stream[y]
  BY DEF StandbyAll
<1>3. ASSUME NEW x \in R PROVE Working(x) /\ ~Holding(x)'
  BY <1>1 DEF Working, Holding
<1>4. ASSUME NEW y \in Streams \ R PROVE Holding(y)' <=> Holding(y)
  BY <1>1, <1>2 DEF Holding
<1>5. ASSUME NEW y \in Streams, Working(y)' PROVE Working(y)
  <2>1. ~stream'[y].mStandby => ~stream[y].mStandby
    BY <1>1, <1>2
  <2> QED
    BY <1>5, <2>1 DEF Working, Holding
<1>6. wakeLocks' = wakeLocks \ {WakeLock(x) : x \in R}
  BY DEF Released
<1> HIDE DEF R
<1>7. R \subseteq Streams
  BY DEF R
<1> QED
  BY <1>3, <1>4, <1>5, <1>6, <1>7 DEF Gives

LEMMA DtorGives ==
  ASSUME TypeOK, NoDestroyer, \A u \in Threads : ThreadInv(u), NEW t \in Threads, DtorStep(t)
  PROVE  \E R : Gives(R)
<1>0. Streams \subseteq Threads /\ pc \in [Threads -> PCs] /\ None \notin Threads
  BY ThreadsAssumption DEF Threads, Streams, TypeOK
<1> USE DEF Goto
<1>1. ASSUME NEW y \in Streams, y # t PROVE pc'[y] = pc[y]
  BY <1>0, <1>1 DEF DtorStep, Drop, DtorLock, DtorHw
<1>2. CASE Drop(t)
  <2>1. t \notin Streams /\ UNCHANGED <<stream, wakeLocks>>
    BY <1>2 DEF Drop, NoDestroyer
  <2> QED
    BY <1>1, <2>1, NoneGivenBy
<1>3. CASE DtorLock(t)
  <2>1. UNCHANGED <<stream, wakeLocks>> /\ pc[t] \in LoopPCs /\ pc'[t] \in LoopPCs
    BY <1>0, <1>3 DEF DtorLock, LoopPCs
  <2>2. t \in Streams => Working(t)
    BY <2>1 DEF Working, Holding
  <2> QED
    BY <1>1, <2>1, <2>2, NoneGivenBy
<1>4. CASE DtorHw(t)
  <2>1. /\ pc[t] = "dtorHw" /\ mLock = None /\ stream' = StandbyAll({Target(t)})
        /\ wakeLocks' = wakeLocks \ Released({Target(t)})
    BY <1>4 DEF DtorHw
  <2>2. t \notin Streams
    BY <1>0, <2>1 DEF NoDestroyer
  <2>3. Target(t) \in Streams
    BY <2>1, TargetType DEF ThreadInv, OwnsTarget
  <2>4. \A y \in Streams : pc'[y] = pc[y]
    BY <1>1, <2>2
  <2>5. ~stream[Target(t)].mStandby => pc'[Target(t)] \notin LoopPCs
    BY <1>0, <2>1, <2>3, <2>4, NotInLoop
  <2> QED
    BY <2>1, <2>3, <2>4, <2>5, StandbyGives
<1> QED
  BY <1>2, <1>3, <1>4 DEF DtorStep

LEMMA ControlGives ==
  ASSUME TypeOK, NoDestroyer, \A u \in Threads : ThreadInv(u), NEW t \in Controls, ControlStep(t)
  PROVE  \E R : Gives(R)
<1>0. /\ Streams \subseteq Threads /\ pc \in [Threads -> PCs] /\ t \in Threads
      /\ t \notin Streams
  BY ThreadsAssumption DEF Threads, Streams, TypeOK
<1> USE DEF Goto
<1>1. ASSUME NEW y \in Streams PROVE pc'[y] = pc[y]
  BY <1>0, <1>1 DEF ControlStep, ModeHw, CallStarts, CallEnds, ModeOnly, EndMode, FmStep
<1>2. CASE ModeHw(t) \/ ModeOnly(t) \/ FmStep(t)
  <2>1. UNCHANGED <<stream, wakeLocks>>
    BY <1>2 DEF ModeHw, ModeOnly, FmStep
  <2> QED
    BY <1>0, <1>1, <2>1, NoneGivenBy
<1>3. CASE CallStarts(t) \/ CallEnds(t)
  <2>1. /\ pc[t] = "apply" /\ stream' = StandbyAll(Claimed(t))
        /\ wakeLocks' = wakeLocks \ Released(Claimed(t))
    BY <1>3 DEF CallStarts, CallEnds
  <2>2. mLock = t
    BY <1>0, <2>1 DEF ThreadInv, OwnsHardware
  <2>3. Claimed(t) \in SUBSET Streams
    BY <1>0, <2>1, ClaimedSets
  <2>4. ASSUME NEW x \in Claimed(t), ~stream[x].mStandby PROVE pc'[x] \notin LoopPCs
    BY <1>0, <1>1, <2>2, <2>3, <2>4, NotInLoop
  <2> QED
    BY <1>1, <2>1, <2>3, <2>4, StandbyGives
<1> QED
  BY <1>2, <1>3 DEF ControlStep

\* Opening a path: the peers that do not open again, and the stream itself if
\* it does not, give their wake locks up.
LEMMA OpenPathGives ==
  ASSUME TypeOK, NoDestroyer, \A u \in Threads : ThreadInv(u), NEW s \in Streams, OpenPath(s)
  PROVE  \E R : Gives(R)
<1>0. Streams \subseteq Threads /\ pc \in [Threads -> PCs] /\ s \in Threads
  BY DEF Threads, TypeOK
<1>1. PICK ok \in [Opens -> OpenResults] :
        LET opened == Reopened(s, s, ok).mPcm
        IN  /\ stream' = [x \in Streams |->
                 IF x = s THEN [Reopened(s, s, ok) EXCEPT !.mStandby = ~opened]
                 ELSE IF x \in FailedPeers(s, ok) THEN InStandby(x)
                 ELSE IF x \in Claimed(s) THEN Reopened(s, x, ok)
                 ELSE stream[x]]
            /\ wakeLocks' = (wakeLocks \ Released(FailedPeers(s, ok)))
                              \ (IF opened THEN {} ELSE {WakeLock(s)})
            /\ Goto(s, IF opened THEN "transfer" ELSE "standbyLock")
  BY DEF OpenPath
<1> DEFINE opened == Reopened(s, s, ok).mPcm
           failed == FailedPeers(s, ok)
           R      == failed \cup (IF opened THEN {} ELSE {s})
<1>2. pc[s] = "open" /\ mLock = s
  BY <1>0 DEF OpenPath, ThreadInv, OwnsHardware
<1>3. stream[s].mStandby
  BY <1>0, <1>2 DEF ThreadInv, LeavesStandby
<1>4. failed \subseteq Claimed(s) /\ Claimed(s) \subseteq Streams /\ s \notin Claimed(s)
      /\ \A x \in Claimed(s) : ~stream[x].mStandby
  BY <1>0, <1>2, <1>3, ClaimedSets DEF FailedPeers
<1>5. pc'[s] = (IF opened THEN "transfer" ELSE "standbyLock")
      /\ \A y \in Streams \ {s} : pc'[y] = pc[y]
  BY <1>0, <1>1 DEF Goto
<1>6. stream'[s].mStandby = ~opened
  <2>1. Reopened(s, s, ok).mStandby = stream[s].mStandby
        /\ DOMAIN Reopened(s, s, ok) = DOMAIN stream[s]
    BY ReopenedKeeps
  <2>2. "mStandby" \in DOMAIN stream[s]
    BY DEF TypeOK, StreamState
  <2> QED
    BY <1>1, <2>1, <2>2
<1>7. \A x \in failed : stream'[x].mStandby
  BY <1>1, <1>4 DEF InStandby
<1>8. \A y \in Streams \ {s} : y \notin failed => stream'[y].mStandby = stream[y].mStandby
  <2> SUFFICES ASSUME NEW y \in Streams \ {s}, y \notin failed
               PROVE  stream'[y].mStandby = stream[y].mStandby
    OBVIOUS
  <2>1. Reopened(s, y, ok).mStandby = stream[y].mStandby
    BY ReopenedKeeps
  <2> QED
    BY <1>1, <2>1
<1>9. \A x \in failed : pc[x] \notin LoopPCs
  BY <1>0, <1>2, <1>4, NotInLoop
<1>10. wakeLocks' = wakeLocks \ {WakeLock(x) : x \in R}
  <2>1. Released(failed) = {WakeLock(x) : x \in failed}
    BY <1>4 DEF Released
  <2> QED
    BY <1>1, <2>1
<1> HIDE DEF failed, opened
<1>11. ASSUME NEW x \in R PROVE Working(x) /\ ~Holding(x)'
  <2>1. CASE x \in failed
    BY <1>4, <1>5, <1>7, <1>9, <2>1 DEF Working, Holding
  <2>2. CASE x = s /\ ~opened
    <3>1. Working(s)
      BY <1>2 DEF Working, Holding, LoopPCs
    <3>2. ~Holding(s)'
      BY <1>5, <1>6, <2>2 DEF Holding, LoopPCs
    <3> QED
      BY <2>2, <3>1, <3>2
  <2> QED
    BY <1>11, <2>1, <2>2
<1>12. Holding(s)' => opened
  BY <1>5, <1>6 DEF Holding, LoopPCs
<1>13. opened => Holding(s)'
  BY <1>6 DEF Holding
<1>14. Holding(s) /\ Working(s)
  BY <1>2 DEF Holding, Working, LoopPCs
<1>15. ASSUME NEW y \in Streams \ R PROVE Holding(y)' <=> Holding(y)
  BY <1>5, <1>8, <1>12, <1>13, <1>14 DEF Holding
<1>16. ASSUME NEW y \in Streams, Working(y)' PROVE Working(y)
  <2>1. CASE y = s
    BY <1>14, <2>1
  <2>2. CASE y \in failed
    BY <1>4, <2>2 DEF Working, Holding
  <2>3. CASE y # s /\ y \notin failed
    BY <1>5, <1>8, <1>16, <2>3 DEF Working, Holding
  <2> QED
    BY <2>1, <2>2, <2>3
<1>17. R \subseteq Streams
  BY <1>4
<1> HIDE DEF R
<1> QED
  BY <1>10, <1>11, <1>15, <1>16, <1>17 DEF Gives

LEMMA DataGives ==
  ASSUME TypeOK, NoDestroyer, \A u \in Threads : ThreadInv(u), NEW s \in Streams, DataStep(s),
         ~ExitStandby(s)
  PROVE  \E R : Gives(R)
<1>0. Streams \subseteq Threads /\ pc \in [Threads -> PCs] /\ s \in Threads
  BY DEF Threads, TypeOK
<1>1. ASSUME LockSelf(s) \/ Transfer(s) \/ StandbyHw(s) \/ Route(s) \/ InputSource(s)
      PROVE  /\ \A y \in Streams : y # s => pc'[y] = pc[y]
             /\ pc[s] \notin LoopPCs /\ pc'[s] \notin LoopPCs
  BY <1>0, <1>1 DEF LockSelf, Transfer, StandbyHw, Route, StandbyStep, InputSource, Goto, LoopPCs
<1>2. CASE LockSelf(s) \/ Transfer(s) \/ InputSource(s)
  <2>1. UNCHANGED <<stream, wakeLocks>>
    BY <1>2 DEF LockSelf, Transfer, InputSource
  <2>2. pc'[s] # "ioLock" /\ (pc'[s] \in {"exitStandby", "transfer"} => pc[s] = "ioLock")
    BY <1>0, <1>2 DEF LockSelf, Transfer, InputSource, Goto
  <2>3. Working(s)' => Working(s)
    BY <1>1, <1>2, <2>1, <2>2 DEF Working, Holding
  <2> QED
    BY <1>1, <1>2, <2>1, <2>3, NoneGivenBy
<1>3. CASE StandbyHw(s) \/ Route(s)
  <2>1. PICK S \in SUBSET {s} : stream' = StandbyAll(S) /\ wakeLocks' = wakeLocks \ Released(S)
    BY <1>3 DEF StandbyHw, Route, StandbyStep
  <2>2. pc'[s] = "idle"
    BY <1>0, <1>3 DEF StandbyHw, Route, StandbyStep, Goto
  <2>3. S \in SUBSET Streams /\ \A x \in S : pc'[x] \notin LoopPCs
    BY <1>1, <1>3, <2>1
  <2>4. \A y \in Streams : pc'[y] = pc[y] \/ pc'[y] \notin LoopPCs \cup
                              {"ioLock", "exitStandby", "transfer"}
    BY <1>1, <1>3, <2>2 DEF LoopPCs
  <2>5. \A y \in Streams : pc'[y] \in LoopPCs <=> pc[y] \in LoopPCs
    BY <1>1, <1>3
  <2> QED
    BY <2>1, <2>3, <2>4, <2>5, StandbyGives
<1> QED
  BY <1>2, <1>3, OpenPathGives DEF DataStep

\* write() or read() acquires the lock as it enters the loop.
LEMMA ExitTakes ==
  ASSUME TypeOK, OneWorker, Held, NEW s \in Streams, ExitStandby(s)
  PROVE  OneWorker' /\ Held'
<1>0. Streams \subseteq Threads /\ pc \in [Threads -> PCs]
  BY DEF Threads, TypeOK
<1>1. /\ pc[s] = "exitStandby" /\ pc'[s] = "chase" /\ stream' = stream
      /\ \A y \in Streams : y # s => pc'[y] = pc[y]
      /\ wakeLocks' = wakeLocks \cup {WakeLock(s)}
  BY <1>0 DEF ExitStandby, Goto
<1>2. Working(s) /\ Holding(s)'
  BY <1>1 DEF Working, Holding, LoopPCs
<1>3. \A y \in Streams : y # s => (Holding(y)' <=> Holding(y)) /\ (Working(y)' <=> Working(y))
  BY <1>1 DEF Working, Holding
<1>4. OneWorker'
  BY <1>2, <1>3 DEF OneWorker, WakeLock
<1>5. (\A y \in Streams : Holding(y) => WakeLock(y) \in wakeLocks)'
  BY <1>1, <1>3 DEF Held, WakeLock
<1>6. ASSUME NEW w \in wakeLocks' PROVE \E y \in Streams : Holding(y)' /\ w = WakeLock(y)
  <2>1. CASE w = WakeLock(s)
    BY <1>2, <2>1
  <2>2. CASE w # WakeLock(s)
    <3>1. PICK y \in Streams : Holding(y) /\ w = WakeLock(y)
      BY <1>1, <1>6, <2>2 DEF Held
    <3> QED
      BY <1>3, <2>2, <3>1
  <2> QED
    BY <2>1, <2>2
<1>7. (\A w \in wakeLocks : \E y \in Streams : Holding(y) /\ w = WakeLock(y))'
  BY <1>6 DEF WakeLock
<1> QED
  BY <1>4, <1>5, <1>7 DEF Held

\* Calls that begin, but for write() and read().
LEMMA BeginsGive ==
  ASSUME TypeOK, CallersRegistered, ActiveOwned, Begins, \A s \in Streams : ~BeginIo(s)
  PROVE  Gives({})
<1>0. /\ Streams \subseteq Threads /\ pc \in [Threads -> PCs] /\ Controls \cap Streams = {}
  BY ThreadsAssumption DEF Threads, Streams, TypeOK
<1> USE DEF Goto
<1>1. ASSUME NEW t \in Controls, NEW s \in Streams, Open(t, s) PROVE Gives({})
  <2>1. stream[s].mStandby /\ stream' = [stream EXCEPT ![s] = NewStream]
        /\ pc' = pc /\ wakeLocks' = wakeLocks
    BY <1>1 DEF Open, threadVars, ActiveOwned
  <2>2. \A y \in Streams : stream'[y].mStandby = stream[y].mStandby
    <3> SUFFICES ASSUME NEW y \in Streams PROVE stream'[y].mStandby = stream[y].mStandby
      OBVIOUS
    <3>1. NewStream.mStandby = TRUE
      BY DEF NewStream
    <3>2. stream[s].mStandby = TRUE
      BY <2>1 DEF TypeOK, StreamState
    <3>3. stream'[y] = IF y = s THEN NewStream ELSE stream[y]
      BY <2>1 DEF TypeOK
    <3> QED
      BY <3>1, <3>2, <3>3
  <2> QED
    BY <2>1, <2>2 DEF Gives, Working, Holding
<1>2. ASSUME NEW t \in Controls,
             \/ \E s \in Streams : Close(t, s)
             \/ \E mode \in Modes : SetMode(t, mode)
             \/ FmOn(t) \/ FmOff(t)
      PROVE  Gives({})
  <2>1. UNCHANGED <<stream, wakeLocks>> /\ \A y \in Streams : pc'[y] = pc[y]
    BY <1>0, <1>2 DEF Close, SetMode, FmOn, FmOff, BeginFm
  <2> QED
    BY <1>0, <2>1, NoneGivenBy
<1>3. ASSUME NEW s \in Streams, BeginStandby(s) \/ BeginRoute(s) PROVE Gives({})
  <2>1. /\ UNCHANGED <<stream, wakeLocks>> /\ \A y \in Streams : y # s => pc'[y] = pc[y]
        /\ pc[s] \notin LoopPCs /\ pc'[s] \in {"standbyLock", "routeLock"}
    BY <1>0, <1>3 DEF BeginStandby, BeginRoute, Begin, LoopPCs
  <2>2. Working(s)' => Working(s)
    BY <2>1 DEF Working, Holding, LoopPCs
  <2> QED
    BY <2>1, <2>2, NoneGivenBy DEF LoopPCs
<1> QED
  BY <1>1, <1>2, <1>3 DEF Begins

\* write() or read() begins: no other stream of its kind is at work.
LEMMA IoTakes ==
  ASSUME OneOutput, TypeOK, OneWorker, Held, NEW s \in Streams, BeginIo(s)
  PROVE  OneWorker' /\ Held'
<1>0. Streams \subseteq Threads /\ pc \in [Threads -> PCs] /\ Outputs \cap Inputs = {}
  BY ThreadsAssumption DEF Threads, TypeOK
<1>1. /\ UNCHANGED <<stream, wakeLocks>> /\ \A y \in Streams : y # s => pc'[y] = pc[y]
      /\ pc[s] = "idle" /\ pc'[s] = "ioLock"
  BY <1>0 DEF BeginIo, Begin, Goto
<1>2. \A y \in Streams : Holding(y)' <=> Holding(y)
  BY <1>1 DEF Holding, LoopPCs
<1>3. \A y \in Streams : y # s => (Working(y)' <=> Working(y))
  BY <1>1 DEF Working, Holding
<1>4. ASSUME NEW y \in Streams, y # s, WakeLock(y) = WakeLock(s) PROVE ~Working(y)
  <2>1. CASE s \in Outputs
    BY <1>4, <2>1 DEF WakeLock, OneOutput, Streams
  <2>2. CASE s \in Inputs
    <3>1. y \in Inputs
      BY <1>0, <1>4, <2>2 DEF WakeLock, Streams
    <3>2. pc[y] = "idle" /\ stream[y].mStandby
      BY <1>4, <2>2, <3>1 DEF BeginIo, OnlyRecorder
    <3> QED
      BY <3>2 DEF Working, Holding, LoopPCs
  <2> QED
    BY <2>1, <2>2 DEF Streams
<1>5. OneWorker'
  BY <1>3, <1>4 DEF OneWorker, WakeLock
<1>6. Held'
  BY <1>1, <1>2 DEF Held, WakeLock
<1> QED
  BY <1>5, <1>6

LEMMA WakeInit == Init => WakeInv
<1> SUFFICES ASSUME Init PROVE WakeInv
  OBVIOUS
<1>1. \A s \in Streams : pc[s] = "idle" /\ stream[s].mStandby
  BY DEF Init, Threads, NewStream
<1>2. \A s \in Streams : ~Working(s) /\ ~Holding(s)
  BY <1>1 DEF Working, Holding, LoopPCs
<1>3. NoDestroyer
  BY <1>1 DEF NoDestroyer
<1> QED
  BY <1>2, <1>3, OwnInit DEF WakeInv, OneWorker, Held, Init

LEMMA WakeStep == OneOutput /\ WakeInv /\ [Next]_vars => WakeInv'
<1> SUFFICES ASSUME OneOutput, WakeInv, [Next]_vars PROVE WakeInv'
  OBVIOUS
<1>0. /\ TypeOK /\ TypeOK' /\ OwnInv' /\ \A t \in Threads : ThreadInv(t)
      /\ CallersRegistered /\ ActiveOwned /\ OneWorker /\ Held /\ NoDestroyer
  BY OwnStep, TypeStep DEF WakeInv, OwnInv, IInv, Owned
<1>1. ASSUME UNCHANGED vars PROVE OneWorker' /\ Held' /\ NoDestroyer'
  <2>1. UNCHANGED <<stream, wakeLocks, pc, mLock>>
    BY <1>1 DEF vars, lockVars, threadVars
  <2> QED
    BY <1>0, <2>1 DEF OneWorker, Held, NoDestroyer, Working, Holding, WakeLock
<1>2. ASSUME Begins PROVE OneWorker' /\ Held' /\ NoDestroyer'
  <2>1. NoDestroyer'
    BY <1>0, <1>2, NoDestroyerBegins
  <2>2. ASSUME NEW s \in Streams, BeginIo(s) PROVE OneWorker' /\ Held'
    BY <1>0, <2>2, IoTakes
  <2>3. ASSUME \A s \in Streams : ~BeginIo(s) PROVE OneWorker' /\ Held'
    <3>1. Gives({})
      BY <1>0, <1>2, <2>3, BeginsGive
    <3> QED
      BY <1>0, <3>1, HeldAfter
  <2> QED
    BY <2>1, <2>2, <2>3
<1>3. ASSUME NEW t \in Threads, Step(t) PROVE OneWorker' /\ Held' /\ NoDestroyer'
  <2>1. Frame(t)
    BY <1>0, <1>3, LoopKeeps, DtorKeeps, ControlKeeps, DataKeeps DEF Step
  <2>2. NoDestroyer'
    BY <1>0, <1>3, <2>1, NoDestroyerStep
  <2>3. CASE t \in Streams /\ ExitStandby(t)
    BY <1>0, <2>2, <2>3, ExitTakes
  <2>4. CASE ~(t \in Streams /\ ExitStandby(t))
    <3>1. \E R : Gives(R)
      BY <1>0, <1>3, <2>4, LoopGives, DtorGives, ControlGives, DataGives DEF Step
    <3> QED
      BY <1>0, <2>2, <3>1, HeldAfter
  <2> QED
    BY <2>3, <2>4
<1> QED
  BY <1>0, <1>1, <1>2, <1>3 DEF Next, ClientsDone, WakeInv

\* WakeLockHeld: a stream that is active has its wake lock, and no lock is held for
\* nothing, whoever closes streams meanwhile and whatever the opens answer, while
\* one output object exists at a time (a second one may take its wake lock before
\* the destructor of the first releases it).
THEOREM WakeLocksHeld ==
  ASSUME OneOutput
  PROVE  Spec => []WakeLockHeld
<1>1. WakeInv /\ [Next]_vars => WakeInv'
  BY WakeStep
<1>2. WakeInv => WakeLockHeld
  BY DEF WakeInv, Held, Holding, LoopPCs, WakeLockHeld
<1> QED
  BY <1>1, <1>2, WakeInit, PTL DEF Spec
=============================================================================
