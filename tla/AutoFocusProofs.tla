-------------------------- MODULE AutoFocusProofs ---------------------------
(***************************************************************************)
(* Proofs about AutoFocus, for any threads, any RETRY_CNT and any faults.  *)
(*                                                                         *)
(* Rounds bounds what one thread has polled and reported at each point;    *)
(* with TypeOK it is inductive.  BusyIsWorked is inductive given the type  *)
(* of pc.  LensKnown is what CameraDestroy() relies on: whoever starts the *)
(* lens has counted it as used before.                                     *)
(***************************************************************************)
EXTENDS AutoFocus, TLAPS

\* n polls and v reports of a thread at p, e when AF_START was refused to it.
Round(p, n, v, e) ==
  /\ p \notin {"poll", "giveup", "over"} => n = 0 /\ v = 0
  /\ p = "poll" => n < Retries /\ v <= 1 /\ (v = 1 => e)
  /\ p = "giveup" => n = Retries /\ v <= 2
  /\ v > 1 => e \/ n = Retries

Rounds == \A t \in Threads : Round(pc[t], count[t], verdicts[t], excused[t])

LEMMA InitRounds == Init => TypeOK /\ Rounds
<1> SUFFICES ASSUME Init PROVE TypeOK /\ Rounds
  OBVIOUS
<1>1. Retries \in Nat /\ 0 \in 0 .. Retries /\ 0 \in 0 .. 3
  BY FocusAssumption
<1>2. TypeOK
  BY <1>1 DEF Init, TypeOK
<1>3. Rounds
  BY DEF Init, Rounds, Round
<1> QED BY <1>2, <1>3

\* What a created thread, or its absence, does to the program counters.
LEMMA Created ==
  ASSUME NEW steps, NEW t, NEW entry, CreateThread(steps, t, entry)
  PROVE  \/ pc' = [steps EXCEPT ![t] = entry] /\ stuck' = FALSE
         \/ pc' = steps /\ stuck' = TRUE
BY DEF CreateThread

-----------------------------------------------------------------------------
(* The calls of the service leave the threads' rounds alone; a step of a   *)
(* thread changes its own.                                                 *)

LEMMA CallRounds ==
  ASSUME TypeOK, Rounds,
         \/ \E on \in BOOLEAN : Preview(on) \/ MsgType(on)
         \/ \E t \in Threads : AskFocus(t) \/ AskCancel(t)
         \/ LookAtLens \/ Park \/ CloseDevice
  PROVE  TypeOK' /\ Rounds'
<1>1. ASSUME NEW on \in BOOLEAN, Preview(on) \/ MsgType(on) PROVE TypeOK' /\ Rounds'
  BY <1>1 DEF Preview, MsgType, TypeOK, Rounds, optics
<1>2. ASSUME NEW t \in Threads, AskFocus(t) \/ AskCancel(t) PROVE TypeOK' /\ Rounds'
  <2>1. /\ pc[t] = "none" /\ stuck' \in BOOLEAN
        /\ UNCHANGED <<optics, flags, count, verdicts, excused>>
        /\ mAutoFocusRunning' = TRUE
        /\ \/ pc' = pc
           \/ \E p \in {"focus", "cancel"} : pc' = [pc EXCEPT ![t] = p]
    BY <1>2, Created DEF AskFocus, AskCancel, Spare
  <2>2. TypeOK'
    BY <2>1 DEF TypeOK, FocusSteps, CancelSteps, flags, optics
  <2>3. CASE pc' = pc
    BY <2>1, <2>2, <2>3 DEF Rounds
  <2>4. ASSUME NEW p \in {"focus", "cancel"}, pc' = [pc EXCEPT ![t] = p] PROVE Rounds'
    <3>1. ASSUME NEW b \in Threads PROVE Round(pc'[b], count[b], verdicts[b], excused[b])
      <4>1. CASE b = t
        <5>1. Round("none", count[t], verdicts[t], excused[t]) /\ pc'[t] = p
          BY <2>1, <2>4 DEF Rounds, TypeOK
        <5> QED BY <4>1, <5>1 DEF Round
      <4>2. CASE b # t
        BY <2>4, <4>2 DEF Rounds, TypeOK
      <4> QED BY <4>1, <4>2
    <3> QED BY <2>1, <3>1 DEF Rounds
  <2> QED BY <2>1, <2>2, <2>3, <2>4
<1>3. CASE LookAtLens \/ Park \/ CloseDevice
  <2>1. UNCHANGED <<flags, mAutoFocusRunning, pc, count, verdicts, excused, stuck>>
    BY <1>3 DEF LookAtLens, Park, CloseDevice, Unparked
  <2>2. /\ open' \in BOOLEAN /\ missed' \in BOOLEAN
        /\ parking' \in {"no", "park", "close"} /\ lens' \in {"saved", "moving", "stopped"}
    BY <1>3 DEF LookAtLens, Park, CloseDevice, TypeOK
  <2> QED BY <2>1, <2>2 DEF TypeOK, Rounds, flags
<1> QED BY <1>1, <1>2, <1>3

\* A step of a thread that changes only its own round.
LEMMA OwnRound ==
  ASSUME TypeOK, Rounds, NEW t \in Threads, NEW p, NEW n, NEW v, NEW e,
         p \in {"none"} \cup FocusSteps \cup CancelSteps,
         n \in 0 .. Retries, v \in 0 .. 3, e \in BOOLEAN,
         Round(p, n, v, e),
         pc' = [pc EXCEPT ![t] = p], count' = [count EXCEPT ![t] = n],
         verdicts' = [verdicts EXCEPT ![t] = v], excused' = [excused EXCEPT ![t] = e]
  PROVE  /\ pc' \in [Threads -> {"none"} \cup FocusSteps \cup CancelSteps]
         /\ count' \in [Threads -> 0 .. Retries]
         /\ verdicts' \in [Threads -> 0 .. 3]
         /\ excused' \in [Threads -> BOOLEAN]
         /\ Rounds'
<1>1. /\ pc \in [Threads -> {"none"} \cup FocusSteps \cup CancelSteps]
      /\ count \in [Threads -> 0 .. Retries]
      /\ verdicts \in [Threads -> 0 .. 3]
      /\ excused \in [Threads -> BOOLEAN]
  BY DEF TypeOK
<1>2. pc' \in [Threads -> {"none"} \cup FocusSteps \cup CancelSteps]
  BY <1>1, Zenon
<1>3. count' \in [Threads -> 0 .. Retries]
  BY <1>1, Zenon
<1>4. verdicts' \in [Threads -> 0 .. 3]
  BY <1>1, Zenon
<1>5. excused' \in [Threads -> BOOLEAN]
  BY <1>1, Zenon
<1>6. ASSUME NEW b \in Threads PROVE Round(pc'[b], count'[b], verdicts'[b], excused'[b])
  <2>1. CASE b = t
    BY <1>1, <2>1, Zenon
  <2>2. CASE b # t
    <3>1. /\ pc'[b] = pc[b] /\ count'[b] = count[b]
          /\ verdicts'[b] = verdicts[b] /\ excused'[b] = excused[b]
      BY <1>1, <2>2, Zenon
    <3> QED BY <3>1, Zenon DEF Rounds
  <2> QED BY <2>1, <2>2
<1> QED BY <1>2, <1>3, <1>4, <1>5, <1>6, Zenon DEF Rounds

\* Where a thread stands before its step.
LEMMA RoundNow ==
  ASSUME TypeOK, Rounds, NEW t \in Threads
  PROVE  /\ Round(pc[t], count[t], verdicts[t], excused[t])
         /\ Retries \in Nat \ {0}
         /\ count[t] \in 0 .. Retries /\ verdicts[t] \in 0 .. 3 /\ excused[t] \in BOOLEAN
         /\ count = [count EXCEPT ![t] = count[t]]
         /\ verdicts = [verdicts EXCEPT ![t] = verdicts[t]]
         /\ excused = [excused EXCEPT ![t] = excused[t]]
BY FocusAssumption DEF TypeOK, Rounds

\* Leaving the loop with n polls and v reports.
LEMMA LeftRound ==
  ASSUME NEW n \in 0 .. Retries, Retries \in Nat \ {0}, NEW v \in 0 .. 2, NEW e \in BOOLEAN,
         v > 1 => e
  PROVE  Round(IF n >= Retries THEN "giveup" ELSE "over", n, v, e)
BY DEF Round

LEMMA RunRounds ==
  ASSUME TypeOK, Rounds, NEW t \in Threads, Run(t)
  PROVE  TypeOK' /\ Rounds'
<1> DEFINE n == count[t]
           v == verdicts[t]
           e == excused[t]
           Wanted == IF mMsgFocus THEN v + 1 ELSE v
<1>1. /\ Round(pc[t], n, v, e) /\ Retries \in Nat \ {0}
      /\ n \in 0 .. Retries /\ v \in 0 .. 3 /\ e \in BOOLEAN
      /\ count = [count EXCEPT ![t] = n]
      /\ verdicts = [verdicts EXCEPT ![t] = v] /\ excused = [excused EXCEPT ![t] = e]
  BY RoundNow
<1>2. /\ 0 \in 0 .. Retries /\ 0 \in 0 .. 3
      /\ pc[t] = "poll" => /\ n + 1 \in 0 .. Retries /\ Wanted \in 0 .. 2
                          /\ v \in 0 .. 1 /\ (v = 1 => e) /\ (Wanted > 1 => e)
      /\ pc[t] = "giveup" => Wanted \in 0 .. 3 /\ n = Retries
  BY <1>1 DEF Round
<1> HIDE DEF n, v, e
<1>3. CASE FocusBegin(t)
  <2> DEFINE next == IF mPreviewRunning THEN "start" ELSE "over"
  <2>1. pc[t] = "focus"
    BY <1>3 DEF FocusBegin
  <2>2. /\ pc' = [pc EXCEPT ![t] = next]
        /\ count' = [count EXCEPT ![t] = n]
        /\ verdicts' = [verdicts EXCEPT ![t] = v]
        /\ excused' = [excused EXCEPT ![t] = e]
    BY <1>1, <1>3 DEF FocusBegin, TypeOK, n, v, e
  <2>3. Round(next, n, v, e)
    BY <1>1, <1>2, <2>1 DEF Round
  <2>4. next \in {"start", "over"}
    OBVIOUS
  <2> HIDE DEF next
  <2>5. /\ next \in {"none"} \cup FocusSteps \cup CancelSteps
        /\ n \in 0 .. Retries /\ v \in 0 .. 3 /\ e \in BOOLEAN
    BY <1>1, <1>2, <2>1, <2>4 DEF FocusSteps, CancelSteps, Round
  <2>6. /\ pc' \in [Threads -> {"none"} \cup FocusSteps \cup CancelSteps]
        /\ count' \in [Threads -> 0 .. Retries]
        /\ verdicts' \in [Threads -> 0 .. 3]
        /\ excused' \in [Threads -> BOOLEAN]
        /\ Rounds'
    BY <2>2, <2>3, <2>5, OwnRound
  <2> QED BY <1>3, <2>6 DEF FocusBegin, TypeOK, flags, optics
<1>4. CASE FocusStart(t)
  <2>1. pc[t] = "start"
    BY <1>4 DEF FocusStart, Goto
  <2>2. /\ pc' = [pc EXCEPT ![t] = "poll"]
        /\ count' = [count EXCEPT ![t] = n]
        /\ verdicts' = [verdicts EXCEPT ![t] = v]
        /\ excused' = [excused EXCEPT ![t] = e]
    BY <1>1, <1>4 DEF FocusStart, Goto, TypeOK, n, v, e
  <2>3. Round("poll", n, v, e)
    BY <1>1, <1>2, <2>1 DEF Round
  <2>4. /\ "poll" \in {"none"} \cup FocusSteps \cup CancelSteps
        /\ n \in 0 .. Retries /\ v \in 0 .. 3 /\ e \in BOOLEAN
    BY <1>1, <1>2, <2>1 DEF FocusSteps, CancelSteps, Round
  <2>5. /\ pc' \in [Threads -> {"none"} \cup FocusSteps \cup CancelSteps]
        /\ count' \in [Threads -> 0 .. Retries]
        /\ verdicts' \in [Threads -> 0 .. 3]
        /\ excused' \in [Threads -> BOOLEAN]
        /\ Rounds'
    BY <2>2, <2>3, <2>4, OwnRound
  <2> QED BY <1>4, <2>5 DEF FocusStart, Goto, TypeOK, flags, optics
<1>5. CASE FocusRefused(t)
  <2>1. pc[t] = "start"
    BY <1>5 DEF FocusRefused, Goto, Report
  <2>2. /\ pc' = [pc EXCEPT ![t] = "poll"]
        /\ count' = [count EXCEPT ![t] = n]
        /\ verdicts' = [verdicts EXCEPT ![t] = v + 1]
        /\ excused' = [excused EXCEPT ![t] = TRUE]
    BY <1>1, <1>5 DEF FocusRefused, Goto, Report, TypeOK, n, v, e
  <2>3. Round("poll", n, v + 1, TRUE)
    BY <1>1, <1>2, <2>1 DEF Round
  <2>4. /\ "poll" \in {"none"} \cup FocusSteps \cup CancelSteps
        /\ n \in 0 .. Retries /\ v + 1 \in 0 .. 3 /\ TRUE \in BOOLEAN
    BY <1>1, <1>2, <2>1 DEF FocusSteps, CancelSteps, Round
  <2>5. /\ pc' \in [Threads -> {"none"} \cup FocusSteps \cup CancelSteps]
        /\ count' \in [Threads -> 0 .. Retries]
        /\ verdicts' \in [Threads -> 0 .. 3]
        /\ excused' \in [Threads -> BOOLEAN]
        /\ Rounds'
    BY <2>2, <2>3, <2>4, OwnRound
  <2> QED BY <1>5, <2>5 DEF FocusRefused, Goto, Report, TypeOK, flags, optics
<1>6. CASE StillMoving(t)
  <2> DEFINE next == IF n + 1 < Retries THEN "poll" ELSE "giveup"
  <2>1. pc[t] = "poll"
    BY <1>6 DEF StillMoving, Leave
  <2>2. /\ pc' = [pc EXCEPT ![t] = next]
        /\ count' = [count EXCEPT ![t] = n + 1]
        /\ verdicts' = [verdicts EXCEPT ![t] = v]
        /\ excused' = [excused EXCEPT ![t] = e]
    BY <1>1, <1>6 DEF StillMoving, Leave, TypeOK, n, v, e
  <2>3. Round(next, n + 1, v, e)
    BY <1>1, <1>2, <2>1 DEF Round
  <2>4. next \in {"poll", "giveup"}
    OBVIOUS
  <2> HIDE DEF next
  <2>5. /\ next \in {"none"} \cup FocusSteps \cup CancelSteps
        /\ n + 1 \in 0 .. Retries /\ v \in 0 .. 3 /\ e \in BOOLEAN
    BY <1>1, <1>2, <2>1, <2>4 DEF FocusSteps, CancelSteps, Round
  <2>6. /\ pc' \in [Threads -> {"none"} \cup FocusSteps \cup CancelSteps]
        /\ count' \in [Threads -> 0 .. Retries]
        /\ verdicts' \in [Threads -> 0 .. 3]
        /\ excused' \in [Threads -> BOOLEAN]
        /\ Rounds'
    BY <2>2, <2>3, <2>5, OwnRound
  <2> QED BY <1>6, <2>6 DEF StillMoving, Leave, TypeOK, flags, optics
<1>7. CASE Settled(t)
  <2> DEFINE next == IF n + 1 >= Retries THEN "giveup" ELSE "over"
  <2>1. pc[t] = "poll"
    BY <1>7 DEF Settled, Leave, Report
  <2>2. /\ pc' = [pc EXCEPT ![t] = next]
        /\ count' = [count EXCEPT ![t] = n + 1]
        /\ verdicts' = [verdicts EXCEPT ![t] = Wanted]
        /\ excused' = [excused EXCEPT ![t] = e]
    BY <1>1, <1>7 DEF Settled, Leave, Report, TypeOK, n, v, e
  <2>3. Round(next, n + 1, Wanted, e)
    BY <1>1, <1>2, <2>1, LeftRound
  <2>4. next \in {"giveup", "over"}
    OBVIOUS
  <2> HIDE DEF next
  <2>5. /\ next \in {"none"} \cup FocusSteps \cup CancelSteps
        /\ n + 1 \in 0 .. Retries /\ Wanted \in 0 .. 3 /\ e \in BOOLEAN
    BY <1>1, <1>2, <2>1, <2>4 DEF FocusSteps, CancelSteps, Round
  <2>6. /\ pc' \in [Threads -> {"none"} \cup FocusSteps \cup CancelSteps]
        /\ count' \in [Threads -> 0 .. Retries]
        /\ verdicts' \in [Threads -> 0 .. 3]
        /\ excused' \in [Threads -> BOOLEAN]
        /\ Rounds'
    BY <2>2, <2>3, <2>5, OwnRound
  <2> QED BY <1>7, <2>6 DEF Settled, Leave, Report, TypeOK, flags, optics
<1>8. CASE PollFails(t)
  <2> DEFINE next == IF n + 1 >= Retries THEN "giveup" ELSE "over"
  <2>1. pc[t] = "poll"
    BY <1>8 DEF PollFails, Leave
  <2>2. /\ pc' = [pc EXCEPT ![t] = next]
        /\ count' = [count EXCEPT ![t] = n + 1]
        /\ verdicts' = [verdicts EXCEPT ![t] = v]
        /\ excused' = [excused EXCEPT ![t] = e]
    BY <1>1, <1>8 DEF PollFails, Leave, TypeOK, n, v, e
  <2>3. Round(next, n + 1, v, e)
    BY <1>1, <1>2, <2>1, LeftRound
  <2>4. next \in {"giveup", "over"}
    OBVIOUS
  <2> HIDE DEF next
  <2>5. /\ next \in {"none"} \cup FocusSteps \cup CancelSteps
        /\ n + 1 \in 0 .. Retries /\ v \in 0 .. 3 /\ e \in BOOLEAN
    BY <1>1, <1>2, <2>1, <2>4 DEF FocusSteps, CancelSteps, Round
  <2>6. /\ pc' \in [Threads -> {"none"} \cup FocusSteps \cup CancelSteps]
        /\ count' \in [Threads -> 0 .. Retries]
        /\ verdicts' \in [Threads -> 0 .. 3]
        /\ excused' \in [Threads -> BOOLEAN]
        /\ Rounds'
    BY <2>2, <2>3, <2>5, OwnRound
  <2> QED BY <1>8, <2>6 DEF PollFails, Leave, TypeOK, flags, optics
<1>9. CASE FocusOver(t)
  <2>1. pc[t] = "over"
    BY <1>9 DEF FocusOver, Goto
  <2>2. /\ pc' = [pc EXCEPT ![t] = "none"]
        /\ count' = [count EXCEPT ![t] = 0]
        /\ verdicts' = [verdicts EXCEPT ![t] = 0]
        /\ excused' = [excused EXCEPT ![t] = FALSE]
    BY <1>1, <1>9 DEF FocusOver, Goto, TypeOK, n, v, e
  <2>3. Round("none", 0, 0, FALSE)
    BY <1>1, <1>2, <2>1 DEF Round
  <2>4. /\ "none" \in {"none"} \cup FocusSteps \cup CancelSteps
        /\ 0 \in 0 .. Retries /\ 0 \in 0 .. 3 /\ FALSE \in BOOLEAN
    BY <1>1, <1>2, <2>1 DEF FocusSteps, CancelSteps, Round
  <2>5. /\ pc' \in [Threads -> {"none"} \cup FocusSteps \cup CancelSteps]
        /\ count' \in [Threads -> 0 .. Retries]
        /\ verdicts' \in [Threads -> 0 .. 3]
        /\ excused' \in [Threads -> BOOLEAN]
        /\ Rounds'
    BY <2>2, <2>3, <2>4, OwnRound
  <2> QED BY <1>9, <2>5 DEF FocusOver, Goto, TypeOK, flags, optics
<1>10. CASE CancelBegin(t)
  <2> DEFINE next == IF mPreviewRunning THEN "stop" ELSE "cancelled"
  <2>1. pc[t] = "cancel"
    BY <1>10 DEF CancelBegin
  <2>2. /\ pc' = [pc EXCEPT ![t] = next]
        /\ count' = [count EXCEPT ![t] = n]
        /\ verdicts' = [verdicts EXCEPT ![t] = v]
        /\ excused' = [excused EXCEPT ![t] = e]
    BY <1>1, <1>10 DEF CancelBegin, TypeOK, n, v, e
  <2>3. Round(next, n, v, e)
    BY <1>1, <1>2, <2>1 DEF Round
  <2>4. next \in {"stop", "cancelled"}
    OBVIOUS
  <2> HIDE DEF next
  <2>5. /\ next \in {"none"} \cup FocusSteps \cup CancelSteps
        /\ n \in 0 .. Retries /\ v \in 0 .. 3 /\ e \in BOOLEAN
    BY <1>1, <1>2, <2>1, <2>4 DEF FocusSteps, CancelSteps, Round
  <2>6. /\ pc' \in [Threads -> {"none"} \cup FocusSteps \cup CancelSteps]
        /\ count' \in [Threads -> 0 .. Retries]
        /\ verdicts' \in [Threads -> 0 .. 3]
        /\ excused' \in [Threads -> BOOLEAN]
        /\ Rounds'
    BY <2>2, <2>3, <2>5, OwnRound
  <2> QED BY <1>10, <2>6 DEF CancelBegin, TypeOK, flags, optics
<1>11. CASE CancelStop(t)
  <2>1. pc[t] = "stop"
    BY <1>11 DEF CancelStop, Goto
  <2>2. /\ pc' = [pc EXCEPT ![t] = "cancelled"]
        /\ count' = [count EXCEPT ![t] = n]
        /\ verdicts' = [verdicts EXCEPT ![t] = v]
        /\ excused' = [excused EXCEPT ![t] = e]
    BY <1>1, <1>11 DEF CancelStop, Goto, TypeOK, n, v, e
  <2>3. Round("cancelled", n, v, e)
    BY <1>1, <1>2, <2>1 DEF Round
  <2>4. /\ "cancelled" \in {"none"} \cup FocusSteps \cup CancelSteps
        /\ n \in 0 .. Retries /\ v \in 0 .. 3 /\ e \in BOOLEAN
    BY <1>1, <1>2, <2>1 DEF FocusSteps, CancelSteps, Round
  <2>5. /\ pc' \in [Threads -> {"none"} \cup FocusSteps \cup CancelSteps]
        /\ count' \in [Threads -> 0 .. Retries]
        /\ verdicts' \in [Threads -> 0 .. 3]
        /\ excused' \in [Threads -> BOOLEAN]
        /\ Rounds'
    BY <2>2, <2>3, <2>4, OwnRound
  <2> QED BY <1>11, <2>5 DEF CancelStop, Goto, TypeOK, flags, optics
<1>12. CASE CancelRefused(t)
  <2>1. pc[t] = "stop"
    BY <1>12 DEF CancelRefused, Goto
  <2>2. /\ pc' = [pc EXCEPT ![t] = "none"]
        /\ count' = [count EXCEPT ![t] = n]
        /\ verdicts' = [verdicts EXCEPT ![t] = v]
        /\ excused' = [excused EXCEPT ![t] = e]
    BY <1>1, <1>12 DEF CancelRefused, Goto, TypeOK, n, v, e
  <2>3. Round("none", n, v, e)
    BY <1>1, <1>2, <2>1 DEF Round
  <2>4. /\ "none" \in {"none"} \cup FocusSteps \cup CancelSteps
        /\ n \in 0 .. Retries /\ v \in 0 .. 3 /\ e \in BOOLEAN
    BY <1>1, <1>2, <2>1 DEF FocusSteps, CancelSteps, Round
  <2>5. /\ pc' \in [Threads -> {"none"} \cup FocusSteps \cup CancelSteps]
        /\ count' \in [Threads -> 0 .. Retries]
        /\ verdicts' \in [Threads -> 0 .. 3]
        /\ excused' \in [Threads -> BOOLEAN]
        /\ Rounds'
    BY <2>2, <2>3, <2>4, OwnRound
  <2> QED BY <1>12, <2>5 DEF CancelRefused, Goto, TypeOK, flags, optics
<1>13. CASE Cancelled(t)
  <2>1. pc[t] = "cancelled"
    BY <1>13 DEF Cancelled, Goto
  <2>2. /\ pc' = [pc EXCEPT ![t] = "none"]
        /\ count' = [count EXCEPT ![t] = n]
        /\ verdicts' = [verdicts EXCEPT ![t] = v]
        /\ excused' = [excused EXCEPT ![t] = e]
    BY <1>1, <1>13 DEF Cancelled, Goto, TypeOK, n, v, e
  <2>3. Round("none", n, v, e)
    BY <1>1, <1>2, <2>1 DEF Round
  <2>4. /\ "none" \in {"none"} \cup FocusSteps \cup CancelSteps
        /\ n \in 0 .. Retries /\ v \in 0 .. 3 /\ e \in BOOLEAN
    BY <1>1, <1>2, <2>1 DEF FocusSteps, CancelSteps, Round
  <2>5. /\ pc' \in [Threads -> {"none"} \cup FocusSteps \cup CancelSteps]
        /\ count' \in [Threads -> 0 .. Retries]
        /\ verdicts' \in [Threads -> 0 .. 3]
        /\ excused' \in [Threads -> BOOLEAN]
        /\ Rounds'
    BY <2>2, <2>3, <2>4, OwnRound
  <2> QED BY <1>13, <2>5 DEF Cancelled, Goto, TypeOK, flags, optics
<1>14. CASE GiveUp(t)
  <2>1. pc[t] = "giveup" /\ pc \in [Threads -> {"none"} \cup FocusSteps \cup CancelSteps]
    BY <1>14 DEF GiveUp, TypeOK
  <2>2. /\ count' = count /\ excused' = excused
        /\ verdicts' = [verdicts EXCEPT ![t] = Wanted]
        /\ UNCHANGED <<optics, flags>>
    BY <1>14 DEF GiveUp, Report, v
  <2>3. /\ mAutoFocusRunning' \in BOOLEAN /\ stuck' \in BOOLEAN
        /\ \/ pc' = [pc EXCEPT ![t] = "over"]
           \/ \E c \in Threads : /\ pc[c] = "none"
                                 /\ pc' = [[pc EXCEPT ![t] = "over"] EXCEPT ![c] = "cancel"]
    <3>1. CASE mPreviewRunning
      <4>1. PICK c \in Threads \ Alive :
              /\ mAutoFocusRunning' = TRUE
              /\ CreateThread([pc EXCEPT ![t] = "over"], c, "cancel")
        BY <1>14, <3>1 DEF GiveUp
      <4>2. pc[c] = "none"
        BY <4>1 DEF Alive
      <4> QED BY <4>1, <4>2, Created
    <3>2. CASE ~mPreviewRunning
      BY <1>14, <3>2 DEF GiveUp, TypeOK
    <3> QED BY <3>1, <3>2
  <2>4. pc' \in [Threads -> {"none"} \cup FocusSteps \cup CancelSteps]
    BY <2>1, <2>3 DEF FocusSteps, CancelSteps
  <2>5. verdicts' \in [Threads -> 0 .. 3]
    BY <1>2, <2>1, <2>2 DEF TypeOK
  <2>6. ASSUME NEW b \in Threads PROVE Round(pc'[b], count'[b], verdicts'[b], excused'[b])
    <3>1. CASE b = t
      <4>1. pc'[t] = "over" /\ verdicts'[t] = Wanted /\ count'[t] = n
        BY <2>1, <2>2, <2>3 DEF TypeOK, n
      <4> QED BY <1>2, <2>1, <3>1, <4>1 DEF Round
    <3>2. CASE b # t
      <4>1. /\ verdicts'[b] = verdicts[b] /\ count'[b] = count[b] /\ excused'[b] = excused[b]
            /\ pc'[b] = pc[b] \/ (pc[b] = "none" /\ pc'[b] = "cancel")
        <5>1. verdicts'[b] = verdicts[b] /\ count'[b] = count[b] /\ excused'[b] = excused[b]
          BY <2>2, <3>2 DEF TypeOK
        <5>2. CASE pc' = [pc EXCEPT ![t] = "over"]
          BY <2>1, <3>2, <5>1, <5>2, Zenon
        <5>3. ASSUME NEW c \in Threads, pc[c] = "none",
                     pc' = [[pc EXCEPT ![t] = "over"] EXCEPT ![c] = "cancel"]
              PROVE  pc'[b] = pc[b] \/ (pc[b] = "none" /\ pc'[b] = "cancel")
          BY <2>1, <3>2, <5>3, Zenon
        <5> QED BY <2>3, <5>1, <5>2, <5>3
      <4>2. Round(pc[b], count[b], verdicts[b], excused[b])
        BY DEF Rounds
      <4> QED BY <4>1, <4>2 DEF Round
    <3> QED BY <3>1, <3>2
  <2>7. Rounds'
    BY <2>6 DEF Rounds
  <2> QED BY <2>2, <2>3, <2>4, <2>5, <2>7 DEF TypeOK, flags, optics
<1> QED BY <1>3, <1>4, <1>5, <1>6, <1>7, <1>8, <1>9, <1>10, <1>11, <1>12, <1>13, <1>14 DEF Run

LEMMA NextRounds == TypeOK /\ Rounds /\ [Next]_vars => TypeOK' /\ Rounds'
<1>1. ASSUME TypeOK, Rounds, UNCHANGED vars PROVE TypeOK' /\ Rounds'
  BY <1>1 DEF vars, flags, optics, TypeOK, Rounds
<1> QED BY <1>1, CallRounds, RunRounds DEF Next

\* TypeOK: every variable keeps its type; in particular a thread polls at most
\* RETRY_CNT times and reports at most three times.
THEOREM TypeCorrect == Spec => []TypeOK
<1> QED BY InitRounds, NextRounds, PTL DEF Spec

\* OneVerdict: for any RETRY_CNT, an autoFocus() is answered more than once only
\* when AF_START was refused to it or its polls were used up.
THEOREM AnsweredOnce == Spec => []OneVerdict
<1>1. TypeOK /\ Rounds => OneVerdict
  BY DEF Rounds, Round, OneVerdict
<1> QED BY InitRounds, NextRounds, <1>1, PTL DEF Spec

-----------------------------------------------------------------------------
LEMMA NextBusy == TypeOK /\ BusyIsWorked /\ [Next]_vars => BusyIsWorked'
<1> SUFFICES ASSUME TypeOK, BusyIsWorked, [Next]_vars PROVE BusyIsWorked'
  OBVIOUS
<1> DEFINE Busy == mAutoFocusRunning => (\E b \in Threads : pc[b] # "none") \/ stuck
<1>1. Busy
  BY DEF BusyIsWorked, Alive
<1>2. Busy' => BusyIsWorked'
  BY DEF BusyIsWorked, Alive
<1>3. pc \in [Threads -> {"none"} \cup FocusSteps \cup CancelSteps]
  BY DEF TypeOK
<1>4. ASSUME NEW on \in BOOLEAN, Preview(on) \/ MsgType(on) PROVE Busy'
  BY <1>1, <1>4 DEF Preview, MsgType
<1>5. ASSUME NEW t \in Threads, AskFocus(t) \/ AskCancel(t) PROVE Busy'
  <2>1. \/ stuck' = TRUE
        \/ \E p \in {"focus", "cancel"} : pc' = [pc EXCEPT ![t] = p]
    BY <1>5, Created DEF AskFocus, AskCancel
  <2> QED BY <1>3, <2>1
<1>6. CASE LookAtLens \/ Park \/ CloseDevice
  <2>1. UNCHANGED <<mAutoFocusRunning, pc, stuck>>
    BY <1>6 DEF LookAtLens, Park, CloseDevice, Unparked
  <2> QED BY <1>1, <1>2, <2>1
<1>7. ASSUME NEW t \in Threads, Run(t) PROVE Busy'
  <2>1. CASE FocusBegin(t) \/ FocusStart(t) \/ CancelBegin(t) \/ CancelStop(t)
    <3>1. \E p \in {"start", "over", "poll", "stop", "cancelled"} : pc' = [pc EXCEPT ![t] = p]
      BY <2>1 DEF FocusBegin, FocusStart, CancelBegin, CancelStop, Goto
    <3> QED BY <1>3, <3>1
  <2>2. CASE StillMoving(t) \/ Settled(t) \/ PollFails(t)
    <3>1. (pc' = pc /\ pc[t] = "poll") \/ \E p \in {"giveup", "over"} : pc' = [pc EXCEPT ![t] = p]
      BY <2>2 DEF StillMoving, Settled, PollFails, Leave
    <3> QED BY <1>3, <3>1
  <2>3. CASE GiveUp(t)
    <3>1. pc' = [pc EXCEPT ![t] = "over"] \/ \E c \in Threads :
            pc' = [[pc EXCEPT ![t] = "over"] EXCEPT ![c] = "cancel"]
      BY <2>3, Created DEF GiveUp
    <3> QED BY <1>3, <3>1
  <2>4. CASE FocusRefused(t) \/ FocusOver(t) \/ Cancelled(t)
    BY <2>4 DEF FocusRefused, FocusOver, Cancelled
  <2>5. CASE CancelRefused(t)
    BY <2>5 DEF CancelRefused
  <2> QED BY <1>7, <2>1, <2>2, <2>3, <2>4, <2>5 DEF Run
<1>8. CASE UNCHANGED vars
  <2>1. UNCHANGED <<mAutoFocusRunning, pc, stuck>>
    BY <1>8 DEF vars
  <2> QED BY <1>1, <1>2, <2>1
<1> QED BY <1>2, <1>4, <1>5, <1>6, <1>7, <1>8 DEF Next

\* BusyIsWorked: mAutoFocusRunning is never left set without a thread to clear
\* it, except after a refused thread or a refused AF_STOP.
THEOREM BusyOnlyWhileWorked == Spec => []BusyIsWorked
<1>1. Init => BusyIsWorked
  BY DEF Init, BusyIsWorked
<1> QED BY <1>1, InitRounds, NextRounds, NextBusy, PTL DEF Spec

-----------------------------------------------------------------------------
\* While the device is open and AF_RELEASE still to come, a lens that is not in
\* its save position, or about to be started, has been counted as used; after
\* AF_RELEASE it is there, or the exception has happened.
LensKnown ==
  /\ \A t \in Threads : pc[t] = "start" => mAutoFocusUsed
  /\ open /\ parking = "no" => lens = "saved" \/ mAutoFocusUsed
  /\ parking = "close" => lens = "saved" \/ missed
  /\ parking # "no" => open

\* The lens and CameraDestroy() as a step of the others leaves them.
LEMMA LensAlone ==
  ASSUME LensKnown, LensAtRest, UNCHANGED <<optics, mAutoFocusUsed>>,
         \A t \in Threads : pc'[t] = "start" => pc[t] = "start"
  PROVE  LensKnown' /\ LensAtRest'
BY DEF LensKnown, LensAtRest, optics

LEMMA NextLens ==
  TypeOK /\ LensKnown /\ LensAtRest /\ [Next]_vars => LensKnown' /\ LensAtRest'
<1> SUFFICES ASSUME TypeOK, LensKnown, LensAtRest, [Next]_vars
             PROVE  LensKnown' /\ LensAtRest'
  OBVIOUS
<1>1. /\ pc \in [Threads -> {"none"} \cup FocusSteps \cup CancelSteps]
      /\ lens \in {"saved", "moving", "stopped"} /\ parking \in {"no", "park", "close"}
  BY DEF TypeOK
<1>2. ASSUME NEW on \in BOOLEAN, Preview(on) \/ MsgType(on) PROVE LensKnown' /\ LensAtRest'
  BY <1>2, LensAlone DEF Preview, MsgType
<1>3. ASSUME NEW t \in Threads, AskFocus(t) \/ AskCancel(t) PROVE LensKnown' /\ LensAtRest'
  <2>1. /\ UNCHANGED <<optics, mAutoFocusUsed>>
        /\ pc' = pc \/ \E p \in {"focus", "cancel"} : pc' = [pc EXCEPT ![t] = p]
    BY <1>3, Created DEF AskFocus, AskCancel, flags
  <2>2. \A b \in Threads : pc'[b] = "start" => pc[b] = "start"
    BY <1>1, <2>1
  <2> QED BY <2>1, <2>2, LensAlone
<1>4. CASE LookAtLens
  BY <1>4 DEF LookAtLens, Unparked, flags, LensKnown, LensAtRest
<1>5. CASE Park
  <2>1. /\ pc' = pc /\ open' = open /\ mAutoFocusUsed' = mAutoFocusUsed
        /\ parking = "park" /\ parking' = "close"
    BY <1>5 DEF Park, Unparked, flags
  <2>2. lens' = "saved" \/ missed'
    BY <1>5 DEF Park
  <2> QED BY <2>1, <2>2 DEF LensKnown, LensAtRest
<1>6. CASE CloseDevice
  BY <1>6 DEF CloseDevice, Unparked, flags, LensKnown, LensAtRest
<1>7. ASSUME NEW t \in Threads, Run(t) PROVE LensKnown' /\ LensAtRest'
  <2>1. CASE FocusBegin(t)
    <3>1. /\ UNCHANGED optics /\ (mAutoFocusUsed => mAutoFocusUsed')
          /\ \/ mAutoFocusUsed' /\ pc' = [pc EXCEPT ![t] = "start"]
             \/ mAutoFocusUsed' = mAutoFocusUsed /\ pc' = [pc EXCEPT ![t] = "over"]
      BY <2>1 DEF FocusBegin
    <3> QED BY <1>1, <3>1 DEF optics, LensKnown, LensAtRest
  <2>2. CASE FocusStart(t)
    <3>1. /\ pc[t] = "start" /\ pc' = [pc EXCEPT ![t] = "poll"] /\ open /\ open' = open
          /\ parking' = parking /\ missed' = (missed \/ parking = "close")
          /\ mAutoFocusUsed' = mAutoFocusUsed
      BY <2>2 DEF FocusStart, Goto, flags
    <3> QED BY <1>1, <3>1 DEF LensKnown, LensAtRest
  <2>3. CASE GiveUp(t)
    <3>1. /\ UNCHANGED <<optics, mAutoFocusUsed>>
          /\ pc' = [pc EXCEPT ![t] = "over"] \/ \E c \in Threads :
               pc' = [[pc EXCEPT ![t] = "over"] EXCEPT ![c] = "cancel"]
      BY <2>3, Created DEF GiveUp, flags
    <3>2. \A b \in Threads : pc'[b] = "start" => pc[b] = "start"
      BY <1>1, <3>1
    <3> QED BY <3>1, <3>2, LensAlone
  <2>4. CASE FocusRefused(t) \/ StillMoving(t) \/ Settled(t) \/ PollFails(t) \/ FocusOver(t)
    <3>1. /\ UNCHANGED <<optics, mAutoFocusUsed>>
          /\ pc' = pc \/ \E p \in {"poll", "giveup", "over", "none"} : pc' = [pc EXCEPT ![t] = p]
      BY <2>4 DEF FocusRefused, StillMoving, Settled, PollFails, FocusOver, Leave, Goto, flags
    <3>2. \A b \in Threads : pc'[b] = "start" => pc[b] = "start"
      BY <1>1, <3>1
    <3> QED BY <3>1, <3>2, LensAlone
  <2>5. CASE CancelBegin(t) \/ CancelRefused(t) \/ Cancelled(t)
    <3>1. /\ UNCHANGED <<optics, mAutoFocusUsed>>
          /\ \E p \in {"stop", "cancelled", "none"} : pc' = [pc EXCEPT ![t] = p]
      BY <2>5 DEF CancelBegin, CancelRefused, Cancelled, Goto, flags
    <3>2. \A b \in Threads : pc'[b] = "start" => pc[b] = "start"
      BY <1>1, <3>1
    <3> QED BY <3>1, <3>2, LensAlone
  <2>6. CASE CancelStop(t)
    <3>1. /\ UNCHANGED <<open, parking, missed, mAutoFocusUsed>>
          /\ (lens = "saved" => lens' = "saved") /\ pc' = [pc EXCEPT ![t] = "cancelled"]
          /\ open
      BY <2>6 DEF CancelStop, Goto, flags
    <3> QED BY <1>1, <3>1 DEF LensKnown, LensAtRest
  <2> QED BY <1>7, <2>1, <2>2, <2>3, <2>4, <2>5, <2>6 DEF Run
<1>8. CASE UNCHANGED vars
  BY <1>8, LensAlone DEF vars, flags
<1> QED BY <1>2, <1>3, <1>4, <1>5, <1>6, <1>7, <1>8 DEF Next

\* LensAtRest: whatever detached threads are alive, CameraDestroy() closes the device
\* with the lens in its save position, unless AF_RELEASE is refused or a thread
\* starts the lens between CameraDestroy()'s last word to it and the close.
THEOREM LensParked == Spec => []LensAtRest
<1>1. Init => LensKnown /\ LensAtRest
  BY DEF Init, LensKnown, LensAtRest
<1> QED BY <1>1, InitRounds, NextRounds, NextLens, PTL DEF Spec
=============================================================================
