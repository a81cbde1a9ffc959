-------------------------- MODULE RilTriggerProofs --------------------------
(***************************************************************************)
(* Proofs about RilTrigger, for any requests and completing threads.       *)
(*                                                                         *)
(* Owners is inductive by itself: who works on a request, and that nobody  *)
(* has answered it yet.  Armed and Pending need Owners: whose fix an       *)
(* action tries, and where a power-on request stands that has not had it.  *)
(***************************************************************************)
EXTENDS RilTrigger, TLAPS

\* A thread has a request exactly while it is inside the wrapper, a request
\* nobody made is nowhere, and a request on its way in is not answered.
Places ==
  /\ \A th \in Threads : pc[th] = "idle" <=> cur[th] = None
  /\ \A th \in Threads : pc[th] \in {"ack", "install", "hand over"} => th = libril
  /\ \A th \in Threads :
       pc[th] \in {"ack", "install", "hand over", "complete"} => answers[cur[th]] = 0
  /\ \A r \in Requests : kind[r] = "none" =>
       r \notin held /\ answers[r] = 0 /\ \A th \in Threads : cur[th] # r

Owners == TypeOK /\ OneOwner /\ Places

\* The request a thread is busy with is nowhere else.
LEMMA Handled ==
  ASSUME TypeOK, OneOwner, Places, NEW th \in Threads, pc[th] # "idle"
  PROVE  /\ cur[th] \in Requests /\ cur[th] # None
         /\ kind[cur[th]] # "none" /\ cur[th] \notin held
         /\ \A b \in Threads : b # th => cur[b] # cur[th]
<1>1. cur[th] \in Requests /\ cur[th] # None
  BY DEF TypeOK, Places
<1> QED BY <1>1 DEF OneOwner, Places

LEMMA InitOwners == Init => Owners
<1> SUFFICES ASSUME Init PROVE Owners
  OBVIOUS
<1> USE RilAssumption DEF Init
<1>1. TypeOK
  <2>1. trigger \in (Requests \ Local) \cup {None} /\ action \in BOOLEAN
    OBVIOUS
  <2>2. /\ fix \in [radio : BOOLEAN, sms : BOOLEAN]
        /\ tried \in SUBSET Requests
        /\ replaced \in SUBSET Requests /\ erased \in SUBSET Requests
    OBVIOUS
  <2>3. /\ pc \in [Threads -> {"idle", "ack", "install", "hand over"} \cup Completing]
        /\ cur \in [Threads -> Requests \cup {None}]
    OBVIOUS
  <2>4. /\ kind \in [Requests -> Kinds \cup {"none"}]
        /\ answers \in [Requests -> 0 .. 1] /\ held \in SUBSET Requests
    OBVIOUS
  <2> QED BY <2>1, <2>2, <2>3, <2>4 DEF TypeOK
<1>2. OneOwner
  BY DEF OneOwner
<1>3. Places
  BY DEF Places
<1> QED BY <1>1, <1>2, <1>3 DEF Owners

LEMMA NextOwners == Owners /\ [Next]_vars => Owners'
<1> SUFFICES ASSUME TypeOK, OneOwner, Places, [Next]_vars PROVE Owners'
  BY DEF Owners
<1> USE RilAssumption DEF hist, armed, Token, SetTrigger
<1>1. ASSUME NEW r \in Requests, NEW k \in Kinds, Receive(r, k) PROVE Owners'
  <2>1. Case(r) \in {"ack", "install", "hand over"}
    BY <1>1 DEF Receive, Case
  <2>2. libril \in Threads /\ pc[libril] = "idle" /\ cur[libril] = None
    BY <1>1 DEF Receive, Places, Threads
  <2>3. r # None /\ r \notin held /\ answers[r] = 0 /\ \A b \in Threads : cur[b] # r
    BY <1>1 DEF Receive, Places
  <2>4. /\ pc'[libril] \in {"ack", "install", "hand over"} /\ cur'[libril] = r
        /\ \A b \in Threads : b # libril => pc'[b] = pc[b] /\ cur'[b] = cur[b]
        /\ kind'[r] # "none" /\ \A q \in Requests : q # r => kind'[q] = kind[q]
        /\ held' = held /\ answers' = answers
    BY <1>1, <2>1, <2>2 DEF Receive, TypeOK, Kinds
  <2>5. TypeOK'
    BY <1>1, <2>1, <2>2, <2>3 DEF Receive, TypeOK, Kinds, Completing
  <2>6. OneOwner'
    BY <1>1, <2>2, <2>3 DEF Receive, TypeOK, OneOwner
  <2>7. Places'
    <3>1. ASSUME NEW th \in Threads
          PROVE  /\ pc'[th] = "idle" <=> cur'[th] = None
                 /\ pc'[th] \in {"ack", "install", "hand over"} => th = libril
                 /\ pc'[th] \in {"ack", "install", "hand over", "complete"} =>
                      answers'[cur'[th]] = 0
      <4>1. CASE th = libril
        BY <2>3, <2>4, <4>1
      <4>2. CASE th # libril
        <5>1. pc'[th] = pc[th] /\ cur'[th] = cur[th] /\ answers' = answers
          BY <2>4, <4>2
        <5> QED BY <5>1 DEF Places
      <4> QED BY <4>1, <4>2
    <3>2. ASSUME NEW q \in Requests, kind'[q] = "none"
          PROVE  q \notin held' /\ answers'[q] = 0 /\ \A th \in Threads : cur'[th] # q
      <4>1. q # r /\ kind[q] = "none"
        BY <2>4, <3>2
      <4>2. q \notin held /\ answers[q] = 0 /\ \A th \in Threads : cur[th] # q
        BY <4>1 DEF Places
      <4> QED BY <2>4, <4>1, <4>2
    <3> QED BY <3>1, <3>2 DEF Places
  <2> QED BY <2>5, <2>6, <2>7 DEF Owners
<1>2. CASE Install
  <2>1. libril \in Threads /\ pc[libril] = "install"
    BY <1>2 DEF Install, Goto, Threads
  <2>2. /\ libril \in Threads /\ cur[libril] \in Requests /\ cur[libril] # None
        /\ kind[cur[libril]] # "none" /\ cur[libril] \notin held
        /\ \A b \in Threads : b # libril => cur[b] # cur[libril]
    BY <2>1, Handled
  <2>3. answers[cur[libril]] = 0
    BY <2>1 DEF Places
  <2>4. TypeOK'
    BY <1>2, <2>1, <2>2, <2>3 DEF Install, Goto, TypeOK, Kinds, Completing
  <2>5. OneOwner'
    BY <1>2, <2>1, <2>2, <2>3 DEF Install, Goto, TypeOK, OneOwner
  <2>6. Places'
    BY <1>2, <2>1, <2>2, <2>3 DEF Install, Goto, TypeOK, Places
  <2> QED BY <2>4, <2>5, <2>6 DEF Owners
<1>3. CASE HandOver
  <2>1. libril \in Threads /\ pc[libril] = "hand over"
    BY <1>3 DEF HandOver, Goto, Threads
  <2>2. /\ libril \in Threads /\ cur[libril] \in Requests /\ cur[libril] # None
        /\ kind[cur[libril]] # "none" /\ cur[libril] \notin held
        /\ \A b \in Threads : b # libril => cur[b] # cur[libril]
    BY <2>1, Handled
  <2>3. answers[cur[libril]] = 0
    BY <2>1 DEF Places
  <2>4. CASE /\ held' = held \cup {cur[libril]}
             /\ pc' = [pc EXCEPT ![libril] = "idle"] /\ cur' = [cur EXCEPT ![libril] = None]
    <3>1. UNCHANGED <<fix, kind, answers, armed, hist>>
      BY <1>3 DEF HandOver
    <3>2. TypeOK'
      BY <2>1, <2>2, <2>4, <3>1 DEF TypeOK
    <3>3. OneOwner'
      BY <2>1, <2>2, <2>3, <2>4, <3>1 DEF TypeOK, OneOwner
    <3>4. Places'
      BY <2>1, <2>2, <2>4, <3>1 DEF TypeOK, Places
    <3> QED BY <3>2, <3>3, <3>4 DEF Owners
  <2>5. CASE /\ pc' = [pc EXCEPT ![libril] = "complete"]
             /\ UNCHANGED <<held, cur>>
    <3>1. UNCHANGED <<fix, kind, answers, armed, hist>>
      BY <1>3 DEF HandOver
    <3>2. TypeOK'
      BY <2>1, <2>5, <3>1 DEF TypeOK, Completing
    <3>3. OneOwner'
      BY <2>5, <3>1 DEF OneOwner
    <3>4. Places'
      BY <2>1, <2>2, <2>3, <2>5, <3>1 DEF TypeOK, Places
    <3> QED BY <3>2, <3>3, <3>4 DEF Owners
  <2> QED BY <1>3, <2>4, <2>5 DEF HandOver
<1>4. CASE Acknowledge
  <2>1. libril \in Threads /\ pc[libril] = "ack"
    BY <1>4 DEF Acknowledge, Goto, Threads
  <2>2. /\ libril \in Threads /\ cur[libril] \in Requests /\ cur[libril] # None
        /\ kind[cur[libril]] # "none" /\ cur[libril] \notin held
        /\ \A b \in Threads : b # libril => cur[b] # cur[libril]
    BY <2>1, Handled
  <2>3. answers[cur[libril]] = 0
    BY <2>1 DEF Places
  <2>4. TypeOK'
    BY <1>4, <2>1, <2>2, <2>3 DEF Acknowledge, Goto, TypeOK, Kinds, Completing
  <2>5. OneOwner'
    BY <1>4, <2>1, <2>2, <2>3 DEF Acknowledge, Goto, TypeOK, OneOwner
  <2>6. Places'
    BY <1>4, <2>1, <2>2, <2>3 DEF Acknowledge, Goto, TypeOK, Places
  <2> QED BY <2>4, <2>5, <2>6 DEF Owners
<1>5. ASSUME NEW th \in Readers, NEW r \in Requests, Respond(th, r) PROVE Owners'
  <2>1. th \in Threads /\ pc[th] = "idle" /\ cur[th] = None
    BY <1>5 DEF Respond, Places, Threads
  <2>2. r # None /\ answers[r] = 0 /\ kind[r] # "none" /\ \A b \in Threads : cur[b] # r
    BY <1>5 DEF Respond, Places, OneOwner
  <2>3. TypeOK'
    BY <1>5, <2>1, <2>2 DEF Respond, TypeOK, Kinds, Completing
  <2>4. OneOwner'
    BY <1>5, <2>1, <2>2 DEF Respond, TypeOK, OneOwner
  <2>5. Places'
    BY <1>5, <2>1, <2>2 DEF Respond, TypeOK, Places
  <2> QED BY <2>3, <2>4, <2>5 DEF Owners
<1>6. ASSUME NEW th \in Threads, Complete(th) PROVE Owners'
  <2>1. pc[th] = "complete"
    BY <1>6 DEF Complete, Goto
  <2>2. /\ cur[th] \in Requests /\ cur[th] # None
        /\ kind[cur[th]] # "none" /\ cur[th] \notin held
        /\ \A b \in Threads : b # th => cur[b] # cur[th]
    BY <2>1, Handled
  <2>3. answers[cur[th]] = 0
    BY <2>1 DEF Places
  <2>4. /\ answers' = [answers EXCEPT ![cur[th]] = 1]
        /\ pc' = [pc EXCEPT ![th] = "compare"]
        /\ UNCHANGED <<fix, kind, held, armed, cur, hist>>
    <3>1. answers[cur[th]] + 1 = 1
      BY <2>3
    <3> QED BY <1>6, <3>1 DEF Complete, Goto
  <2>5. TypeOK'
    <3>1. answers' \in [Requests -> 0 .. 1]
      <4>1. 1 \in 0 .. 1
        OBVIOUS
      <4>2. answers \in [Requests -> 0 .. 1]
        BY Zenon DEF TypeOK
      <4> QED BY <2>4, <4>1, <4>2, Zenon
    <3>2. pc' \in [Threads -> {"idle", "ack", "install", "hand over"} \cup Completing]
      BY <2>4 DEF TypeOK, Completing
    <3> QED BY <2>4, <3>1, <3>2 DEF TypeOK
  <2>6. OneOwner'
    BY <1>6, <2>1, <2>2, <2>3 DEF Complete, Goto, TypeOK, OneOwner
  <2>7. Places'
    BY <1>6, <2>1, <2>2, <2>3 DEF Complete, Goto, TypeOK, Places
  <2> QED BY <2>5, <2>6, <2>7 DEF Owners
<1>7. ASSUME NEW th \in Threads, Compare(th) PROVE Owners'
  <2>1. pc[th] = "compare"
    BY <1>7 DEF Compare, Goto
  <2>2. /\ cur[th] \in Requests /\ cur[th] # None
        /\ kind[cur[th]] # "none" /\ cur[th] \notin held
        /\ \A b \in Threads : b # th => cur[b] # cur[th]
    BY <2>1, Handled
  <2>3. UNCHANGED <<fix, kind, held, answers, armed, hist>>
    BY <1>7 DEF Compare
  <2>4. CASE trigger = Token(cur[th])
    <3>1. pc' = [pc EXCEPT ![th] = "act"] /\ cur' = cur
      BY <1>7, <2>4 DEF Compare
    <3>2. TypeOK'
      BY <2>3, <3>1 DEF TypeOK, Completing
    <3>3. OneOwner'
      BY <2>3, <3>1 DEF OneOwner
    <3>4. Places'
      BY <2>1, <2>2, <2>3, <3>1 DEF TypeOK, Places
    <3> QED BY <3>2, <3>3, <3>4 DEF Owners
  <2>5. CASE trigger # Token(cur[th])
    <3>1. pc' = [pc EXCEPT ![th] = "idle"] /\ cur' = [cur EXCEPT ![th] = None]
      BY <1>7, <2>5 DEF Compare
    <3>2. TypeOK'
      BY <2>3, <3>1 DEF TypeOK
    <3>3. OneOwner'
      BY <2>3, <3>1 DEF TypeOK, OneOwner
    <3>4. Places'
      BY <2>3, <3>1 DEF TypeOK, Places
    <3> QED BY <3>2, <3>3, <3>4 DEF Owners
  <2> QED BY <2>4, <2>5
<1>8. ASSUME NEW th \in Threads, Act(th) PROVE Owners'
  <2>1. pc[th] = "act"
    BY <1>8 DEF Act, Goto
  <2>2. /\ cur[th] \in Requests /\ cur[th] # None
        /\ kind[cur[th]] # "none" /\ cur[th] \notin held
        /\ \A b \in Threads : b # th => cur[b] # cur[th]
    BY <2>1, Handled
  <2>3. TypeOK'
    BY <1>8, <2>1, <2>2 DEF Act, Goto, TypeOK, Kinds, Completing
  <2>4. OneOwner'
    BY <1>8, <2>1, <2>2 DEF Act, Goto, TypeOK, OneOwner
  <2>5. Places'
    <3>1. UNCHANGED <<kind, held, answers, cur>>
      BY <1>8 DEF Act
    <3>2. \E l \in {"clear", "null call"} : pc' = [pc EXCEPT ![th] = l]
      BY <1>8 DEF Act, Goto
    <3> QED BY <2>1, <2>2, <3>1, <3>2 DEF TypeOK, Places
  <2> QED BY <2>3, <2>4, <2>5 DEF Owners
<1>9. ASSUME NEW th \in Threads, Clear(th) PROVE Owners'
  <2>1. pc[th] = "clear"
    BY <1>9 DEF Clear, Goto
  <2>2. /\ cur[th] \in Requests /\ cur[th] # None
        /\ kind[cur[th]] # "none" /\ cur[th] \notin held
        /\ \A b \in Threads : b # th => cur[b] # cur[th]
    BY <2>1, Handled
  <2>3. TypeOK'
    BY <1>9, <2>1, <2>2 DEF Clear, Goto, TypeOK, Kinds, Completing
  <2>4. OneOwner'
    BY <1>9, <2>1, <2>2 DEF Clear, Goto, TypeOK, OneOwner
  <2>5. Places'
    BY <1>9, <2>1, <2>2 DEF Clear, Goto, TypeOK, Places
  <2> QED BY <2>3, <2>4, <2>5 DEF Owners
<1>10. CASE UNCHANGED vars
  BY <1>10 DEF vars, Owners, TypeOK, OneOwner, Places
<1> QED BY <1>1, <1>2, <1>3, <1>4, <1>5, <1>6, <1>7, <1>8, <1>9, <1>10 DEF Next, Step

\* OneOwner: whatever the threads of libsec-ril do, a request has one owner at
\* a time and libril is told once that it is complete (answers stays below 2).
THEOREM AnsweredByOneOwner == Spec => [](TypeOK /\ OneOwner)
<1>1. Owners => TypeOK /\ OneOwner
  BY DEF Owners
<1> QED BY InitOwners, NextOwners, <1>1, PTL DEF Spec

\* TypeOK: answers never passes 1, so that no request is completed twice, whichever
\* of the wrapper and libsec-ril completes it.
THEOREM TypeCorrect == Spec => []TypeOK
<1> QED BY AnsweredByOneOwner, PTL

-----------------------------------------------------------------------------
\* The trigger is a power-on request's, and so is the completion on which an
\* action runs, if it is not a local request's.
Armed ==
  /\ trigger # None => PowerOn(trigger) /\ action
  /\ \A th \in Threads : pc[th] = "install" => PowerOn(cur[th])
  /\ \A th \in Threads : pc[th] = "act" =>
       (PowerOn(cur[th]) /\ action) \/ cur[th] \in Local
  /\ \A th \in Threads : pc[th] = "null call" => cur[th] \in Local
  /\ \A th \in Threads : pc[th] = "clear" => cur[th] \in tried

\* A power-on request that has had not had its fix and is neither replaced nor
\* erased is about to arm the trigger or has armed it; and a completed one still
\* has its thread.
Pending ==
  /\ \A r \in tried : PowerOn(r) \/ r \in Local
  /\ \A r \in Requests \ Local : PowerOn(r) =>
       \/ r \in tried \cup replaced \cup erased
       \/ trigger = r
       \/ pc[libril] = "install" /\ cur[libril] = r
  /\ trigger # None /\ answers[trigger] = 1 => \E th \in Threads : cur[th] = trigger

LEMMA InitPending == Init => Armed /\ Pending
BY RilAssumption DEF Init, Armed, Pending, PowerOn, Threads

LEMMA NextPending == Owners /\ Armed /\ Pending /\ [Next]_vars => Armed' /\ Pending'
<1> SUFFICES ASSUME TypeOK, OneOwner, Places, Armed, Pending, [Next]_vars
             PROVE  Armed' /\ Pending'
  BY DEF Owners
<1> USE RilAssumption DEF Threads, hist, armed, Token
<1>1. ASSUME NEW r \in Requests, NEW k \in Kinds, Receive(r, k) PROVE Armed' /\ Pending'
  <2>1. libril \in Threads /\ pc[libril] = "idle" /\ cur[libril] = None
    BY <1>1 DEF Receive, Places, Threads
  <2>2. answers[r] = 0 /\ ~PowerOn(r) /\ \A b \in Threads : cur[b] # r
    BY <1>1 DEF Receive, Places, PowerOn
  <2>3. /\ Case(r) \in {"ack", "install", "hand over"}
        /\ Case(r) = "install" <=> k = "radio on" /\ fix.radio
    BY <1>1 DEF Receive, Case, TypeOK
  <2>4. /\ pc'[libril] = Case(r) /\ cur'[libril] = r
        /\ \A b \in Threads : b # libril => pc'[b] = pc[b] /\ cur'[b] = cur[b]
        /\ UNCHANGED <<answers, armed, hist>>
    BY <1>1, <2>1 DEF Receive, TypeOK
  <2>5. /\ fix' = fix /\ kind'[r] = k
        /\ \A q \in Requests : q # r => kind'[q] = kind[q]
    BY <1>1 DEF Receive, TypeOK
  <2>6. \A b \in Threads : cur[b] # None => cur[b] \in Requests
    BY DEF TypeOK
  <2>7. Armed'
    <3>1. trigger # r /\ (trigger # None => trigger \in Requests)
      BY <2>2 DEF Armed, TypeOK
    <3>2. (trigger # None => PowerOn(trigger) /\ action)'
      BY <2>4, <2>5, <3>1 DEF Armed, PowerOn
    <3>3. \A b \in Threads : pc'[b] = "install" => PowerOn(cur[b])'
      <4> SUFFICES ASSUME NEW b \in Threads, pc'[b] = "install" PROVE PowerOn(cur[b])'
        OBVIOUS
      <4>1. CASE b = libril
        BY <2>3, <2>4, <2>5, <4>1 DEF PowerOn
      <4>2. CASE b # libril
        <5>1. pc[b] = "install" /\ cur'[b] = cur[b]
          BY <2>4, <4>2
        <5>2. PowerOn(cur[b]) /\ cur[b] \in Requests /\ cur[b] # r
          BY <2>2, <2>6, <5>1 DEF Armed, Places
        <5> QED BY <2>5, <5>1, <5>2 DEF PowerOn
      <4> QED BY <4>1, <4>2
    <3>4. ASSUME NEW b \in Threads, pc'[b] = "act"
          PROVE  (PowerOn(cur[b]) /\ action)' \/ cur'[b] \in Local
      <4>1. b # libril /\ pc[b] = "act" /\ cur'[b] = cur[b] /\ action' = action
        BY <2>3, <2>4, <3>4
      <4>2. cur[b] \in Requests /\ cur[b] # r
        BY <2>2, <2>6, <4>1 DEF Places
      <4>3. (PowerOn(cur[b]) /\ action) \/ cur[b] \in Local
        BY <4>1 DEF Armed
      <4> QED BY <2>5, <4>1, <4>2, <4>3 DEF PowerOn
    <3>5. \A b \in Threads : /\ pc'[b] = "clear" => cur'[b] \in tried'
                             /\ pc'[b] = "null call" => cur'[b] \in Local
      BY <2>3, <2>4 DEF Armed
    <3> QED BY <3>2, <3>3, <3>4, <3>5 DEF Armed
  <2>8. Pending'
    <3>1. \A q \in tried : q \in Requests /\ (q # r \/ q \in Local)
      BY <2>2 DEF Pending, TypeOK
    <3>2. (\A q \in tried : PowerOn(q) \/ q \in Local)'
      BY <2>4, <2>5, <3>1 DEF Pending, PowerOn
    <3>3. ASSUME NEW q \in Requests \ Local, PowerOn(q)'
          PROVE  \/ q \in tried' \cup replaced' \cup erased'
                 \/ trigger' = q
                 \/ pc'[libril] = "install" /\ cur'[libril] = q
      <4>1. CASE q = r
        BY <2>3, <2>4, <2>5, <3>3, <4>1 DEF PowerOn
      <4>2. CASE q # r
        <5>1. PowerOn(q)
          BY <2>5, <3>3, <4>2 DEF PowerOn
        <5> QED BY <2>1, <2>4, <5>1 DEF Pending
      <4> QED BY <4>1, <4>2
    <3>4. (trigger # None /\ answers[trigger] = 1 => \E b \in Threads : cur[b] = trigger)'
      BY <2>1, <2>4 DEF Pending
    <3> QED BY <3>2, <3>3, <3>4 DEF Pending
  <2> QED BY <2>7, <2>8
<1>2. CASE Install
  <2>1. libril \in Threads /\ pc[libril] = "install"
    BY <1>2 DEF Install, Goto, Threads
  <2>2. /\ cur[libril] \in Requests /\ cur[libril] # None
        /\ answers[cur[libril]] = 0 /\ PowerOn(cur[libril])
    BY <2>1, Handled DEF Places, Armed
  <2>3. /\ pc' = [pc EXCEPT ![libril] = "hand over"] /\ trigger' = Token(cur[libril])
        /\ action' = TRUE /\ replaced' = replaced \cup ({trigger} \ {None})
        /\ UNCHANGED <<fix, kind, answers, cur, tried, erased>>
    BY <1>2 DEF Install, Goto, SetTrigger
  <2>4. Armed'
    BY <2>1, <2>2, <2>3 DEF Armed, PowerOn, TypeOK
  <2>5. Pending'
    BY <2>1, <2>2, <2>3 DEF Pending, PowerOn, TypeOK
  <2> QED BY <2>4, <2>5
<1>3. CASE HandOver
  <2>1. libril \in Threads /\ pc[libril] = "hand over"
    BY <1>3 DEF HandOver, Threads
  <2>2. cur[libril] \in Requests /\ answers[cur[libril]] = 0
    BY <2>1, Handled DEF Places
  <2>3. UNCHANGED <<fix, kind, answers, armed, hist>>
    BY <1>3 DEF HandOver
  <2>4. CASE pc' = [pc EXCEPT ![libril] = "idle"] /\ cur' = [cur EXCEPT ![libril] = None]
    <3>1. Armed'
      BY <2>3, <2>4 DEF Armed, PowerOn, TypeOK
    <3>2. /\ pc'[libril] = "idle"
          /\ \A b \in Threads : cur[b] # cur[libril] => cur'[b] = cur[b]
      BY <2>1, <2>4 DEF TypeOK
    <3>3. ASSUME trigger' # None, answers'[trigger'] = 1
          PROVE  \E b \in Threads : cur'[b] = trigger'
      <4>1. trigger' = trigger /\ answers' = answers /\ trigger # cur[libril]
        BY <2>2, <2>3, <3>3
      <4> QED BY <3>2, <3>3, <4>1 DEF Pending
    <3>4. Pending'
      BY <2>1, <2>3, <3>2, <3>3 DEF Pending, PowerOn
    <3> QED BY <3>1, <3>4
  <2>5. CASE pc' = [pc EXCEPT ![libril] = "complete"] /\ cur' = cur
    <3>1. Armed'
      BY <2>3, <2>5 DEF Armed, PowerOn, TypeOK
    <3>2. Pending'
      BY <2>1, <2>3, <2>5 DEF Pending, PowerOn, TypeOK
    <3> QED BY <3>1, <3>2
  <2> QED BY <1>3, <2>4, <2>5 DEF HandOver
<1>4. CASE Acknowledge
  <2>1. /\ UNCHANGED <<fix, kind, answers, armed, cur, hist>>
        /\ pc' = [pc EXCEPT ![libril] = "complete"] /\ pc[libril] = "ack"
    BY <1>4 DEF Acknowledge, Goto
  <2>2. Armed'
    BY <2>1 DEF Armed, PowerOn, TypeOK
  <2>3. Pending'
    BY <2>1 DEF Pending, PowerOn, TypeOK
  <2> QED BY <2>2, <2>3
<1>5. ASSUME NEW th \in Readers, NEW r \in Requests, Respond(th, r) PROVE Armed' /\ Pending'
  <2>1. th \in Threads /\ th # libril /\ pc[th] = "idle" /\ cur[th] = None
    BY <1>5 DEF Respond, Places, Threads
  <2>2. /\ UNCHANGED <<fix, kind, answers, armed, hist>>
        /\ pc' = [pc EXCEPT ![th] = "complete"] /\ cur' = [cur EXCEPT ![th] = r]
    BY <1>5 DEF Respond
  <2>3. Armed'
    BY <2>2 DEF Armed, PowerOn, TypeOK
  <2>4. Pending'
    BY <2>1, <2>2 DEF Pending, PowerOn, TypeOK, Threads
  <2> QED BY <2>3, <2>4
<1>6. ASSUME NEW th \in Threads, Complete(th) PROVE Armed' /\ Pending'
  <2>1. pc[th] = "complete" /\ cur[th] \in Requests /\ cur[th] # None
    BY <1>6, Handled DEF Complete, Goto
  <2>2. \A b \in Threads : b # th => cur[b] # cur[th]
    BY <2>1, Handled
  <2>3. /\ UNCHANGED <<fix, kind, armed, cur, hist>>
        /\ pc' = [pc EXCEPT ![th] = "compare"]
        /\ \A q \in Requests : q # cur[th] => answers'[q] = answers[q]
    BY <1>6 DEF Complete, Goto, TypeOK
  <2>4. Armed'
    BY <2>1, <2>3 DEF Armed, PowerOn, TypeOK
  <2>5. Pending'
    BY <2>1, <2>3 DEF Pending, PowerOn, TypeOK
  <2> QED BY <2>4, <2>5
<1>7. ASSUME NEW th \in Threads, Compare(th) PROVE Armed' /\ Pending'
  <2>1. pc[th] = "compare" /\ cur[th] \in Requests /\ cur[th] # None
    BY <1>7, Handled DEF Compare, Goto
  <2>2. \A b \in Threads : b # th => cur[b] # cur[th]
    BY <2>1, Handled
  <2>3. UNCHANGED <<fix, kind, answers, armed, hist>>
    BY <1>7 DEF Compare
  <2>4. CASE trigger = Token(cur[th])
    <3>1. pc' = [pc EXCEPT ![th] = "act"] /\ cur' = cur
      BY <1>7, <2>4 DEF Compare
    <3>2. (PowerOn(cur[th]) /\ action) \/ cur[th] \in Local
      BY <2>1, <2>4 DEF Armed
    <3>3. Armed'
      BY <2>3, <3>1, <3>2 DEF Armed, PowerOn, TypeOK
    <3>4. Pending'
      BY <2>1, <2>3, <3>1 DEF Pending, PowerOn, TypeOK
    <3> QED BY <3>3, <3>4
  <2>5. CASE trigger # Token(cur[th])
    <3>1. pc' = [pc EXCEPT ![th] = "idle"] /\ cur' = [cur EXCEPT ![th] = None]
      BY <1>7, <2>5 DEF Compare
    <3>2. Armed'
      BY <2>3, <3>1 DEF Armed, PowerOn, TypeOK
    <3>3. trigger # cur[th]
      BY <2>1, <2>5 DEF TypeOK
    <3>4. Pending'
      BY <2>1, <2>3, <3>1, <3>3 DEF Pending, PowerOn, TypeOK
    <3> QED BY <3>2, <3>4
  <2> QED BY <2>4, <2>5
<1>8. ASSUME NEW th \in Threads, Act(th) PROVE Armed' /\ Pending'
  <2>1. pc[th] = "act" /\ cur[th] \in Requests /\ cur[th] # None
    BY <1>8, Handled DEF Act, Goto
  <2>2. (PowerOn(cur[th]) /\ action) \/ cur[th] \in Local
    BY <2>1 DEF Armed
  <2>3. UNCHANGED <<fix, kind, answers, armed, cur, replaced, erased>>
    BY <1>8 DEF Act
  <2>4. CASE action
    <3>1. pc' = [pc EXCEPT ![th] = "clear"] /\ tried' = tried \cup {cur[th]}
      BY <1>8, <2>4 DEF Act, Goto
    <3>2. Armed'
      BY <2>1, <2>3, <3>1 DEF Armed, PowerOn, TypeOK
    <3>3. Pending'
      BY <2>1, <2>2, <2>3, <3>1 DEF Pending, PowerOn, TypeOK
    <3> QED BY <3>2, <3>3
  <2>5. CASE ~action
    <3>1. pc' = [pc EXCEPT ![th] = "null call"] /\ tried' = tried
      BY <1>8, <2>5 DEF Act, Goto
    <3>2. cur[th] \in Local
      BY <2>2, <2>5
    <3>3. Armed'
      BY <2>1, <2>3, <3>1, <3>2 DEF Armed, PowerOn, TypeOK
    <3>4. Pending'
      BY <2>1, <2>3, <3>1 DEF Pending, PowerOn, TypeOK
    <3> QED BY <3>3, <3>4
  <2> QED BY <2>4, <2>5
<1>9. ASSUME NEW th \in Threads, Clear(th) PROVE Armed' /\ Pending'
  <2>1. pc[th] = "clear" /\ cur[th] \in Requests /\ cur[th] # None
    BY <1>9, Handled DEF Clear, Goto
  <2>2. /\ UNCHANGED <<fix, kind, answers, action, tried, replaced>>
        /\ trigger' = None /\ erased' = erased \cup ({trigger} \ {None, cur[th]})
        /\ pc' = [pc EXCEPT ![th] = "idle"] /\ cur' = [cur EXCEPT ![th] = None]
    BY <1>9 DEF Clear, Goto
  <2>3. cur[th] \in tried
    BY <2>1 DEF Armed
  <2>4. Armed'
    BY <2>2 DEF Armed, PowerOn, TypeOK
  <2>5. Pending'
    <3>1. ASSUME NEW q \in Requests \ Local, PowerOn(q)
          PROVE  \/ q \in tried' \cup replaced' \cup erased'
                 \/ pc'[libril] = "install" /\ cur'[libril] = q
      <4>1. CASE trigger = q
        BY <2>2, <2>3, <4>1
      <4>2. CASE trigger # q
        <5>1. \/ q \in tried \cup replaced \cup erased
              \/ pc[libril] = "install" /\ cur[libril] = q
          BY <3>1, <4>2 DEF Pending
        <5>2. pc[libril] = "install" => pc'[libril] = pc[libril] /\ cur'[libril] = cur[libril]
          BY <2>1, <2>2 DEF TypeOK
        <5> QED BY <2>2, <5>1, <5>2
      <4> QED BY <4>1, <4>2
    <3>2. \A q \in tried' : PowerOn(q)' \/ q \in Local
      BY <2>2 DEF Pending, PowerOn
    <3> QED BY <2>2, <3>1, <3>2 DEF Pending, PowerOn
  <2> QED BY <2>4, <2>5
<1>10. CASE UNCHANGED vars
  BY <1>10 DEF vars, Armed, Pending, PowerOn
<1> QED BY <1>1, <1>2, <1>3, <1>4, <1>5, <1>6, <1>7, <1>8, <1>9, <1>10 DEF Next, Step

\* FixOnPowerOn: with no lock between the threads, the fix was tried on the
\* completion of every power-on request, but those replaced in the trigger or
\* erased by another completion; on no others but local requests' completions; and
\* the action is there, if the completion is not a local request's.
THEOREM FixFollowsPowerOn == Spec => []FixOnPowerOn
<1>1. Owners /\ Armed /\ Pending => FixOnPowerOn
  BY RilAssumption DEF Owners, TypeOK, Armed, Pending, FixOnPowerOn, Past, Threads
<1> QED BY InitOwners, NextOwners, InitPending, NextPending, <1>1, PTL DEF Spec
=============================================================================
