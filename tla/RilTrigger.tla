---------------------------- MODULE RilTrigger -----------------------------
(***************************************************************************)
(* libh1-ril (libril-h1.c, libril-h1_ipc.c): the wrapper between libril    *)
(* and the vendor's libsec-ril.  onRequest() runs on libril's thread;      *)
(* RIL_onRequestComplete() on whichever thread of libsec-ril has the       *)
(* answer, on libril's own when libsec-ril answers at once, or when the    *)
(* wrapper answers a request itself.  All of them share one trigger,       *)
(* onCompleteTrigger, without a lock.                                      *)
(*                                                                         *)
(* The trigger holds the token of a request: the number the Java side gave *)
(* it, taken never to come back, so that such a request is its own token.  *)
(* The requests libril makes for itself all have the token 0xffffffff,     *)
(* which as an int is -1: NO_TRIGGER.  Of the requests only                *)
(* SMS_ACKNOWLEDGE and RADIO_POWER(on) are told from the others.  The      *)
(* calls that only forward (state, support, cancel, version, unsolicited   *)
(* responses, timed callbacks) have no state and are left out.             *)
(***************************************************************************)
EXTENDS Integers

CONSTANTS
  Requests,   \* the bound on the requests libril makes
  Local,      \* those it makes for itself
  Readers,    \* threads of libsec-ril that complete requests
  None        \* NO_TRIGGER, the token of a local request, and no request

libril == "libril"
Threads == {libril} \cup Readers

ASSUME RilAssumption ==
  /\ None \notin Requests /\ Local \subseteq Requests
  /\ libril \notin Readers

\* pRI->token.
Token(r) == IF r \in Local THEN None ELSE r

Kinds == {"radio on", "sms", "other"}

VARIABLES
  fix,       \* g3GFixEnable and gSmsFixEnable
  kind,      \* the requests made so far and what they ask; "none" before
  held,      \* requests libsec-ril works for
  answers,   \* how often libril was told that a request is complete
  trigger,   \* onCompleteTrigger.token
  action,    \* onCompleteTrigger.action is set: it is NULL until the first install
  pc, cur,   \* per thread, and the request it handles
  tried,     \* history: completions on which ipcFix3G() ran
  replaced,  \* history: triggers overwritten by a later RADIO_POWER(on)
  erased     \* history: triggers deleted on the completion of another request

armed == <<trigger, action>>
hist == <<tried, replaced, erased>>
vars == <<fix, kind, held, answers, armed, pc, cur, hist>>

Init ==
  /\ fix \in [radio : BOOLEAN, sms : BOOLEAN]
  /\ kind = [r \in Requests |-> "none"]
  /\ held = {}
  /\ answers = [r \in Requests |-> 0]
  /\ trigger = None /\ action = FALSE
  /\ pc = [th \in Threads |-> "idle"] /\ cur = [th \in Threads |-> None]
  /\ tried = {} /\ replaced = {} /\ erased = {}

Goto(th, from, to) == pc[th] = from /\ pc' = [pc EXCEPT ![th] = to]

Completing == {"complete", "compare", "act", "null call", "clear"}

-----------------------------------------------------------------------------
(* onRequest(), on libril's thread.                                        *)

\* Where the switch sends the request.
Case(r) ==
  CASE kind'[r] = "sms" /\ fix.sms -> "ack"
    [] kind'[r] = "radio on" /\ fix.radio -> "install"
    [] OTHER -> "hand over"

\* Mutant of Receive: replaceRequest is not set.
ReceiveForAll(r, k) ==
  /\ pc[libril] = "idle" /\ kind[r] = "none"
  /\ kind' = [kind EXCEPT ![r] = k]
  /\ pc' = [pc EXCEPT ![libril] = Case(r)]
  /\ cur' = [cur EXCEPT ![libril] = r]
  /\ held' = IF Case(r) = "ack" THEN held \cup {r} ELSE held
  /\ UNCHANGED <<fix, answers, armed, hist>>

Receive(r, k) ==
  /\ pc[libril] = "idle" /\ kind[r] = "none"
  /\ kind' = [kind EXCEPT ![r] = k]
  /\ pc' = [pc EXCEPT ![libril] = Case(r)]
  /\ cur' = [cur EXCEPT ![libril] = r]
  /\ UNCHANGED <<fix, held, answers, armed, hist>>

\* The trigger is set to the token of libril's request.  The action is stored
\* after the token: no one can tell, as the request is not handed over yet.
SetTrigger ==
  /\ trigger' = Token(cur[libril]) /\ action' = TRUE
  /\ replaced' = replaced \cup ({trigger} \ {None})

\* Mutant of Install: the request is handed over first.
InstallLate ==
  /\ \/ /\ Goto(libril, "install", "install late")
        /\ held' = held \cup {cur[libril]}
        /\ UNCHANGED <<armed, replaced, cur>>
     \/ /\ Goto(libril, "install late", "idle")
        /\ SetTrigger
        /\ cur' = [cur EXCEPT ![libril] = None]
        /\ UNCHANGED held
  /\ UNCHANGED <<fix, kind, answers, tried, erased>>

\* installOnReqCompleteTrigger(): there is one trigger for all requests, and
\* a completing thread may be anywhere between its test and its erasure.
Install ==
  /\ Goto(libril, "install", "hand over")
  /\ SetTrigger
  /\ UNCHANGED <<fix, kind, held, answers, cur, tried, erased>>

\* secRilFuncs->onRequest(): from here on any thread may complete it, this
\* one before it returns included.
HandOver ==
  /\ pc[libril] = "hand over"
  /\ \/ /\ held' = held \cup {cur[libril]}
        /\ pc' = [pc EXCEPT ![libril] = "idle"]
        /\ cur' = [cur EXCEPT ![libril] = None]
     \/ pc' = [pc EXCEPT ![libril] = "complete"] /\ UNCHANGED <<held, cur>>
  /\ UNCHANGED <<fix, kind, answers, armed, hist>>

\* requestSMSAcknowledge(): the wrapper's own message to the modem goes out,
\* fails or is not wanted, and the request is complete in each case.
Acknowledge ==
  /\ Goto(libril, "ack", "complete")
  /\ UNCHANGED <<fix, kind, held, answers, armed, cur, hist>>

-----------------------------------------------------------------------------
(* RIL_onRequestComplete().                                                *)

\* libsec-ril has the answer.
Respond(th, r) ==
  /\ pc[th] = "idle" /\ r \in held
  /\ held' = held \ {r}
  /\ pc' = [pc EXCEPT ![th] = "complete"]
  /\ cur' = [cur EXCEPT ![th] = r]
  /\ UNCHANGED <<fix, kind, answers, armed, hist>>

\* The token is read, then libril gets (and frees) the request.
Complete(th) ==
  /\ Goto(th, "complete", "compare")
  /\ answers' = [answers EXCEPT ![cur[th]] = @ + 1]
  /\ UNCHANGED <<fix, kind, held, armed, cur, hist>>

\* Is the trigger installed on this request?  The test is true for a local one
\* when no trigger is.
Compare(th) ==
  /\ pc[th] = "compare"
  /\ IF trigger = Token(cur[th])
     THEN pc' = [pc EXCEPT ![th] = "act"] /\ UNCHANGED cur
     ELSE pc' = [pc EXCEPT ![th] = "idle"] /\ cur' = [cur EXCEPT ![th] = None]
  /\ UNCHANGED <<fix, kind, held, answers, armed, hist>>

\* onCompleteTrigger.action(): ipcFix3G(), whose result is dropped, or the call
\* of a null pointer, which ends the process.
Act(th) ==
  /\ \/ /\ action /\ Goto(th, "act", "clear")
        /\ tried' = tried \cup {cur[th]}
     \/ /\ ~action /\ Goto(th, "act", "null call")
        /\ UNCHANGED tried
  /\ UNCHANGED <<fix, kind, held, answers, armed, cur, replaced, erased>>

\* The trigger is deleted, whichever it is by now.
Clear(th) ==
  /\ Goto(th, "clear", "idle")
  /\ trigger' = None
  /\ erased' = erased \cup ({trigger} \ {None, cur[th]})
  /\ cur' = [cur EXCEPT ![th] = None]
  /\ UNCHANGED <<fix, kind, held, answers, action, tried, replaced>>

-----------------------------------------------------------------------------
Step(th) == Complete(th) \/ Compare(th) \/ Act(th) \/ Clear(th)

Next ==
  /\ \A th \in Threads : pc[th] # "null call"
  /\ \/ \E r \in Requests, k \in Kinds : Receive(r, k)
     \/ Install \/ HandOver \/ Acknowledge
     \/ \E th \in Readers, r \in Requests : Respond(th, r)
     \/ \E th \in Threads : Step(th)

Spec == Init /\ [][Next]_vars

-----------------------------------------------------------------------------
TypeOK ==
  /\ fix \in [radio : BOOLEAN, sms : BOOLEAN]
  /\ kind \in [Requests -> Kinds \cup {"none"}]
  /\ held \in SUBSET Requests
  /\ answers \in [Requests -> 0 .. 1]
  /\ trigger \in (Requests \ Local) \cup {None} /\ action \in BOOLEAN
  /\ pc \in [Threads -> {"idle", "ack", "install", "hand over"} \cup Completing]
  /\ cur \in [Threads -> Requests \cup {None}]
  /\ tried \in SUBSET Requests
  /\ replaced \in SUBSET Requests /\ erased \in SUBSET Requests

\* onRequest() and libsec-ril are never both responsible for a request: what
\* the wrapper answers itself is not passed on, so that libril, which frees a
\* request when it is told, is told once.
OneOwner ==
  /\ \A a, b \in Threads : cur[a] = cur[b] /\ cur[a] # None => a = b
  /\ \A th \in Threads : cur[th] \notin held
  /\ \A r \in held : answers[r] = 0

\* A request to fix, and one that is complete and left behind by every thread.
PowerOn(r) == kind[r] = "radio on" /\ fix.radio
Past(r)    == answers[r] = 1 /\ \A th \in Threads : cur[th] # r

\* The trigger is for the moment libsec-ril finishes the request: when a
\* RADIO_POWER(on) is complete, the 3G fix was tried on its completion, unless a
\* later one replaced it in the one trigger or the completion of another request,
\* whose action was under way, deleted it.  The completions that try the fix are
\* those of these requests and of local ones, whose token is that of no trigger,
\* and only the latter can call the action before there is one.
FixOnPowerOn ==
  /\ \A r \in Requests \ Local :
       PowerOn(r) /\ Past(r) => r \in tried \cup replaced \cup erased
  /\ \A r \in tried : PowerOn(r) \/ r \in Local
  /\ \A th \in Threads : pc[th] = "null call" => cur[th] \in Local

=============================================================================
