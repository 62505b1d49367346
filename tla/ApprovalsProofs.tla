--------------------------- MODULE ApprovalsProofs ---------------------------
(***************************************************************************)
(* Proofs about Approvals, for every set of turns and calls.  No fairness  *)
(* is used.                                                                *)
(***************************************************************************)
EXTENDS Approvals, TLAPS

\* Every variable has its type when the batches begin.
LEMMA TypeInit == Init => TypeOK
  BY DEF Init, TypeOK, PC, Outcome

\* The window's queue stays a queue of calls.
LEMMA QueueTyped ==
  ASSUME inbox \in Seq(Calls), NEW c \in Calls
  PROVE  /\ Append(inbox, c) \in Seq(Calls)
         /\ inbox # <<>> => Head(inbox) \in Calls /\ Tail(inbox) \in Seq(Calls)
  OBVIOUS

\* No step writes a value out of its type.
LEMMA TypeNext == TypeOK /\ [Next]_vars => TypeOK'
<1> SUFFICES ASSUME TypeOK, [Next]_vars PROVE TypeOK'
  OBVIOUS
<1> USE DEF TypeOK, PC, Outcome, Decision, Resolution, batch, dispatch, manager, turn, window,
      GoTo, Return, Write
<1>1. ASSUME NEW c \in Calls, Request(c) PROVE TypeOK'
  BY <1>1, QueueTyped DEF Request, MayDispatch
<1>2. ASSUME NEW c \in Calls, RequestFails(c) PROVE TypeOK'
  BY <1>2 DEF RequestFails, MayDispatch
<1>3. ASSUME NEW c \in Calls, Wait(c) PROVE TypeOK'
  BY <1>3 DEF Wait
<1>4. ASSUME NEW c \in Calls, WaitLate(c) PROVE TypeOK'
  BY <1>4 DEF WaitLate
<1>5. ASSUME NEW c \in Calls, Receive(c) PROVE TypeOK'
  BY <1>5 DEF Receive
<1>6. ASSUME NEW c \in Calls, Abandon(c) PROVE TypeOK'
  BY <1>6 DEF Abandon
<1>7. ASSUME NEW c \in Calls, Proceed(c) PROVE TypeOK'
  BY <1>7 DEF Proceed, Follow
<1>8. ASSUME NEW c \in Calls, ProceedFails(c) PROVE TypeOK'
  BY <1>8 DEF ProceedFails
<1>9. ASSUME NEW c \in Calls, Execute(c) PROVE TypeOK'
  BY <1>9 DEF Execute
<1>10. ASSUME NEW r \in Resolution, Resolve(r) PROVE TypeOK'
  BY <1>10 DEF Resolve
<1>11. ASSUME NEW r \in Resolution, ResolveStale(r) PROVE TypeOK'
  BY <1>11 DEF ResolveStale
<1>12. ASSUME NEW r \in Resolution, Send(r) PROVE TypeOK'
  BY <1>12 DEF Send
<1>13. ASSUME Deliver PROVE TypeOK'
  BY <1>13, QueueTyped DEF Deliver
<1>14. ASSUME NEW stays \in BOOLEAN, ClickStep(stays) PROVE TypeOK'
  BY <1>14 DEF ClickStep, Click
<1>15. ASSUME NEW t \in Turns, Stop(t) PROVE TypeOK'
  BY <1>15 DEF Stop
<1>16. ASSUME UNCHANGED vars PROVE TypeOK'
  BY <1>16 DEF vars
<1> QED
  BY <1>1, <1>2, <1>3, <1>4, <1>5, <1>6, <1>7, <1>8, <1>9, <1>10, <1>11, <1>12, <1>13, <1>14,
     <1>15, <1>16 DEF Next, CallStep, Respond

\* Every variable has its type in every state.
THEOREM TypeCorrect == Spec => []TypeOK
<1>1. Init => TypeOK
  BY TypeInit
<1>2. TypeOK /\ [Next]_vars => TypeOK'
  BY TypeNext
<1> QED
  BY <1>1, <1>2, PTL DEF Spec

-----------------------------------------------------------------------------
(* The decision.                                                           *)

\* A request that is open has no decision anywhere, and neither has one that
\* was not made yet.
OpenUndecided ==
  \A c \in Calls :
    /\ pc[c] = "ready" => c \notin pending
    /\ pc[c] = "ready" \/ c \in pending =>
         /\ ruled[c] = "none" /\ resolved[c] = "none" /\ channel[c] = "none" /\ got[c] = "none"
         /\ \A r \in sending : r.call # c

\* All copies of a decision are the one that the manager accepted, and only a
\* call that has returned was cancelled.
CopiesAgree ==
  /\ \A c \in Calls :
       /\ resolved[c] \in {"none", ruled[c]}
       /\ channel[c] \in {"none", ruled[c]}
       /\ got[c] \in {"none", ruled[c]}
       /\ ruled[c] = "cancelled" => pc[c] = "done"
  /\ \A r \in sending : r.status = ruled[r.call]
  /\ \A r \in rpcs : r.status # "cancelled"

\* A call whose request was closed finds the decision where it looks for it,
\* and one that was answered holds it.
DecisionAtHand ==
  \A c \in Calls :
    /\ pc[c] = "asked" /\ c \notin pending => resolved[c] # "none"
    /\ pc[c] = "waiting" /\ c \notin pending =>
         channel[c] # "none" \/ \E r \in sending : r.call = c
    /\ pc[c] = "answered" => got[c] # "none"

\* What became of a call is what was decided.
OutcomeFits ==
  \A c \in Calls :
    /\ outcome[c] # "none" => pc[c] = "done"
    /\ outcome[c] = "executed" \/ pc[c] = "executing" => ruled[c] = "approved"
    /\ outcome[c] = "rejected" => ruled[c] = "rejected"
    /\ outcome[c] = "cancelled" => stopped[turnOf[c]]

DecisionInv == TypeOK /\ OpenUndecided /\ CopiesAgree /\ DecisionAtHand /\ OutcomeFits

\* Nothing is decided when the batches begin.
LEMMA DecisionInit == Init => DecisionInv
  BY TypeInit DEF Init, DecisionInv, OpenUndecided, CopiesAgree, DecisionAtHand, OutcomeFits

\* No step makes a decision known in two versions, or loses it.
LEMMA DecisionNext == DecisionInv /\ [Next]_vars => DecisionInv'
<1> SUFFICES ASSUME DecisionInv, [Next]_vars
             PROVE  OpenUndecided' /\ CopiesAgree' /\ DecisionAtHand' /\ OutcomeFits'
  BY TypeNext DEF DecisionInv
<1> DEFINE Kept == OpenUndecided' /\ CopiesAgree' /\ DecisionAtHand' /\ OutcomeFits'
<1> USE DEF DecisionInv, OpenUndecided, CopiesAgree, DecisionAtHand, OutcomeFits, TypeOK, PC,
      Outcome, Decision, Resolution, batch, dispatch, manager, turn, window, GoTo, Return, Write
<1>1. ASSUME NEW c \in Calls, Request(c) PROVE Kept
  BY <1>1 DEF Request, MayDispatch
<1>2. ASSUME NEW c \in Calls, RequestFails(c) PROVE Kept
  BY <1>2 DEF RequestFails, MayDispatch
<1>3. ASSUME NEW c \in Calls, Wait(c) PROVE Kept
  BY <1>3 DEF Wait
<1>4. ASSUME NEW c \in Calls, WaitLate(c) PROVE Kept
  <2>1. /\ c \notin pending /\ resolved[c] # "none" /\ ruled[c] # "none"
        /\ got' = [got EXCEPT ![c] = resolved[c]]
        /\ resolved' = [resolved EXCEPT ![c] = "none"]
        /\ pc[c] = "asked" /\ pc' = [pc EXCEPT ![c] = "answered"]
        /\ UNCHANGED <<batch, pending, channel, sending, ruled, outcome, turn, window>>
    BY <1>4 DEF WaitLate
  <2> QED
    BY <2>1
<1>5. ASSUME NEW c \in Calls, Receive(c) PROVE Kept
  BY <1>5 DEF Receive
<1>6. ASSUME NEW c \in Calls, Abandon(c) PROVE Kept
  BY <1>6 DEF Abandon
<1>7. ASSUME NEW c \in Calls, Proceed(c) PROVE Kept
  <2>1. /\ c \notin pending /\ got[c] = ruled[c] /\ ruled[c] \in {"approved", "rejected"}
        /\ pc[c] = "answered" /\ outcome[c] = "none"
    BY <1>7 DEF Proceed
  <2>2. UNCHANGED <<batch, manager, stopped, window>>
    BY <1>7 DEF Proceed
  <2>3. CASE /\ ruled[c] = "approved"
             /\ pc' = [pc EXCEPT ![c] = "executing"]
             /\ got' = [got EXCEPT ![c] = "none"]
             /\ UNCHANGED outcome
    BY <2>1, <2>2, <2>3
  <2>4. CASE /\ ruled[c] = "rejected"
             /\ pc' = [pc EXCEPT ![c] = "done"]
             /\ outcome' = [outcome EXCEPT ![c] = "rejected"]
             /\ got' = [got EXCEPT ![c] = "none"]
    BY <2>1, <2>2, <2>4
  <2> QED
    BY <1>7, <2>1, <2>3, <2>4 DEF Proceed, Follow
<1>8. ASSUME NEW c \in Calls, ProceedFails(c) PROVE Kept
  BY <1>8 DEF ProceedFails
<1>9. ASSUME NEW c \in Calls, Execute(c) PROVE Kept
  BY <1>9 DEF Execute
<1>10. ASSUME NEW r \in Resolution, Resolve(r) PROVE Kept
  BY <1>10 DEF Resolve
<1>11. ASSUME NEW r \in Resolution, ResolveStale(r) PROVE Kept
  BY <1>11 DEF ResolveStale
<1>12. ASSUME NEW r \in Resolution, Send(r) PROVE Kept
  BY <1>12 DEF Send
<1>13. ASSUME Deliver PROVE Kept
  BY <1>13 DEF Deliver
<1>14. ASSUME NEW stays \in BOOLEAN, ClickStep(stays) PROVE Kept
  BY <1>14 DEF ClickStep, Click
<1>15. ASSUME NEW t \in Turns, Stop(t) PROVE Kept
  BY <1>15 DEF Stop
<1>16. ASSUME UNCHANGED vars PROVE Kept
  BY <1>16 DEF vars
<1> QED
  BY <1>1, <1>2, <1>3, <1>4, <1>5, <1>6, <1>7, <1>8, <1>9, <1>10, <1>11, <1>12, <1>13, <1>14,
     <1>15, <1>16 DEF Next, CallStep, Respond

\* The invariant of the decision holds in every state.
LEMMA DecisionCorrect == Spec => []DecisionInv
<1>1. Init => DecisionInv
  BY DecisionInit
<1>2. DecisionInv /\ [Next]_vars => DecisionInv'
  BY DecisionNext
<1> QED
  BY <1>1, <1>2, PTL DEF Spec

\* The first answer that the manager accepts decides what becomes of a call:
\* no later click, late request or cancellation changes it.
THEOREM FirstAnswerCorrect == Spec => []FirstAnswerRules
<1>1. DecisionInv => FirstAnswerRules
  BY DEF DecisionInv, OutcomeFits, FirstAnswerRules
<1> QED
  BY <1>1, DecisionCorrect, PTL

\* No answer is lost between the manager's buffer and its channel, and no call
\* of a turn that was not stopped is told that its request is gone.
THEOREM NoLostCorrect == Spec => []NoLostAnswer
<1>1. DecisionInv => NoLostAnswer
  BY DEF DecisionInv, DecisionAtHand, OutcomeFits, NoLostAnswer
<1> QED
  BY <1>1, DecisionCorrect, PTL

-----------------------------------------------------------------------------
(* The turn's status.                                                      *)

\* In a serial batch one call at a time is under way, and its turn's status
\* says whether it waits.
SerialInv ==
  /\ TypeOK
  /\ \A c, d \in Calls :
       turnOf[c] = turnOf[d] /\ turnOf[c] \notin parallel /\ {pc[c], pc[d]} \subseteq InDispatch
         => c = d
  /\ WaitingIsStored

\* No step starts a second call of a serial batch, or stores running while a
\* call of one waits.
LEMMA SerialNext == SerialInv /\ [Next]_vars => SerialInv'
<1> SUFFICES ASSUME SerialInv, [Next]_vars PROVE SerialInv'
  OBVIOUS
<1>0. TypeOK'
  BY TypeNext DEF SerialInv
<1> USE <1>0 DEF SerialInv, WaitingIsStored, TypeOK, PC, InDispatch,
      batch, dispatch, manager, turn, window, GoTo, Return, Write
<1>1. ASSUME NEW c \in Calls, Request(c) PROVE SerialInv'
  BY <1>1 DEF Request, MayDispatch
<1>2. ASSUME NEW c \in Calls, RequestFails(c) PROVE SerialInv'
  BY <1>2 DEF RequestFails, MayDispatch
<1>3. ASSUME NEW c \in Calls, Wait(c) PROVE SerialInv'
  BY <1>3 DEF Wait
<1>4. ASSUME NEW c \in Calls, WaitLate(c) PROVE SerialInv'
  BY <1>4 DEF WaitLate
<1>5. ASSUME NEW c \in Calls, Receive(c) PROVE SerialInv'
  BY <1>5 DEF Receive
<1>6. ASSUME NEW c \in Calls, Abandon(c) PROVE SerialInv'
  BY <1>6 DEF Abandon
<1>7. ASSUME NEW c \in Calls, Proceed(c) PROVE SerialInv'
  <2>1. /\ pc[c] = "answered" /\ row' = [row EXCEPT ![turnOf[c]] = "running"]
        /\ UNCHANGED <<batch, manager, stopped, window>>
    BY <1>7 DEF Proceed
  <2>2. \E to \in {"executing", "done"} : pc' = [pc EXCEPT ![c] = to]
    BY <1>7 DEF Proceed, Follow
  <2> QED
    BY <2>1, <2>2
<1>8. ASSUME NEW c \in Calls, ProceedFails(c) PROVE SerialInv'
  BY <1>8 DEF ProceedFails
<1>9. ASSUME NEW c \in Calls, Execute(c) PROVE SerialInv'
  BY <1>9 DEF Execute
<1>10. ASSUME NEW r \in Resolution, Respond(r) \/ Send(r) PROVE SerialInv'
  BY <1>10 DEF Respond, Resolve, ResolveStale, Send
<1>11. ASSUME Deliver PROVE SerialInv'
  BY <1>11 DEF Deliver
<1>12. ASSUME NEW stays \in BOOLEAN, ClickStep(stays) PROVE SerialInv'
  BY <1>12 DEF ClickStep, Click
<1>13. ASSUME NEW t \in Turns, Stop(t) PROVE SerialInv'
  BY <1>13 DEF Stop
<1>14. ASSUME UNCHANGED vars PROVE SerialInv'
  BY <1>14 DEF vars
<1> QED
  BY <1>1, <1>2, <1>3, <1>4, <1>5, <1>6, <1>7, <1>8, <1>9, <1>10, <1>11, <1>12, <1>13, <1>14
  DEF Next, CallStep

\* While the call of a serial batch waits for the user, its turn is stored as
\* waiting for approval.
THEOREM WaitingCorrect == Spec => []WaitingIsStored
<1>1. Init => SerialInv
  BY TypeInit DEF Init, SerialInv, WaitingIsStored, InDispatch, PC
<1>2. SerialInv /\ [Next]_vars => SerialInv'
  BY SerialNext
<1>3. SerialInv => WaitingIsStored
  BY DEF SerialInv
<1> QED
  BY <1>1, <1>2, <1>3, PTL DEF Spec

-----------------------------------------------------------------------------
(* The stop.                                                               *)

\* After a stop no call of the turn starts to execute: the write between the
\* answer and the execution is refused.
THEOREM StoppedCorrect == Spec => StoppedNeverStarts
<1> DEFINE Start == \A c \in Calls :
                      stopped[turnOf[c]] /\ pc[c] # "executing" => pc'[c] # "executing"
<1>1. TypeOK /\ [Next]_vars => Start
  <2> SUFFICES ASSUME TypeOK, [Next]_vars, NEW c \in Calls,
                      stopped[turnOf[c]], pc[c] # "executing", pc'[c] = "executing"
               PROVE  FALSE
    OBVIOUS
  <2> USE DEF TypeOK, PC, batch, dispatch, manager, turn, window, GoTo, Return, Write
  <2>1. ASSUME NEW d \in Calls, Request(d) \/ RequestFails(d) \/ Wait(d) \/ WaitLate(d) PROVE FALSE
    BY <2>1 DEF Request, RequestFails, Wait, WaitLate
  <2>2. ASSUME NEW d \in Calls, Receive(d) \/ Abandon(d) \/ ProceedFails(d) \/ Execute(d) PROVE FALSE
    BY <2>2 DEF Receive, Abandon, ProceedFails, Execute
  <2>3. ASSUME NEW d \in Calls, Proceed(d) PROVE FALSE
    BY <2>3 DEF Proceed, Follow
  <2>4. ASSUME NEW r \in Resolution, Respond(r) \/ Send(r) PROVE FALSE
    BY <2>4 DEF Respond, Resolve, ResolveStale, Send
  <2>5. ASSUME \/ Deliver \/ \E stays \in BOOLEAN : ClickStep(stays)
               \/ \E t \in Turns : Stop(t) \/ UNCHANGED vars
        PROVE  FALSE
    BY <2>5 DEF Deliver, ClickStep, Click, Stop, vars
  <2> QED
    BY <2>1, <2>2, <2>3, <2>4, <2>5 DEF Next, CallStep
<1>2. TypeOK /\ [Next]_vars => [Start]_vars
  BY <1>1
<1> QED
  BY <1>2, TypeCorrect, PTL DEF Spec, StoppedNeverStarts

=============================================================================
