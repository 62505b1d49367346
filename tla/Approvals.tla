------------------------------ MODULE Approvals ------------------------------
(***************************************************************************)
(* Approval of tool calls: Dispatcher.Dispatch (internal/tool) blocks each *)
(* call that needs the user's consent in approval.Manager                  *)
(* (internal/approval) until the window answers through ResolveApproval.   *)
(* The window (frontend/src/app/use-app-controller.ts) keeps one approval  *)
(* on display.  AgentTurn sees of all this only how many calls of a batch  *)
(* still wait; here are the steps in between.                              *)
(*                                                                         *)
(* A call stands for its approval id: newID is assumed not to repeat.      *)
(***************************************************************************)
EXTENDS Naturals, Sequences

CONSTANTS
  Turns,       \* turns with a running batch
  Calls,       \* the calls of those batches that need approval
  NoCall       \* nothing on display

ASSUME CallAssumption == NoCall \notin Calls

Decision == {"approved", "rejected", "cancelled"}
Outcome == {"none", "executed", "rejected", "cancelled", "unavailable"}
\* Where Dispatch is: before Create; before Wait; in Wait's select; before
\* ApprovalResolved; before Execute; returned.
PC == {"ready", "asked", "waiting", "answered", "executing", "done"}
InDispatch == PC \ {"ready", "done"}

VARIABLES
  turnOf,    \* the turn of each call
  parallel,  \* the turns whose batch ExecuteLayers runs as one parallel layer
  pc,        \* where each call's Dispatch is
  pending,   \* Manager.pending: the calls with an open request
  resolved,  \* Manager.resolved: the decision kept for a Wait that comes later
  channel,   \* pending.result, a channel with room for one decision
  sending,   \* decisions between Resolve's unlock and its channel send
  got,       \* the decision Wait returned, while Dispatch holds it
  outcome,   \* how Dispatch ended
  row,       \* agent_turns.status of the running turns
  stopped,   \* the turn's context is cancelled
  inbox,     \* agent.approval_required events on their way to the window
  banner,    \* the approval on display
  rpcs,      \* ResolveApproval requests on their way back
  ruled      \* history: the decision the manager accepted

batch == <<turnOf, parallel>>
dispatch == <<pc, got, outcome>>
manager == <<pending, resolved, channel, sending, ruled>>
turn == <<row, stopped>>
window == <<inbox, banner, rpcs>>
vars == <<batch, dispatch, manager, turn, window>>

Resolution == [call : Calls, status : Decision]

TypeOK ==
  /\ turnOf \in [Calls -> Turns]
  /\ parallel \subseteq Turns
  /\ pc \in [Calls -> PC]
  /\ pending \subseteq Calls
  /\ resolved \in [Calls -> Decision \cup {"none"}]
  /\ channel \in [Calls -> Decision \cup {"none"}]
  /\ sending \subseteq Resolution
  /\ got \in [Calls -> Decision \cup {"none"}]
  /\ outcome \in [Calls -> Outcome]
  /\ row \in [Turns -> {"running", "waiting_approval"}]
  /\ stopped \in [Turns -> BOOLEAN]
  /\ inbox \in Seq(Calls)
  /\ banner \in Calls \cup {NoCall}
  /\ rpcs \subseteq Resolution
  /\ ruled \in [Calls -> Decision \cup {"none"}]

Init ==
  /\ turnOf \in [Calls -> Turns]
  /\ parallel \in SUBSET Turns
  /\ pc = [c \in Calls |-> "ready"]
  /\ pending = {}
  /\ resolved = [c \in Calls |-> "none"]
  /\ channel = [c \in Calls |-> "none"]
  /\ sending = {}
  /\ got = [c \in Calls |-> "none"]
  /\ outcome = [c \in Calls |-> "none"]
  /\ row = [t \in Turns |-> "running"]
  /\ stopped = [t \in Turns |-> FALSE]
  /\ inbox = <<>>
  /\ banner = NoCall
  /\ rpcs = {}
  /\ ruled = [c \in Calls |-> "none"]

-----------------------------------------------------------------------------
(* Dispatch, up to the wait.                                               *)

GoTo(c, to) == pc' = [pc EXCEPT ![c] = to]

Return(c, how) ==
  /\ GoTo(c, "done")
  /\ outcome' = [outcome EXCEPT ![c] = how]
  /\ got' = [got EXCEPT ![c] = "none"]

\* UpdateTurnStatus through the turn's context: it commits only while that
\* context is alive.
Write(t, status) ==
  /\ ~stopped[t]
  /\ row' = [row EXCEPT ![t] = status]

\* Unless its layer is parallel a call is dispatched when none of its turn is
\* under way.  Nothing here looks at the context.
MayDispatch(c) ==
  /\ pc[c] = "ready"
  /\ turnOf[c] \in parallel \/ \A d \in Calls : turnOf[d] = turnOf[c] => pc[d] \notin InDispatch

MUT_RequestUnordered(c) ==
  /\ pc[c] = "ready"
  /\ pending' = pending \cup {c}
  /\ Write(turnOf[c], "waiting_approval")
  /\ inbox' = Append(inbox, c)
  /\ GoTo(c, "asked")
  /\ UNCHANGED <<batch, resolved, channel, sending, ruled, got, outcome, stopped, banner, rpcs>>

\* Create opens the request; ApprovalRequested stores waiting_approval and
\* publishes agent.approval_required.  Before that nobody knows the request.
Request(c) ==
  /\ MayDispatch(c)
  /\ pending' = pending \cup {c}
  /\ Write(turnOf[c], "waiting_approval")
  /\ inbox' = Append(inbox, c)
  /\ GoTo(c, "asked")
  /\ UNCHANGED <<batch, resolved, channel, sending, ruled, got, outcome, stopped, banner, rpcs>>

\* It cannot be stored: the call ends, its request stays in the manager.
RequestFails(c) ==
  /\ MayDispatch(c)
  /\ pending' = pending \cup {c}
  /\ Return(c, "unavailable")
  /\ UNCHANGED <<batch, resolved, channel, sending, ruled, turn, window>>

-----------------------------------------------------------------------------
(* Manager.Wait.                                                           *)

\* The request is open: Wait goes on to its select.
Wait(c) ==
  /\ pc[c] = "asked"
  /\ c \in pending
  /\ GoTo(c, "waiting")
  /\ UNCHANGED <<batch, manager, got, outcome, turn, window>>

\* Resolve came first: Wait takes the decision from the buffer, once.
WaitLate(c) ==
  /\ pc[c] = "asked"
  /\ c \notin pending
  /\ \/ /\ resolved[c] # "none"
        /\ got' = [got EXCEPT ![c] = resolved[c]]
        /\ resolved' = [resolved EXCEPT ![c] = "none"]
        /\ GoTo(c, "answered")
        /\ UNCHANGED outcome
     \/ /\ resolved[c] = "none"
        /\ Return(c, "cancelled")
        /\ UNCHANGED resolved
  /\ UNCHANGED <<batch, pending, channel, sending, ruled, turn, window>>

\* The select takes the decision from the channel; the buffer keeps its copy.
Receive(c) ==
  /\ pc[c] = "waiting"
  /\ channel[c] # "none"
  /\ got' = [got EXCEPT ![c] = channel[c]]
  /\ channel' = [channel EXCEPT ![c] = "none"]
  /\ GoTo(c, "answered")
  /\ UNCHANGED <<batch, pending, resolved, sending, ruled, outcome, turn, window>>

MUT_AbandonAnswered(c) ==
  /\ pc[c] = "waiting"
  /\ stopped[turnOf[c]]
  /\ c \notin pending
  /\ Return(c, "cancelled")
  /\ UNCHANGED <<batch, manager, turn, window>>

\* The select takes ctx.Done, also when a decision is there; finish resolves
\* the request as cancelled, unless Resolve was faster.
Abandon(c) ==
  /\ pc[c] = "waiting"
  /\ stopped[turnOf[c]]
  /\ \/ /\ c \in pending
        /\ pending' = pending \ {c}
        /\ resolved' = [resolved EXCEPT ![c] = "cancelled"]
        /\ channel' = [channel EXCEPT ![c] = "cancelled"]
        /\ ruled' = [ruled EXCEPT ![c] = "cancelled"]
     \/ /\ c \notin pending
        /\ UNCHANGED <<pending, resolved, channel, ruled>>
  /\ Return(c, "cancelled")
  /\ UNCHANGED <<batch, sending, turn, window>>

-----------------------------------------------------------------------------
(* Dispatch, after the wait.                                               *)

\* What follows the answer: only an approval is executed.
Follow(c) ==
  \/ /\ got[c] = "approved"
     /\ GoTo(c, "executing")
     /\ got' = [got EXCEPT ![c] = "none"]
     /\ UNCHANGED outcome
  \/ /\ got[c] # "approved"
     /\ Return(c, "rejected")

MUT_ProceedDeafToStop(c) ==
  /\ pc[c] = "answered"
  /\ row' = [row EXCEPT ![turnOf[c]] = "running"]
  /\ Follow(c)
  /\ UNCHANGED <<batch, manager, stopped, window>>

MUT_ProceedStoresDecision(c) ==
  /\ pc[c] = "answered"
  /\ Write(turnOf[c], got[c])
  /\ Follow(c)
  /\ UNCHANGED <<batch, manager, stopped, window>>

\* ApprovalResolved stores running; then the decision counts.
Proceed(c) ==
  /\ pc[c] = "answered"
  /\ Write(turnOf[c], "running")
  /\ Follow(c)
  /\ UNCHANGED <<batch, manager, stopped, window>>

\* It cannot be stored: the call is not executed, whatever was decided.
ProceedFails(c) ==
  /\ pc[c] = "answered"
  /\ Return(c, "unavailable")
  /\ UNCHANGED <<batch, manager, turn, window>>

Execute(c) ==
  /\ pc[c] = "executing"
  /\ Return(c, "executed")
  /\ UNCHANGED <<batch, manager, turn, window>>

-----------------------------------------------------------------------------
(* ResolveApproval.                                                        *)

MUT_ResolveUnbuffered(r) ==
  /\ r \in rpcs
  /\ r.call \in pending
  /\ rpcs' = rpcs \ {r}
  /\ pending' = pending \ {r.call}
  /\ ruled' = [ruled EXCEPT ![r.call] = r.status]
  /\ sending' = sending \cup {r}
  /\ UNCHANGED <<batch, resolved, channel, dispatch, turn, inbox, banner>>

MUT_ResolveTwice(r) ==
  /\ r \in rpcs
  /\ rpcs' = rpcs \ {r}
  /\ pending' = pending \ {r.call}
  /\ resolved' = [resolved EXCEPT ![r.call] = r.status]
  /\ ruled' = [ruled EXCEPT ![r.call] = r.status]
  /\ sending' = sending \cup {r}
  /\ UNCHANGED <<batch, channel, dispatch, turn, inbox, banner>>

\* The request is open: it is closed, the decision kept for a later Wait, and
\* then, outside the lock, sent to the present one.
Resolve(r) ==
  /\ r \in rpcs
  /\ r.call \in pending
  /\ rpcs' = rpcs \ {r}
  /\ pending' = pending \ {r.call}
  /\ resolved' = [resolved EXCEPT ![r.call] = r.status]
  /\ ruled' = [ruled EXCEPT ![r.call] = r.status]
  /\ sending' = sending \cup {r}
  /\ UNCHANGED <<batch, channel, dispatch, turn, inbox, banner>>

\* The request is closed already: the second answer is an error.
ResolveStale(r) ==
  /\ r \in rpcs
  /\ r.call \notin pending
  /\ rpcs' = rpcs \ {r}
  /\ UNCHANGED <<batch, manager, dispatch, turn, inbox, banner>>

Send(r) ==
  /\ r \in sending
  /\ sending' = sending \ {r}
  /\ channel' = [channel EXCEPT ![r.call] = r.status]
  /\ UNCHANGED <<batch, pending, resolved, ruled, dispatch, turn, window>>

-----------------------------------------------------------------------------
(* The window and the user.                                                *)

\* The event handler puts the approval on display, over the one shown before.
Deliver ==
  /\ inbox # <<>>
  /\ banner' = Head(inbox)
  /\ inbox' = Tail(inbox)
  /\ UNCHANGED <<batch, dispatch, manager, turn, rpcs>>

\* The user answers what is on display.  "stays" is a click that comes before
\* the window has taken the answered approval away: the user can click again,
\* here once the first answer has arrived.
Click(status, stays) ==
  /\ banner # NoCall
  /\ \A r \in rpcs : r.call # banner
  /\ rpcs' = rpcs \cup {[call |-> banner, status |-> status]}
  /\ banner' = IF stays THEN banner ELSE NoCall
  /\ UNCHANGED <<batch, dispatch, manager, turn, inbox>>

\* stopAgent cancels the turn and clears the display, whatever it shows.
Stop(t) ==
  /\ \E c \in Calls : turnOf[c] = t
  /\ stopped' = [stopped EXCEPT ![t] = TRUE]
  /\ banner' = NoCall
  /\ UNCHANGED <<batch, dispatch, manager, row, inbox, rpcs>>

-----------------------------------------------------------------------------

CallStep(c) ==
  \/ Request(c) \/ RequestFails(c)
  \/ Wait(c) \/ WaitLate(c) \/ Receive(c) \/ Abandon(c)
  \/ Proceed(c) \/ ProceedFails(c) \/ Execute(c)

Respond(r) == Resolve(r) \/ ResolveStale(r)

ClickStep(stays) == \E status \in {"approved", "rejected"} : Click(status, stays)

Next ==
  \/ \E c \in Calls : CallStep(c)
  \/ \E r \in Resolution : Respond(r) \/ Send(r)
  \/ Deliver
  \/ \E stays \in BOOLEAN : ClickStep(stays)
  \/ \E t \in Turns : Stop(t)

Spec == Init /\ [][Next]_vars

\* Nobody answers, but goroutines run.
GoroutineFairness == \A c \in Calls : WF_vars(CallStep(c))

\* Besides, the runtime delivers events and requests, and the user answers what
\* is on display.
WindowFairness ==
  /\ \A r \in Resolution : WF_vars(Respond(r)) /\ WF_vars(Send(r))
  /\ WF_vars(Deliver)
  /\ WF_vars(ClickStep(FALSE))

QuietSpec == Spec /\ GoroutineFairness
FairSpec == QuietSpec /\ WindowFairness

-----------------------------------------------------------------------------
(* Safety.                                                                 *)

\* The first answer the manager accepted for a call decides about it: no second
\* click, no late request and no cancellation in between turns a refusal into
\* an execution or an approval into a refusal (Resolve, Wait, Dispatch).
FirstAnswerRules ==
  \A c \in Calls :
    /\ outcome[c] = "executed" \/ pc[c] = "executing" => ruled[c] = "approved"
    /\ outcome[c] = "rejected" => ruled[c] = "rejected"

\* An answer is never lost between the buffer and the channel: a call in Wait's
\* select whose request was closed has its decision before it, and no call is
\* told that its request is gone unless its turn was stopped (Wait, Resolve).
NoLostAnswer ==
  \A c \in Calls :
    /\ pc[c] = "waiting" /\ c \notin pending =>
         channel[c] # "none" \/ \E r \in sending : r.call = c
    /\ outcome[c] = "cancelled" => stopped[turnOf[c]]

\* While the call of a serial batch waits for the user, its turn is stored as
\* waiting for approval (ApprovalRequested, ApprovalResolved).
WaitingIsStored ==
  \A c \in Calls :
    turnOf[c] \notin parallel /\ pc[c] \in {"asked", "waiting", "answered"}
      => row[turnOf[c]] = "waiting_approval"

\* No call starts to execute after its turn was stopped: the status write
\* between the answer and the execution fails then (ApprovalResolved).
StoppedNeverStarts ==
  [][\A c \in Calls : stopped[turnOf[c]] /\ pc[c] # "executing" => pc'[c] # "executing"]_vars

-----------------------------------------------------------------------------
(* Liveness.                                                               *)

\* A stop ends every call of the turn, also when nobody answers (Wait selects
\* on the context; a call not dispatched yet fails to be stored).
StopReleases ==
  \A c \in Calls : stopped[turnOf[c]] ~> pc[c] = "done"

\* "Approvals must stay discoverable": as long as the user answers whatever is
\* on display and stops nothing, no call waits forever.
EveryRequestAnswered ==
  [](\A t \in Turns : ~stopped[t]) => \A c \in Calls : pc[c] = "waiting" ~> pc[c] # "waiting"

=============================================================================
