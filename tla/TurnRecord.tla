----------------------------- MODULE TurnRecord -----------------------------
(***************************************************************************)
(* What the agent_turns table promises its readers: the conversation       *)
(* snapshot, the next SendMessage and the recovery at startup.  A turn is  *)
(* opened running, moves between running and waiting_approval, and is      *)
(* closed once.  A closed turn keeps its status until its project is       *)
(* deleted, and a session has one open turn at most.                       *)
(***************************************************************************)
CONSTANTS Sessions, Turns, NoSession

VARIABLES status, owner

Open == {"running", "waiting_approval"}
Closed == {"completed", "cancelled", "failed", "interrupted"}

Init ==
  /\ status = [t \in Turns |-> "absent"]
  /\ owner = [t \in Turns |-> NoSession]

OpenTurn(s, t) ==
  /\ owner[t] = NoSession
  /\ \A u \in Turns : owner[u] = s => status[u] \notin Open
  /\ status' = [status EXCEPT ![t] = "running"]
  /\ owner' = [owner EXCEPT ![t] = s]

\* Asking for an approval, and the decision.
Switch(t, to) ==
  /\ status[t] \in Open
  /\ to \in Open
  /\ status' = [status EXCEPT ![t] = to]
  /\ UNCHANGED owner

Close(t, to) ==
  /\ status[t] \in Open
  /\ to \in Closed
  /\ status' = [status EXCEPT ![t] = to]
  /\ UNCHANGED owner

\* Recovery closes everything open at once.
InterruptAll ==
  /\ status' = [t \in Turns |-> IF status[t] \in Open THEN "interrupted" ELSE status[t]]
  /\ UNCHANGED owner

\* The deletion of a project takes the turns of some sessions with it.
Forget(gone) ==
  /\ status' = [t \in Turns |-> IF owner[t] \in gone THEN "absent" ELSE status[t]]
  /\ UNCHANGED owner

Next ==
  \/ \E s \in Sessions, t \in Turns : OpenTurn(s, t)
  \/ \E t \in Turns, to \in Open : Switch(t, to)
  \/ \E t \in Turns, to \in Closed : Close(t, to)
  \/ InterruptAll
  \/ \E gone \in SUBSET Sessions : Forget(gone)

Spec == Init /\ [][Next]_<<status, owner>>

=============================================================================
