------------------------------ MODULE AgentTurn ------------------------------
(***************************************************************************)
(* The life of agent turns: from SendMessage (internal/app/service.go),    *)
(* through the goroutine that loads the turn, takes the project's mutation *)
(* lock and runs the model/tool loop (internal/app/runtime.go and          *)
(* internal/agent/runtime.go), to the removal of the session's entry in    *)
(* the table of running agents (internal/session/manager.go).              *)
(*                                                                         *)
(* The database is the pair row/shown: every UpdateTurnStatus is one       *)
(* transaction (internal/storage/repositories.go), every other step may    *)
(* come between two of them.  Around the goroutines run the user (stop,    *)
(* approve, send, move a session, delete a project) and process death.     *)
(***************************************************************************)
EXTENDS Naturals, FiniteSets

CONSTANTS
  Projects, Sessions, Turns,     \* the ids, each a finite set
  NoProject, NoSession, NoTurn,  \* absent values, outside those sets
  MaxRounds,                     \* Agent.MaxTurns: model requests per turn
  MaxCalls,                      \* bound: calls of one batch that need approval
  ParallelTools,                 \* ScheduleCfg.ParallelTools
  Mishaps,                       \* what may happen besides: a subset of MishapKinds
  MaxMishaps                     \* bound: how many of them in a behaviour

\* A session moved to another project, a status write that fails (disk full,
\* SQLITE_BUSY), the death of the process.
MishapKinds == {"move", "fault", "crash"}

ASSUME IdAssumption ==
  /\ NoProject \notin Projects
  /\ NoSession \notin Sessions
  /\ NoTurn \notin Turns

ASSUME BoundAssumption ==
  /\ MaxRounds \in Nat \ {0}
  /\ MaxCalls \in Nat
  /\ ParallelTools \in BOOLEAN
  /\ Mishaps \subseteq MishapKinds
  /\ MaxMishaps \in Nat

-----------------------------------------------------------------------------
(* Statuses and program points.                                            *)

ActiveStatus == {"running", "waiting_approval"}
TerminalStatus == {"completed", "cancelled", "failed", "interrupted"}
RowStatus == ActiveStatus \cup TerminalStatus \cup {"absent"}
ShownStatus == {"idle", "running", "completed", "cancelled", "failed"}

\* SendMessage between its transaction and the start of the goroutine.
Handler == {"inserted", "refused"}
\* runTurn before it holds the mutation lock.
Loading == {"loading", "rooting", "acquiring"}
\* Agent.Run while it holds the mutation lock.
InRun == {"starting", "announcing", "streaming", "tools", "completing",
          "finishing", "cancelling", "withdrawing", "failing", "blaming"}
\* The goroutine of SendMessage after runTurn returned.
Ending == {"broken", "reporting", "leaving"}
Live == Loading \cup InRun \cup Ending
InFlight == Handler \cup Live
PC == InFlight \cup {"unborn", "gone"}

VARIABLES
  row,       \* agent_turns.status by turn, "absent" before insertion and after deletion
  owner,     \* agent_turns.session_id, kept by the goroutine when the row is deleted
  shown,     \* sessions.status
  home,      \* sessions.project_id, NoProject once the session is deleted
  projects,  \* the rows of projects
  latest,    \* history: the turn last inserted in each session
  active,    \* session.Manager.active: the turn whose cancel handle is registered
  stopped,   \* the turn's run context is cancelled
  lock,      \* MutationLocks: who holds the project's one-slot channel
  pc,        \* where SendMessage and its goroutine are
  key,       \* Agent.ProjectID: the project as GetSession read it, the lock's key
  root,      \* the project whose root directory ProjectRootForTurn read
  round,     \* model requests answered with tool calls
  left,      \* calls of the batch that have yet to ask for approval
  asking,    \* calls of the batch that wait in approval.Manager.Wait
  said,      \* lifecycle events published on the bus
  deleting,  \* the project DeleteProject is working on
  todo,      \* the sessions it has yet to cancel
  mishaps    \* history: how many of each kind happened

db == <<row, shown>>
catalog == <<home, projects>>
batch == <<round, left, asking>>
origin == <<owner, latest>>
place == <<key, root>>
deletion == <<deleting, todo>>
vars == <<row, owner, shown, home, projects, latest, active, stopped, lock, pc,
          key, root, round, left, asking, said, deleting, todo, mishaps>>

Lifecycle == {"started", "finished", "cancelled", "error"}

TypeOK ==
  /\ row \in [Turns -> RowStatus]
  /\ owner \in [Turns -> Sessions \cup {NoSession}]
  /\ shown \in [Sessions -> ShownStatus]
  /\ home \in [Sessions -> Projects \cup {NoProject}]
  /\ projects \subseteq Projects
  /\ latest \in [Sessions -> Turns \cup {NoTurn}]
  /\ active \in [Sessions -> Turns \cup {NoTurn}]
  /\ stopped \in [Turns -> BOOLEAN]
  /\ lock \in [Projects -> Turns \cup {NoTurn}]
  /\ pc \in [Turns -> PC]
  /\ key \in [Turns -> Projects \cup {NoProject}]
  /\ root \in [Turns -> Projects \cup {NoProject}]
  /\ round \in [Turns -> 0..MaxRounds]
  /\ left \in [Turns -> 0..MaxCalls]
  /\ asking \in [Turns -> 0..MaxCalls]
  /\ said \in [Turns -> SUBSET Lifecycle]
  /\ deleting \in Projects \cup {NoProject}
  /\ todo \subseteq Sessions
  /\ mishaps \in [MishapKinds -> Nat]

\* The database after a clean start: sessions of known projects, no turn of
\* this process.
Init ==
  /\ row = [t \in Turns |-> "absent"]
  /\ owner = [t \in Turns |-> NoSession]
  /\ shown = [s \in Sessions |-> "idle"]
  /\ home \in [Sessions -> Projects]
  /\ projects = Projects
  /\ latest = [s \in Sessions |-> NoTurn]
  /\ active = [s \in Sessions |-> NoTurn]
  /\ stopped = [t \in Turns |-> FALSE]
  /\ lock = [p \in Projects |-> NoTurn]
  /\ pc = [t \in Turns |-> "unborn"]
  /\ key = [t \in Turns |-> NoProject]
  /\ root = [t \in Turns |-> NoProject]
  /\ round = [t \in Turns |-> 0]
  /\ left = [t \in Turns |-> 0]
  /\ asking = [t \in Turns |-> 0]
  /\ said = [t \in Turns |-> {}]
  /\ deleting = NoProject
  /\ todo = {}
  /\ mishaps = [k \in MishapKinds |-> 0]

-----------------------------------------------------------------------------
(* Shared steps.                                                           *)

GoTo(t, to) == pc' = [pc EXCEPT ![t] = to]

Publish(t, type) == said' = [said EXCEPT ![t] = @ \cup {type}]

Mishap(kind) ==
  /\ kind \in Mishaps
  /\ mishaps["move"] + mishaps["fault"] + mishaps["crash"] < MaxMishaps
  /\ mishaps' = [mishaps EXCEPT ![kind] = @ + 1]

\* Run returns: its deferred release empties the project's channel.
Return(t, to) ==
  /\ GoTo(t, to)
  /\ lock' = [lock EXCEPT ![key[t]] = NoTurn]

\* The local variables of goroutines that ended.
DropFrames(ts) ==
  /\ key' = [t \in Turns |-> IF t \in ts THEN NoProject ELSE key[t]]
  /\ root' = [t \in Turns |-> IF t \in ts THEN NoProject ELSE root[t]]
  /\ round' = [t \in Turns |-> IF t \in ts THEN 0 ELSE round[t]]
  /\ left' = [t \in Turns |-> IF t \in ts THEN 0 ELSE left[t]]
  /\ asking' = [t \in Turns |-> IF t \in ts THEN 0 ELSE asking[t]]

MUT_SessionStatusUnmapped(status) == status

\* The session's status follows every status written to one of its turns.
SessionStatusForTurn(status) ==
  IF status \in ActiveStatus THEN "running"
  ELSE IF status = "interrupted" THEN "failed"
  ELSE status

ActiveIn(s) == {t \in Turns : owner[t] = s /\ row[t] \in ActiveStatus}

\* UpdateTurnStatus finds the row, and idx_turns_one_active_session allows
\* one active row per session.
Admits(t, status) ==
  /\ row[t] # "absent"
  /\ status \in ActiveStatus => ActiveIn(owner[t]) \subseteq {t}

\* UpdateTurnStatus commits.  "dead" is whether the caller's context is
\* cancelled: BeginTx then refuses.
Saved(t, status, dead) ==
  /\ ~dead
  /\ Admits(t, status)
  /\ row' = [row EXCEPT ![t] = status]
  /\ shown' = [shown EXCEPT ![owner[t]] = SessionStatusForTurn(status)]
  /\ UNCHANGED mishaps

\* UpdateTurnStatus returns an error and leaves the database as it was.
Unsaved(t, status, dead) ==
  /\ \/ (dead \/ ~Admits(t, status)) /\ UNCHANGED mishaps
     \/ Mishap("fault")
  /\ UNCHANGED db

-----------------------------------------------------------------------------
(* SendMessage, before the goroutine.                                      *)

MUT_SendWhileActive(s, t) ==
  /\ pc[t] = "unborn"
  /\ home[s] # NoProject
  /\ row' = [row EXCEPT ![t] = "running"]
  /\ shown' = [shown EXCEPT ![s] = "running"]
  /\ owner' = [owner EXCEPT ![t] = s]
  /\ latest' = [latest EXCEPT ![s] = t]
  /\ GoTo(t, "inserted")
  /\ UNCHANGED <<catalog, active, stopped, lock, place, batch, said, deletion, mishaps>>

\* CreateTurnWithUserMessage: one transaction, refused while the session has
\* an active row.  UpdateSessionProviderModel before it needs the session.
SendMessage(s, t) ==
  /\ pc[t] = "unborn"
  /\ home[s] # NoProject
  /\ ActiveIn(s) = {}
  /\ row' = [row EXCEPT ![t] = "running"]
  /\ shown' = [shown EXCEPT ![s] = "running"]
  /\ owner' = [owner EXCEPT ![t] = s]
  /\ latest' = [latest EXCEPT ![s] = t]
  /\ GoTo(t, "inserted")
  /\ UNCHANGED <<catalog, active, stopped, lock, place, batch, said, deletion, mishaps>>

MUT_RegisterOverwrites(t) ==
  /\ pc[t] = "inserted"
  /\ active' = [active EXCEPT ![owner[t]] = t]
  /\ GoTo(t, "loading")
  /\ UNCHANGED <<db, origin, catalog, stopped, lock, place, batch, said, deletion, mishaps>>

\* RegisterActive, then the goroutine starts.
Register(t) ==
  /\ pc[t] = "inserted"
  /\ active[owner[t]] = NoTurn
  /\ active' = [active EXCEPT ![owner[t]] = t]
  /\ GoTo(t, "loading")
  /\ UNCHANGED <<db, origin, catalog, stopped, lock, place, batch, said, deletion, mishaps>>

\* RegisterActive finds the entry of an agent that has not called Done yet.
RegisterBusy(t) ==
  /\ pc[t] = "inserted"
  /\ active[owner[t]] # NoTurn
  /\ GoTo(t, "refused")
  /\ UNCHANGED <<db, origin, catalog, active, stopped, lock, place, batch, said, deletion,
                 mishaps>>

\* The refused turn is marked failed ("active_runtime"); the error is dropped.
Refuse(t) ==
  /\ pc[t] = "refused"
  /\ Saved(t, "failed", FALSE) \/ Unsaved(t, "failed", FALSE)
  /\ GoTo(t, "gone")
  /\ UNCHANGED <<origin, catalog, active, stopped, lock, place, batch, said, deletion>>

-----------------------------------------------------------------------------
(* runTurn and MutationLocks.Acquire.                                      *)

\* GetSession: the project read here names the mutation lock.
LoadSession(t) ==
  /\ pc[t] = "loading"
  /\ ~stopped[t]
  /\ home[owner[t]] # NoProject
  /\ key' = [key EXCEPT ![t] = home[owner[t]]]
  /\ GoTo(t, "rooting")
  /\ UNCHANGED <<db, origin, catalog, active, stopped, lock, root, batch, said, deletion,
                 mishaps>>

\* ProjectRootForTurn: a second read, of the project the tools will write to.
LoadRoot(t) ==
  /\ pc[t] = "rooting"
  /\ ~stopped[t]
  /\ row[t] # "absent"
  /\ root' = [root EXCEPT ![t] = home[owner[t]]]
  /\ GoTo(t, "acquiring")
  /\ UNCHANGED <<db, origin, catalog, active, stopped, lock, key, batch, said, deletion,
                 mishaps>>

\* Any error before Acquire: a read that fails, tools or provider that cannot
\* be built, a missing credential.
LoadFails(t) ==
  /\ pc[t] \in {"loading", "rooting"}
  /\ GoTo(t, "broken")
  /\ UNCHANGED <<db, origin, catalog, active, stopped, lock, place, batch, said, deletion,
                 mishaps>>

MUT_AcquireIgnoresHolder(t) ==
  /\ pc[t] = "acquiring"
  /\ lock' = [lock EXCEPT ![key[t]] = t]
  /\ GoTo(t, "starting")
  /\ UNCHANGED <<db, origin, catalog, active, stopped, place, batch, said, deletion, mishaps>>

\* The send on the project's one-slot channel goes through.
Acquire(t) ==
  /\ pc[t] = "acquiring"
  /\ lock[key[t]] = NoTurn
  /\ lock' = [lock EXCEPT ![key[t]] = t]
  /\ GoTo(t, "starting")
  /\ UNCHANGED <<db, origin, catalog, active, stopped, place, batch, said, deletion, mishaps>>

MUT_AcquireDeafToStop(t) ==
  /\ pc[t] = "acquiring"
  /\ stopped[t]
  /\ lock[key[t]] = NoTurn
  /\ GoTo(t, "broken")
  /\ UNCHANGED <<db, origin, catalog, active, stopped, lock, place, batch, said, deletion,
                 mishaps>>

\* ctx.Done wins the select in Acquire: Run returns without a lifecycle event.
AcquireStopped(t) ==
  /\ pc[t] = "acquiring"
  /\ stopped[t]
  /\ GoTo(t, "broken")
  /\ UNCHANGED <<db, origin, catalog, active, stopped, lock, place, batch, said, deletion,
                 mishaps>>

-----------------------------------------------------------------------------
(* Agent.Run under the lock.                                               *)

Start(t) ==
  /\ pc[t] = "starting"
  /\ \/ /\ Saved(t, "running", stopped[t])
        /\ GoTo(t, "announcing")
        /\ UNCHANGED lock
     \/ /\ Unsaved(t, "running", stopped[t])
        /\ Return(t, "broken")
  /\ UNCHANGED <<origin, catalog, active, stopped, place, batch, said, deletion>>

Announce(t) ==
  /\ pc[t] = "announcing"
  /\ Publish(t, "started")
  /\ GoTo(t, "streaming")
  /\ UNCHANGED <<db, origin, catalog, active, stopped, lock, place, batch, deletion, mishaps>>

\* The model's answer has no tool call and is complete.  The text of the
\* answer, if any, was appended, which a cancelled context would have refused:
\* that outcome is StreamFails.
StreamFinal(t) ==
  /\ pc[t] = "streaming"
  /\ GoTo(t, "completing")
  /\ UNCHANGED <<db, origin, catalog, active, stopped, lock, place, batch, said, deletion,
                 mishaps>>

\* The model asks for tools; n of the calls will need the user's approval.
\* consume's select may take a late answer although the context is cancelled.
StreamCalls(t) ==
  /\ pc[t] = "streaming"
  /\ round[t] < MaxRounds
  /\ \E n \in 0..MaxCalls : left' = [left EXCEPT ![t] = n]
  /\ round' = [round EXCEPT ![t] = @ + 1]
  /\ GoTo(t, "tools")
  /\ UNCHANGED <<db, origin, catalog, active, stopped, lock, place, asking, said, deletion,
                 mishaps>>

\* Context over budget, provider or stream error after the retries, incomplete
\* answer, or the answer's text cannot be stored.
StreamFails(t) ==
  /\ pc[t] = "streaming"
  /\ GoTo(t, "failing")
  /\ UNCHANGED <<db, origin, catalog, active, stopped, lock, place, batch, said, deletion,
                 mishaps>>

StreamStopped(t) ==
  /\ pc[t] = "streaming"
  /\ stopped[t]
  /\ GoTo(t, "cancelling")
  /\ UNCHANGED <<db, origin, catalog, active, stopped, lock, place, batch, said, deletion,
                 mishaps>>

\* A call's ApprovalRequested: the turn shows waiting_approval and the call
\* waits.  If the status cannot be stored the call ends with an error.
Ask(t) ==
  /\ pc[t] = "tools"
  /\ left[t] > 0
  /\ asking[t] = 0 \/ ParallelTools
  /\ left' = [left EXCEPT ![t] = @ - 1]
  /\ \/ /\ Saved(t, "waiting_approval", stopped[t])
        /\ asking' = [asking EXCEPT ![t] = @ + 1]
     \/ /\ Unsaved(t, "waiting_approval", stopped[t])
        /\ UNCHANGED asking
  /\ UNCHANGED <<origin, catalog, active, stopped, lock, pc, place, round, said, deletion>>

\* The user decides one call; ApprovalResolved writes running, and on an error
\* the call is not executed.
Answer(t) ==
  /\ pc[t] = "tools"
  /\ asking[t] > 0
  /\ asking' = [asking EXCEPT ![t] = @ - 1]
  /\ Saved(t, "running", stopped[t]) \/ Unsaved(t, "running", stopped[t])
  /\ UNCHANGED <<origin, catalog, active, stopped, lock, pc, place, round, left, said,
                 deletion>>

\* Wait returns because the context is cancelled.
AskStopped(t) ==
  /\ pc[t] = "tools"
  /\ stopped[t]
  /\ asking[t] > 0
  /\ asking' = [asking EXCEPT ![t] = @ - 1]
  /\ UNCHANGED <<db, origin, catalog, active, stopped, lock, pc, place, round, left, said,
                 deletion, mishaps>>

\* Every call of the batch has a result and every result is stored; the loop
\* ends after MaxTurns requests.
ToolsDone(t) ==
  /\ pc[t] = "tools"
  /\ left[t] = 0 /\ asking[t] = 0
  /\ ~stopped[t]
  /\ GoTo(t, IF round[t] < MaxRounds THEN "streaming" ELSE "failing")
  /\ UNCHANGED <<db, origin, catalog, active, stopped, lock, place, batch, said, deletion,
                 mishaps>>

\* AppendTool fails: the context is cancelled, the call's id was used before,
\* the turn's row is gone.
ToolsUnstored(t) ==
  /\ pc[t] = "tools"
  /\ left[t] = 0 /\ asking[t] = 0
  /\ GoTo(t, "failing")
  /\ UNCHANGED <<db, origin, catalog, active, stopped, lock, place, batch, said, deletion,
                 mishaps>>

-----------------------------------------------------------------------------
(* How Run ends.                                                           *)

MUT_CompleteDespiteStop(t) ==
  /\ pc[t] = "completing"
  /\ \/ Saved(t, "completed", FALSE) /\ GoTo(t, "finishing") /\ UNCHANGED lock
     \/ Unsaved(t, "completed", FALSE) /\ Return(t, "broken")
  /\ UNCHANGED <<origin, catalog, active, stopped, place, batch, said, deletion>>

MUT_CompleteIgnoresError(t) ==
  /\ pc[t] = "completing"
  /\ Saved(t, "completed", stopped[t]) \/ Unsaved(t, "completed", stopped[t])
  /\ GoTo(t, "finishing")
  /\ UNCHANGED <<origin, catalog, active, stopped, lock, place, batch, said, deletion>>

\* complete: store completed; on an error Run returns it.
Complete(t) ==
  /\ pc[t] = "completing"
  /\ \/ Saved(t, "completed", stopped[t]) /\ GoTo(t, "finishing") /\ UNCHANGED lock
     \/ Unsaved(t, "completed", stopped[t]) /\ Return(t, "broken")
  /\ UNCHANGED <<origin, catalog, active, stopped, place, batch, said, deletion>>

MUT_FinishKeepsLock(t) ==
  /\ pc[t] = "finishing"
  /\ Publish(t, "finished")
  /\ GoTo(t, "leaving")
  /\ UNCHANGED <<db, origin, catalog, active, stopped, lock, place, batch, deletion, mishaps>>

\* complete publishes agent.finished and Run returns nil.
Finish(t) ==
  /\ pc[t] = "finishing"
  /\ Publish(t, "finished")
  /\ Return(t, "leaving")
  /\ UNCHANGED <<db, origin, catalog, active, stopped, place, batch, deletion, mishaps>>

MUT_CancelThroughBackground(t) ==
  /\ pc[t] = "cancelling"
  /\ Saved(t, "cancelled", FALSE) \/ Unsaved(t, "cancelled", FALSE)
  /\ GoTo(t, "withdrawing")
  /\ UNCHANGED <<origin, catalog, active, stopped, lock, place, batch, said, deletion>>

\* cancel: store cancelled through the run context, dropping the error.
Cancelling(t) ==
  /\ pc[t] = "cancelling"
  /\ Saved(t, "cancelled", stopped[t]) \/ Unsaved(t, "cancelled", stopped[t])
  /\ GoTo(t, "withdrawing")
  /\ UNCHANGED <<origin, catalog, active, stopped, lock, place, batch, said, deletion>>

\* cancel publishes agent.cancelled and Run returns context.Canceled.
Withdraw(t) ==
  /\ pc[t] = "withdrawing"
  /\ Publish(t, "cancelled")
  /\ Return(t, "broken")
  /\ UNCHANGED <<db, origin, catalog, active, stopped, place, batch, deletion, mishaps>>

\* fail: store failed, dropping the error.
Failing(t) ==
  /\ pc[t] = "failing"
  /\ Saved(t, "failed", stopped[t]) \/ Unsaved(t, "failed", stopped[t])
  /\ GoTo(t, "blaming")
  /\ UNCHANGED <<origin, catalog, active, stopped, lock, place, batch, said, deletion>>

\* fail publishes agent.error and Run returns the error.
Blame(t) ==
  /\ pc[t] = "blaming"
  /\ Publish(t, "error")
  /\ Return(t, "broken")
  /\ UNCHANGED <<db, origin, catalog, active, stopped, place, batch, deletion, mishaps>>

-----------------------------------------------------------------------------
(* SendMessage's goroutine after runTurn.                                  *)

MUT_ReportThroughRunContext(t) ==
  /\ pc[t] = "broken"
  /\ Saved(t, "failed", stopped[t]) \/ Unsaved(t, "failed", stopped[t])
  /\ GoTo(t, "reporting")
  /\ UNCHANGED <<origin, catalog, active, stopped, lock, place, batch, said, deletion>>

\* runTurn returned an error: store failed with the background context.
Report(t) ==
  /\ pc[t] = "broken"
  /\ Saved(t, "failed", FALSE) \/ Unsaved(t, "failed", FALSE)
  /\ GoTo(t, "reporting")
  /\ UNCHANGED <<origin, catalog, active, stopped, lock, place, batch, said, deletion>>

ReportError(t) ==
  /\ pc[t] = "reporting"
  /\ Publish(t, "error")
  /\ GoTo(t, "leaving")
  /\ UNCHANGED <<db, origin, catalog, active, stopped, lock, place, batch, deletion, mishaps>>

\* The deferred Done removes the session's entry, whichever it is, and the
\* goroutine's frame goes.
Leave(t) ==
  /\ pc[t] = "leaving"
  /\ active' = [active EXCEPT ![owner[t]] = NoTurn]
  /\ GoTo(t, "gone")
  /\ DropFrames({t})
  /\ UNCHANGED <<db, origin, catalog, stopped, lock, said, deletion, mishaps>>

-----------------------------------------------------------------------------
(* The user and the process.                                               *)

\* CancelAgent: Manager.Cancel calls the registered handle, if there is one.
CancelAgent(s) ==
  /\ active[s] # NoTurn
  /\ stopped' = [stopped EXCEPT ![active[s]] = TRUE]
  /\ UNCHANGED <<db, origin, catalog, active, lock, pc, place, batch, said, deletion, mishaps>>

\* MoveSession does not ask whether an agent of the session is running.
MoveSession(s, p) ==
  /\ home[s] # NoProject
  /\ p \in projects
  /\ p # home[s]
  /\ Mishap("move")
  /\ home' = [home EXCEPT ![s] = p]
  /\ UNCHANGED <<db, origin, projects, active, stopped, lock, pc, place, batch, said, deletion>>

\* DeleteProject lists the sessions of the project.
DeleteBegin(p) ==
  /\ deleting = NoProject
  /\ p \in projects
  /\ deleting' = p
  /\ todo' = {s \in Sessions : home[s] = p}
  /\ UNCHANGED <<db, origin, catalog, active, stopped, lock, pc, place, batch, said, mishaps>>

\* It cancels each one's agent and waits for it, two seconds at most, so the
\* next step may come before the agent has left.
DeleteCancel(s) ==
  /\ s \in todo
  /\ todo' = todo \ {s}
  /\ stopped' = IF active[s] = NoTurn THEN stopped ELSE [stopped EXCEPT ![active[s]] = TRUE]
  /\ UNCHANGED <<db, origin, catalog, active, lock, pc, place, batch, said, deleting, mishaps>>

\* Then it deletes the project; sessions and turns go with it (ON DELETE
\* CASCADE), those created or moved there since the list was read too.
DeleteCommit ==
  /\ deleting # NoProject
  /\ todo = {}
  /\ LET doomed == {s \in Sessions : home[s] = deleting}
     IN  /\ row' = [t \in Turns |-> IF owner[t] \in doomed THEN "absent" ELSE row[t]]
         /\ home' = [s \in Sessions |-> IF s \in doomed THEN NoProject ELSE home[s]]
  /\ projects' = projects \ {deleting}
  /\ deleting' = NoProject
  /\ UNCHANGED <<shown, origin, active, stopped, lock, pc, place, batch, said, todo, mishaps>>

MUT_RestartKeepsSessions ==
  /\ Mishap("crash")
  /\ row' = [t \in Turns |-> IF row[t] \in ActiveStatus THEN "interrupted" ELSE row[t]]
  /\ pc' = [t \in Turns |-> IF pc[t] \in InFlight THEN "gone" ELSE pc[t]]
  /\ active' = [s \in Sessions |-> NoTurn]
  /\ lock' = [p \in Projects |-> NoTurn]
  /\ deleting' = NoProject
  /\ todo' = {}
  /\ DropFrames(Turns)
  /\ UNCHANGED <<shown, origin, catalog, stopped, said>>

\* The process dies and the next one starts: what was in memory is gone, and
\* RecoverInFlight closes what the database still calls running.
Restart ==
  /\ Mishap("crash")
  /\ row' = [t \in Turns |-> IF row[t] \in ActiveStatus THEN "interrupted" ELSE row[t]]
  /\ shown' = [s \in Sessions |->
                 IF home[s] # NoProject /\ shown[s] = "running" THEN "failed" ELSE shown[s]]
  /\ pc' = [t \in Turns |-> IF pc[t] \in InFlight THEN "gone" ELSE pc[t]]
  /\ active' = [s \in Sessions |-> NoTurn]
  /\ lock' = [p \in Projects |-> NoTurn]
  /\ deleting' = NoProject
  /\ todo' = {}
  /\ DropFrames(Turns)
  /\ UNCHANGED <<origin, catalog, stopped, said>>

-----------------------------------------------------------------------------
(* The specification.                                                      *)

HandlerStep(t) == Register(t) \/ RegisterBusy(t) \/ Refuse(t)

GoroutineStep(t) ==
  \/ LoadSession(t) \/ LoadRoot(t) \/ LoadFails(t) \/ Acquire(t) \/ AcquireStopped(t)
  \/ Start(t) \/ Announce(t)
  \/ StreamFinal(t) \/ StreamCalls(t) \/ StreamFails(t) \/ StreamStopped(t)
  \/ Ask(t) \/ AskStopped(t) \/ ToolsDone(t) \/ ToolsUnstored(t)
  \/ Complete(t) \/ Finish(t) \/ Cancelling(t) \/ Withdraw(t) \/ Failing(t) \/ Blame(t)
  \/ Report(t) \/ ReportError(t) \/ Leave(t)

UserStep ==
  \/ \E s \in Sessions, t \in Turns : SendMessage(s, t)
  \/ \E t \in Turns : Answer(t)
  \/ \E s \in Sessions : CancelAgent(s)
  \/ \E s \in Sessions, p \in Projects : MoveSession(s, p)
  \/ \E p \in Projects : DeleteBegin(p)
  \/ \E s \in Sessions : DeleteCancel(s)
  \/ DeleteCommit

Next ==
  \/ \E t \in Turns : HandlerStep(t) \/ GoroutineStep(t)
  \/ UserStep
  \/ Restart

Spec == Init /\ [][Next]_vars

\* Once its context is cancelled a goroutine keeps running to its end: the
\* provider's request, the approval wait, the lock wait and the executor all
\* select on that context.  Nothing is assumed of a turn nobody stopped.
StopFairness == \A t \in Turns : WF_vars(stopped[t] /\ GoroutineStep(t))

FairSpec == Spec /\ StopFairness

-----------------------------------------------------------------------------
(* Safety.                                                                 *)

\* A session has at most one turn that the database calls running or waiting,
\* however sends, late status writes, deletions and restarts interleave
\* (CreateTurnWithUserMessage and idx_turns_one_active_session).
OneActiveTurn == \A s \in Sessions : Cardinality(ActiveIn(s)) <= 1

\* The stop button reaches every agent: a goroutine that has been started and
\* has not called Done is the one whose handle its session has registered, and
\* the table holds no handle of a goroutine that is gone (RegisterActive, Done).
StopReachesAgent ==
  /\ \A t \in Turns : pc[t] \in Live => active[owner[t]] = t
  /\ \A s \in Sessions : active[s] # NoTurn =>
       pc[active[s]] \in Live /\ owner[active[s]] = s

\* A project's mutation lock is held exactly by the turn that runs under it:
\* no exit of Run leaks it, and no other turn's exit frees it (Acquire, the
\* deferred release).
LockHeldByRunner ==
  /\ \A t \in Turns : pc[t] \in InRun => lock[key[t]] = t
  /\ \A p \in Projects : lock[p] # NoTurn => pc[lock[p]] \in InRun /\ key[lock[p]] = p

\* Two agents never work in the same directory at once, provided each read the
\* lock's key and its root from the same project (runTurn reads them apart).
SameProjectExcluded ==
  \A t, u \in Turns :
    /\ t # u
    /\ pc[t] \in InRun /\ pc[u] \in InRun
    /\ root[t] = key[t] /\ root[u] = key[u]
    => root[t] # root[u]

NoFaultYet == mishaps["fault"] = 0

\* No turn stays running or waiting in the database with nobody working on it,
\* which would block its session until the next start: only a failed status
\* write can do that (the goroutine's last UpdateTurnStatus, RecoverInFlight).
NoStrandedTurn ==
  NoFaultYet => \A t \in Turns : row[t] \in ActiveStatus => pc[t] \in InFlight

\* agent.finished is published after completed is stored and is never
\* contradicted: no later write of this goroutine, of a refused send or of
\* recovery changes the row, and no error follows (complete, SendMessage).
FinishedIsCompleted ==
  \A t \in Turns : "finished" \in said[t] =>
    /\ row[t] \in {"completed", "absent"}
    /\ "error" \notin said[t]

\* When nothing of a session is in flight, the session's status is that of the
\* turn it started last, although every turn's writes overwrite it
\* (UpdateTurnStatus, sessionStatusForTurn, RecoverInFlight).
SettledSessionShowsLatest ==
  NoFaultYet => \A s \in Sessions :
    /\ home[s] # NoProject
    /\ latest[s] # NoTurn
    /\ \A t \in Turns : owner[t] = s => pc[t] \notin InFlight
    => shown[s] = SessionStatusForTurn(row[latest[s]])

\* After a stop, no status write of the turn other than a failure commits: a
\* late completion or approval cannot show the turn as completed or running.
StoppedNeverSucceeds ==
  [][\A t \in Turns : stopped[t] /\ row'[t] # row[t] =>
       row'[t] \in {"failed", "interrupted", "absent"}]_vars

\* The database's record of turns obeys the state machine of TurnRecord:
\* one open turn per session, and a terminal status is final.
Record == INSTANCE TurnRecord WITH status <- row
ImplementsTurnRecord == Record!Spec

-----------------------------------------------------------------------------
(* Liveness.                                                               *)

\* A stopped agent ends, wherever the stop finds it: waiting for the lock, in
\* the model's stream, waiting for approvals, between two tool calls.
StopSettles == \A t \in Turns : stopped[t] ~> pc[t] = "gone"

-----------------------------------------------------------------------------
(* What the documents promise and the code does not keep.                  *)

\* "persist the cancelled state": a turn whose cancellation was announced and
\* whose goroutine has left is stored as cancelled.
CancelledIsStored ==
  \A t \in Turns : pc[t] = "gone" /\ "cancelled" \in said[t] =>
    row[t] \in {"cancelled", "absent"}

\* "MUST drop the late event and MUST NOT start its tool calls": no answer of
\* the model received after the stop leads to tools (consume's select).
LateCallsDropped ==
  [][\A t \in Turns : stopped[t] /\ pc[t] = "streaming" => pc'[t] # "tools"]_vars

=============================================================================
