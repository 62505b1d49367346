# Klaude in TLA+

Klaude is a desktop coding agent: a Go backend (Wails) that runs model/tool loops over a
project directory, stores conversations in SQLite, and asks the user in a React window before
it changes anything. These modules specify the parts of it where several actors meet, check
them with TLC on small instances, and prove the most important properties with TLAPS for
instances of any size. `PROJECT.json` maps every definition to the source lines it stands for
and lists the runs, the mutated definitions each property is tested with, the hazards and the
findings.

## The system

| Component | Source | State | Operations | Correct when |
|---|---|---|---|---|
| Turn lifecycle | `internal/app/service.go`, `runtime.go` | the goroutine of a turn, its context | SendMessage, runTurn, CancelAgent, MoveSession, DeleteProject, Startup, Shutdown | every turn is closed once, by its own goroutine, refusal or recovery |
| Running agents | `internal/session/manager.go` | session -> cancel handle | RegisterActive, Cancel, Wait, Done | the stop button reaches every live agent and no other |
| Agent runtime | `internal/agent/runtime.go` | messages, round, project lock table | Run, Acquire, consume, complete, cancel, fail | one agent per project; what is announced is what is stored |
| Storage | `internal/storage` | projects, sessions, turns, messages, calls, changes | one transaction per write, RecoverInFlight | one active turn per session; the session shows its latest turn |
| Approvals | `internal/approval`, `internal/tool/dispatcher.go` | open requests, kept decisions | Create, Wait, Resolve | the first answer decides; nothing runs without it |
| Scheduler | `internal/agent/schedule*.go` | none | ClassifyCall, BuildHardEdges, Layerize, ValidateExtraEdges, ExecuteLayers | dependent calls never share a layer, every call runs once |
| Event bus | `internal/event`, `internal/app/bridge.go` | subscribers, next number per turn | Emit, Subscribe | numbers without gaps, delivered in order |
| Window | `frontend/src` | session, messages, events, approval on display | event handler, submit, stop, resolve, snapshot | shows what is stored; every open approval can be answered |
| Files and undo | `internal/filesystem`, `internal/tool/write.go`, `internal/app/tools.go` | files, snapshots by hash, recorded changes | WriteFile, ApplyPatch, Record, UndoTurn | no lost update; undo restores or refuses, all or nothing |
| MCP servers | `internal/mcp`, `internal/app/mcp.go` | definitions, connections, failures | Connect, Disconnect, Upsert, Remove, Save | no leaked session; no connection without definition |
| Providers | `internal/model` | the stream that is open | Stream, parseStream of three protocols | no call runs on a part of its arguments |
| Context | `internal/context` | none | Build | within budget, newest messages kept |
| Permissions | `internal/permission` | mode, rules | Evaluate | deny wins; workspace boundary kept |
| Settings | `internal/config`, `internal/app/model_profiles.go`, `service.go` | file, catalog of profiles, keychain, copies in memory | Load, Save, UpdateSettings, SaveModelProfile, SelectModelProfile | what is in force is what the next start reads; the profile on display is the one used |
| Others | projects, executor, sandbox, git, traces, RPC | | | out of reach of TLC or input/output only |

How they meet: SendMessage stores a turn, registers its cancel handle and starts a goroutine.
The goroutine reads the session, waits for the project's mutation lock and alternates between
the model's stream and batches of tool calls. A call that needs consent stores
`waiting_approval`, publishes an event and blocks until the window answers or the turn's
context is cancelled. Every status write is one transaction that also writes the session's
status, and it is refused when its context is cancelled. Any other goroutine, the user, or the
death of the process may come between two of these steps.

What is hard: the table of running agents and the active row in the database are two records of
the same fact, changed at different times; the context that carries the cancellation also
carries the writes that report it; a row is overwritten without looking at its previous value;
decisions pass through a mutex, a map and a channel; the window keeps one approval; the
deletion of a project waits a limited time for agents that may stay longer; a parser and its
consumer each drop events of their own when the turn is cancelled; files are read, compared and
replaced in separate steps while people edit them; configuration lives in a file, a database,
the keychain and two structures in memory, written one after the other.

## Modules

**TurnRecord** is the abstract specification: what the table `agent_turns` promises to its
readers. A turn is opened running, switches between running and waiting_approval, is closed
once and stays closed until it is deleted; a session has one open turn at most.

**AgentTurn** is the detailed one. `row` and `shown` are `agent_turns.status` and
`sessions.status`; `owner`, `home` and `projects` the foreign keys; `active` is
`session.Manager.active`; `stopped` the cancelled run contexts; `lock` the one-slot channels of
`MutationLocks`; `pc`, `key`, `root`, `round`, `left`, `asking` the goroutine and its locals;
`said` the lifecycle events published; `deleting`, `todo` the running DeleteProject. `latest`
and `mishaps` are history. There is one action per step between which something else can
happen:

| Actions | Code |
|---|---|
| `SendMessage`, `Register`, `RegisterBusy`, `Refuse` | SendMessage up to `go func` |
| `LoadSession`, `LoadRoot`, `LoadFails`, `Acquire`, `AcquireStopped` | runTurn, MutationLocks.Acquire |
| `Start`, `Announce`, `StreamFinal`, `StreamCalls`, `StreamFails`, `StreamStopped` | Agent.Run up to the answer of the model |
| `Ask`, `Answer`, `AskStopped`, `ToolsDone`, `ToolsUnstored` | the tool batch: ApprovalRequested, ApprovalResolved, Wait, AppendTool |
| `Complete`, `Finish`, `Cancelling`, `Withdraw`, `Failing`, `Blame` | complete, cancel, fail: the write, then the event and Run's return |
| `Report`, `ReportError`, `Leave` | the goroutine after runTurn, its deferred Done |
| `CancelAgent`, `MoveSession`, `DeleteBegin`, `DeleteCancel`, `DeleteCommit` | the user |
| `Restart` | death of the process and the next start with RecoverInFlight |

`Saved` and `Unsaved` are the two outcomes of UpdateTurnStatus; its guard is the cancelled
context (`dead`), the missing row and the partial unique index, and `Mishap("fault")` is any
other failure of the database. `DeleteBegin`, `DeleteCancel` and `DeleteCommit` have no wait
between them: DeleteProject waits two seconds at most, so the next step may come whether or not
the agent has left. A batch is the number of its calls that will ask for approval: the others
change no state of this module.

**Approvals** has the steps that AgentTurn's `Ask` and `Answer` hide: Dispatch for each call
(`Request`, `RequestFails`, `Proceed`, `ProceedFails`, `Execute`), Manager.Wait (`Wait`,
`WaitLate`, `Receive`, `Abandon`), Manager.Resolve in its two parts (`Resolve`, `ResolveStale`,
and `Send` after the unlock), and the window (`Deliver`, `Click`, `Stop`). `pending`, `resolved`
and `channel` are the manager's two maps and the requests' channels, `sending` what is between
the unlock and the send, `inbox` and `rpcs` what the Wails bridge carries, `banner` the approval
on display. `ruled` is history: the decision the manager accepted. A call and its
approval id are one value. Create and ApprovalRequested are one step, since nobody knows the
request before it is published; the choice of ctx.Done and `finish` are one step, since a
Resolve between them is the same as one just before.

**Schedule** has no state: `Kind`, `Paths` and `Ambiguous` are ClassifyCall, `BuildHardEdges`,
`Layerize` (Kahn's rounds), `ValidateExtraEdges`, `BuildSchedule` and `PlanToolBatch` the
functions of these names. `HardPair` says which two positions get a hard edge, `Arcs` which
positions an edge between ids joins, `Placed` which calls the rounds so far have placed. Edges join
ids as in the code, so that repeated and empty ids bend or drop them; layers hold positions.

**ContextManager** has no state either: `Start` and `Build` choose, from the newest message
backwards, those that fit into what the reserve leaves of the budget (`Available`), with results
of tools that are longer than their limit (`TooLong`) cut first (`Truncated`); `Taken` is the
loop's state after each message, which stays as it is from where the loop ends. `Exceeded` is
ErrBudgetExceeded; `Sums` adds lengths up. A message is a role and a length. A cut keeps half of
the limit from the head, then the marker, then `EndKept` from the end. Of the limits that
`config.Validate` accepts, 32 makes that number negative and the slice panics (below 32 no end is
kept, from 33 on there is one, though it may be empty): `Panics`, and `Panicked` for a
conversation in which the loop meets a result to cut. The limit is a value of the model step's
state (`toolLimit`), as each turn gets it from the settings.

**Batch** is what running the calls of one answer promises: each starts once, and only after the
earlier calls it conflicts with have returned. **ModelStep** is the detailed specification: one
round of `Agent.Run` from the context of the request to the end of the batch.

| Actions | Code |
|---|---|
| `BuildContext` | Manager.Build, and Run where it fails |
| `RequestSucceeds`, `RequestFails`, `RequestRefused`, `RequestCancelled` | Stream of the providers under streamWithRetry |
| `Announce`, `Fragment`, `EndCall`, `AnswerDone`, `AnswerCut` | parseStream of the chat, responses and messages protocols, with consume at the other end of the channel |
| `ConsumeCancelled`, `AnswerConsumed` | the exits of consume, and what Run makes of them |
| `Plan`, `PlannerFails`, `Dispatch`, `Return`, `NextLayer` | PlanToolBatch and ExecuteLayers |

`wire` is the answer as the model sends it and, per call, what consume has got of it (`got`, the
fragments in the order in which they arrived); `batch` the calls as consume returns them. The
start, a fragment or the end of a call may be lost once the turn is cancelled, since both ends of
the channel select on the context, and in the responses and messages protocols at any time, since
their parsers skip a frame that is no JSON (`MayLose`; `lossy` is history). `Holder` is the call
that `partial[id]` belongs to. At the end of a call consume asks of what it got only whether it is
valid JSON: all fragments of a call are, fragments that begin and end like arguments may be
(`MayMatch`: then the tool may read any path in them), and what is not becomes null (`Consumed`).
A planner proposes any edges between ids of the batch and one it made up.

**Workspace** has the files (`disk`), the snapshot store (`store`: whole, torn or absent), one
call per file (`slot`), the rows of file_changes and one request to undo. A hash is the content
it is of; a content is a sequence of spans, enough for a patch to match none, one or two places.

| Actions | Code |
|---|---|
| `WriteFile`, `Capture`, `CaptureFails`, `Rename`, `RenameFails` | the write tool, SnapshotManager.WriteFile with Capture and atomicWrite |
| `ApplyPatch`, `ReadCurrent`, `PatchBase` | SnapshotManager.ApplyPatch: the text that is patched and the hash that is expected are read apart |
| `Record`, `RecordRefused` | DBChangeRecorder.Record with or without the foreign key |
| `UndoTurn`, `UndoCheck`, `UndoCheckFails`, `Restore`, `RestoreFails`, `Undone`, `UndoReturns` | Service.UndoTurn and its two loops |
| `Edit`, `BeginTurn`, `EndTurn`, `Restart` | a person; the mutation lock; death of the process, which may leave a torn snapshot |

`Store` is Capture's copy under the hash, which believes what is there; `StoreFails` the write of
it that fails: Capture returns the error, and the part that was written stays under the hash, as
after a crash. `Stored` is what a restoration reads there.

**MCP** has the list of servers in the file and in memory (with the aliasing of Go's slices), the
manager's `defs`, `table` of connections and `failed`, every connection that was ever dialled
(`session`), and one request per client (`op`), which goes through `Detach`, `CloseSession`,
`Dial`, `ListTools`, `Store`, `Define`, `WriteDeleted` and `Commit`: the critical sections of the
manager's mutex and the calls between them. `writer` is the service's lock, which connect and
disconnect give back before they begin. `Kept` is the loop that DeleteMCPServer filters with,
entry by entry. An entry of the list is as a hand may have left it: its id surrounded by blanks,
or blank, or that of another entry, its definition invalid. `Namings` and `Definitions` are what
NewManager makes of such a list (ids are trimmed, or made up when blank; of two entries the last
wins; invalid ones are dropped), while the list is searched by exact ids (`Has`). `odd` is
history: the servers that the file at the start did not name, or named twice, or in another
spelling.

**Config** has no state: `Load`, `Validate` and `Merge` of the two layers, field by field as the
code distinguishes zero, absent and set, and the permission engine (`Engine`, `Evaluate`, and the
dispatcher's decision `Asks`). **Settings** puts it to work: `UpdateSettings`, `SaveModelProfile`
and `SelectModelProfile` with the two writes of persistModelCatalog as steps of their own,
failures of either, and restarts. A turn copies the permission engine into its dispatcher when it
begins and keeps the copy (`turns`, `BeginTurn`, `EndTurn`); runTurn takes no lock for that, so a
turn that begins in the middle of UpdateSettings may copy a part of the old engine and a part of
the new (`TurnsBeginDuring`, `Mixed`). **SettingsWindow** composes it with what the window
remembers of the provider: `form`, and `call`, the request in flight.

The `MC` modules give TLC the symmetry, the small sets and the initial choices.
**AgentTurnProofs**, **ApprovalsProofs**, **WorkspaceProofs**, **MCPProofs**, **SettingsProofs**
and **ModelStepProofs** have the theorems; **ScheduleProofs** has the lemmas about Schedule that
the last one rests on, and **WellOrder** the principle by which they reason about lists of any
length. Operators named `MUT_...` are bugs the code could have had, one for each property of a
passing run; no specification uses them. Each makes TLC report the property violated when it
replaces the definition it follows.

## Runs

| Run | Specification | What it shows |
|---|---|---|
| `turn_safety` | AgentTurn `Spec` | the safety properties below and the refinement of TurnRecord |
| `turn_liveness` | AgentTurn `FairSpec` | a stopped agent ends, wherever the stop finds it |
| `cancelled_lost` | AgentTurn `Spec` | finding: a stopped turn is stored as failed, not as cancelled |
| `late_tools` | AgentTurn `FairSpec` | finding: an answer that arrives after the stop can start tools |
| `approvals` | Approvals `QuietSpec` | first answer rules, none is lost, nothing starts after a stop, a stop releases every wait |
| `approval_hidden` | Approvals `FairSpec` | finding: an approval that was replaced on display is never shown again |
| `model_step` | MCModelStep `MCSpec` | a request takes along what fits of the newest messages; a round runs each call once, on all of its arguments or on none, in an order that keeps conflicts apart, whatever a planner proposes; the refinement of Batch |
| `workspace` | MCWorkspace `MCSpec` | undoing a turn restores what it found or touches nothing; no call destroys a content nobody kept |
| `change_unrecorded` | Workspace `Spec` | finding: a file is written and its change is not recorded |
| `mcp` | MCMCP `MCSpec` | file, memory and manager agree on the servers, also beside entries that a hand wrote; what is offered is open; a connection alone with its server is sound |
| `settings` | MCSettings `MCSpec` | what is in force survives a restart; profile and key on display are those used; a turn runs unasked what the mode at its beginning allowed |
| `settings_credential` | SettingsWindow `WindowSpec` | finding: a change of the mode replaces the key of the profile chosen |

AgentTurn's safety properties:

- `OneActiveTurn`, the database's index and SendMessage together;
- `StopReachesAgent`, the table of running agents against the goroutines;
- `LockHeldByRunner`, `SameProjectExcluded`, the mutation lock. The second excludes turns whose
  two reads of the project differ, because a session was moved between them;
- `NoStrandedTurn`, no row says running with nobody working on it unless a status write failed;
- `FinishedIsCompleted`, the event agent.finished is never contradicted;
- `SettledSessionShowsLatest`, the session's status once nothing is in flight;
- `StoppedNeverSucceeds`, after a stop only failures are stored;
- `ImplementsTurnRecord`, the refinement.

The others:

- ModelStep: `ContextIsRecent` says, without the loop, what the context manager returns: the
  longest end of the conversation that fits, an error only when the last message does not, and a
  panic only for a tool result that is to be cut to 32 characters.
  `NothingPartialRuns` relates what consume hands over to what the model sent, over
  three parsers that rely on different parts of the stream: a call with an id of its own is handed
  over as it was sent to the end, or without arguments. Ids that repeat promise nothing, since
  consume gathers under the id; and the messages protocol, which has no second copy of the
  arguments, promises it only while nothing was lost. `EachCallRunsOnce` holds also when
  ids repeat and the edges between them make a cycle; `GrantedEdgesHold` says a proposal counts
  as a whole or not at all; `ImplementsBatch` is the order of conflicting calls, stated without
  layers or edges.
- Workspace: `UndoRestores` (a turn undone left no trace in the files that its rows name, except
  that a snapshot whose writing was cut short gives its fragment back),
  `UndoChecksFirst` (all checks come before the first restoration), `ReplacedIsKept` (what a call
  replaces is in the store).
- MCP: `OfferedIsOpen`, `ConfigAgrees` (per server that is not odd, whatever happens to the other
  entries of the list), and `SoloConnectIsSound`, which excludes servers one of
  whose connects overlapped another request, because there the code does go wrong (below).
- Settings: `SettingsSurvive`, `ActiveIsUsed`, `KeysFit`, `ProjectCannotLoosen`, and
  `ModeIsHonoured`, about the copy a turn has, against the mode on display when it was made. That
  a running turn keeps its permissions when the mode is changed is what app/runtime.go:16-18
  intends: the settings take effect with the next turn.

Each property names its exceptions, and each exception is a behaviour of the code: `torn`,
`detached`, `spoiled`, `raced`, `odd`, `lossy`, `lost` are history variables that record exactly
when it applies.

### Bounds

`turn_safety` has two projects, two sessions and two turns with one mishap: every pairwise meeting
(a send with the turn that leaves, two agents at one lock, a deletion or a move with a running
agent, a crash with two turns in flight) needs two of each at most, and each mishap is an
independent cause. `MaxRounds` is 1, which reaches the end of the loop by the limit as well as by
an answer; `MaxCalls` is 1 there and 2 in `turn_liveness`, where the calls may wait in parallel.
The theorems have no such bounds. `approvals` has two calls. The initial states are the three ways
two calls can meet (one serial batch, one parallel layer, two turns); all others are renamings of
these. A user clicks again once the first answer has arrived; two answers in flight at once are
handled by Resolve one after the other just the same. Runs set `CHECK_DEADLOCK FALSE`: when all
turns are gone and nobody acts, the system rests.

`model_step` has answers of up to three calls over five kinds of request (a read and a write of
one file, a patch of another, a search of all, a shell command), all three protocols, one id that
several calls may share, arguments in three fragments, so that one in the middle can be lost, and
proposals of up to two edges between any two ids of the batch or a made-up one. `MCNext` lets
answers of one or two calls come in every way, of the two kinds that touch different files
(`TwoOfFiles`: what becomes of fragments depends on their own call and on those of its id alone),
and answers of three calls one by one over the chat protocol, which hands them over in any order
anyhow (`OneByOne`: how calls run does not depend on how they came). Three calls are the smallest
batch with a pair of neighbours on a path and one in between, and with a cycle that a repeated id
closes. The conversation has up to four messages of 2, 5 or 40 characters where 9 are available
and a result is cut to 4, or to 32, which panics: messages fit exactly, by one, only when they are
cut, or never. It has 1.4 million states. `workspace` has two files, two turns, two calls, three
contents (one of which matches a span twice), and one edit, one failed write of a file or a
snapshot, or one crash, each an independent cause: a turn with two changes of one file, of two
files, and a patch with an edit between any two of its reads fit (1.8 million states). `mcp` has two
servers, two requests in flight, two connections, two versions of a definition and one that is
invalid, and one failed write or close, from every list of up to two entries that a hand may have
left. After a failure the requests in flight go on and new ones come one at a time. What goes wrong
with a list does so without a failure and with one request at a time, which is all that `MCNext`
lets meet it (`ByHand`, `OneAtATime`; 0.3 million states). `settings` has two accounts, two endpoints, two
files a person may have written, every mode, one failure at any write, and one turn, since turns
do not meet: each reads the engine and writes nothing. As the engine follows the permissions of
the configuration alone, the turn runs beside the settings form and not beside profiles and
failures (`FormAlone`; 0.6 million states). The theorems have none of these restrictions:
they are about `Spec`.

### Fairness

`StopFairness` says that the goroutine of a stopped turn takes its next step: every wait of that
goroutine (provider request, stream, lock, approval, executor) selects on the context, and the
rest is straight-line code. Nothing is assumed of a turn nobody stopped: a model or a user may
stay silent. `QuietSpec` is fair to the calls' goroutines only, so `StopReleases` does not rely
on the user or on the delivery of events. `FairSpec` of Approvals adds delivery, the handlers of
requests, and a user who answers whatever is on display: it is the most favourable assumption,
and `EveryRequestAnswered` fails under it. The other runs check safety only and assume no
fairness: a provider, a server or a user may stay silent for ever.

## Findings

1. `cancelled_lost`: `Agent.cancel` (agent/runtime.go:274) stores cancelled through the context
   that has just been cancelled. The write is refused, and the goroutine then stores failed and
   publishes agent.error after agent.cancelled. The session-conversation specification (line 49)
   asks for the cancelled status.
2. `late_tools`: `consume` (agent/runtime.go:293) may take a buffered event although the context
   is cancelled, and nothing looks at the context again before the tools of that answer are
   dispatched. The agent-runtime specification (line 49) forbids it.
   `StoppedNeverStarts` shows that calls that need an approval are safe: the status write between
   the answer and the execution fails.
3. `approval_hidden`: the window (use-app-controller.ts:173) keeps one approval. Two requests of
   one parallel layer, or of two sessions, and the first one cannot be answered any more.
   design.md:152 wants approvals to stay discoverable. Parallel tools are off by default; two
   sessions are not.
4. `change_unrecorded`: `DBChangeRecorder.Record` (app/tools.go:41) stores a change without the id
   of its tool call; the column is not null and refers to tool_calls, whose row is stored after
   the execution. On the connection that `Open` configured the insert is refused: the file is
   written, the tool reports record_failed, and review and undo do not know of the change. The
   change-review specification (line 23) wants the record before the tool returns.
5. `settings_credential`: choosing a profile leaves `credentialEnv` in the window as it was
   (use-app-controller.ts:570-584), and the next change of any setting sends it
   (`settingsPayload`, line 483). UpdateSettings prefers a variable and clears the key of the
   profile chosen. The local-persistence specification (line 67) wants the configured source
   kept and used.

Differences met on the way that have no run of their own:

- Writes to different paths share a layer, where agent-runtime/spec.md:52 and design.md:81 want
  writes one after the other. A directory and a file in it are different paths.
- An allowed call with side effects still asks outside full access (dispatcher.go:51), where
  permission-approval/spec.md:6-8 lets it run.
- `merge` takes `credential_env` from a project's file (config.go:288), where
  local-persistence/spec.md:48 forbids it; but no project's file is ever loaded
  (composition.go:57). Each layer is validated alone, not their merge. An unknown decision for
  reads counts as allow.
- The calls of a chat answer come in the order of a Go map (openai/provider.go:190), so that the
  batch need not keep the model's order. Ids that are empty or repeat drop hard edges
  (schedule.go:195), and a call without arguments takes those of another call with its id.
- The finished calls of an answer that was cut off still run (runtime.go:147).
- A turn that changed one file twice can be undone only when both changes ended in the same
  content, because every row's hash is compared before the first restoration (undo.go:23). A turn
  without rows, or one that still runs, can be marked undone.
- A snapshot whose writing a crash, or an error such as a full disk, cut short is believed for ever
  (snapshot.go:58): Capture asks only whether the name is there. Undoing a turn that used it gives
  the fragment back and reports success, where change-review/spec.md:4, 8 want snapshots that were
  stored successfully and can be verified. `UndoRestores` says that nothing else goes wrong.
- `config.Validate` accepts 32 as the limit for tool results (config.go:182), under which cutting
  one panics (context/manager.go:81) and nothing recovers, where agent-runtime/spec.md:66-67 wants
  a limited form of the result. `ContextIsRecent` says that nothing else panics.
- A call of the messages protocol of which a fragment was lost (anthropic/provider.go:173,
  206-211) runs when the rest is valid JSON (agent/runtime.go:317), where
  model-provider/spec.md:45 wants only calls that were received completely. `NothingPartialRuns`
  excludes it.
- An MCP server that the file spells with blanks around its id, or without one, or twice, is not
  what the search of the list finds: saving it adds another entry, deleting it leaves the entry,
  and the next start brings the server back (app/mcp.go:65, 97; mcp/config.go:35). `ConfigAgrees`
  leaves it out.
- A turn keeps the permissions it began with, so that one begun under full access goes on without
  asking after the mode was set back to manual (app/runtime.go:49-51); the comment there (16-18)
  says that settings apply to the next turn.
- Two connects of one server leak the first one's session (manager.go:130), and a connect that
  races a deletion brings the server back.
- `config.Save` truncates the file first; a failure half way loses the settings at the next start.
  The key of a profile is stored before the file and the row that refer to it.

## Proofs

`AgentTurnProofs` proves every safety property of `turn_safety` and the refinement, for all finite
or infinite sets of projects, sessions and turns, all bounds and all mishaps, from `IdAssumption`
(the null values are no ids) and `BoundAssumption` (bounds are numbers) alone. None of the
properties is inductive by itself; the argument goes:

- `TypeInv` is the type invariant with `FramesOK`: a goroutine that is gone has no locals, the key
  and root are set where the program has read them. It gives `TypeCorrect`.
- `StopReachesAgent` and `LockHeldByRunner` are inductive on top of it (`StopNext`, `LockNext`).
  `SameProjectExcluded` follows from the lock's invariant (`ExclusionCorrect`).
- `PhaseInv` adds `StopPhase` and `RowPhase`: where a turn's goroutine can be when it is stopped,
  and which status is stored at each place. From it follow `FinishedCorrect` (with `SaidPhase`,
  what has been published at each place), `StrandedCorrect` (with `DonePhase`: without a failed
  write, a goroutine that leaves has closed its row), `OneActiveCorrect` (with `Unique`) and
  `StoppedCorrect`, an action property.
- `RecordCorrect` maps each step to a step of TurnRecord or to a stutter. What needs
  the invariants is that a terminal status is only written over an open row or over itself.
- `SettledCorrect` is the longest: `SessionInv` (goroutines of one session do not overlap
  except for refused handlers), `OlderClosed` (every turn but the latest is closed or about to be
  closed by a failure) and `ShownPhase` (the session shows the latest turn's status unless an
  older one has yet to write) together are inductive.

`ApprovalsProofs` proves the safety properties of `approvals` for every set of turns and calls,
whichever of them are parallel, from no assumption:

- `DecisionInv` is the type invariant with `OpenUndecided` (a request that is still pending has no
  decision anywhere), `CopiesAgree` (every copy of a decision, in the resolved map, the channel, on
  its way to either or in the dispatcher's hands, is the first one), `DecisionAtHand` (where the
  decision of a closed request is, by where its call is) and `OutcomeFits`. It gives
  `FirstAnswerCorrect` and `NoLostCorrect`.
- `WaitingCorrect` needs `SerialInv`: two calls of a serial turn are never asked at once.
- `StoppedCorrect`, an action property, needs the types only: the guard is in the status write
  that each path to an execution goes through.

`WorkspaceProofs` proves the safety properties of `workspace` for every set of files, texts,
patches, calls and turns, from `TextsAssumption` (None and the torn file are no texts),
`KnownAssumption`, `PatchAssumption` and `BoundsAssumption`:

- `CallInv` is the type invariant with what a call has read at each place (`FramesOK`) and the
  shape of the recorded rows (`RowsOK`). The history variable `lost` stays false:
  `ReplacedCorrect`.
- `UndoInv` adds `SnapshotsOK` (every content that a recorded row or the request names has a
  snapshot, whole or not), `CheckedOK` (the rows checked so far were found as the turn left them)
  and `RestoredOK` (of the rows restored so far, from the last backwards, the first of each file
  is what the file holds). A snapshot in the store stays as it is (`StoreHolds`), so that what an
  undo gave back is still what the store says when it reports. `CheckCorrect` and `UndoCorrect`
  follow.

`MCPProofs` proves the four properties of `mcp` for every set of servers, clients and sessions,
from `NoneAssumption`, `NoListAssumption` (None is no list), `InvalidAssumption`,
`NewIdsAssumption` (what is made up are ids) and `BoundAssumption`, and for every list the file
may begin with:

- `SessionInv`: the session in the hands of a request is open, of that request's server, and in
  nobody else's hands nor in the table; a save or a delete holds the service's lock. It contains
  `OfferedIsOpen`.
- `SoloInv`, on top of it, for servers whose connects overlapped nothing: a connect is alone with
  its server (`Alone`), dials the present definition (`Fresh`), finds its entry empty after the
  Disconnect (`Emptied`), and no open session is in neither the table nor a request's hands
  (`NoLeak`). It gives `SoloCorrect`.
- `ConfigInv`, for `ConfigAgrees`, speaks of each server that is not odd: file, memory and manager
  agree on it while nobody holds the lock, the file names it once, and `Halfway` says how far a
  save or a delete is that holds the lock. It rests on lemmas about lists of any length: what the
  deletion's loop keeps (`KeptAll`), what deleting and saving do to a server's entries, its own
  and those of others (`WithoutDefines`, `ReplacedDefines`), and that a manager made of a list
  says of a clear server what the list says (`LoadedIsSaid`).

`SettingsProofs` proves the six properties of `settings` for every set of accounts, profiles,
places, models and files, and any number of failures. It assumes of the constants what Config and
Settings name: that what users enter has the form of its fields (`InputAssumption`), that None
stands for nothing else (`NoFileAssumption`, `NoneAssumption`), that the bound on faults is a
number (`FaultAssumption`), and facts about values of the code's own: the empty string is no value
(`ZeroAssumption`), the default endpoint is reached over https (`DefaultAssumption`), the profile
made of the configuration is called "default" (`DefaultProfile`). `Inv` is the invariant:

- `InForce`: a configuration in force is complete and the engine follows it. Because it is
  complete, Load gives back what Save wrote of it, which `SettingsSurvive` needs.
- `TurnsOK`: the copy that a turn has is made of one complete configuration or of two, and the modes
  it remembers are theirs. `ModeIsHonoured` follows by cases of the dispatcher's decision; the
  mixed decision of a half-made copy is no decision's name, and asks.
- `FileAgrees`: until a save has written the file, the next start reads what is in force; from
  then on, what the save is about to put in force. `SettingsSurvive` alone is not inductive, since
  it says nothing in the middle of a save.
- `RowAgrees`: the stored catalog and the configuration name the same provider (`ActiveIsUsed`).
- `References`: each reference to a key (of the configuration, of what the next start reads, of
  the stored catalog, of the catalog on its way) fits the keychain. That a crash may return to any
  of them is why `KeysFit` needs them all, and why it speaks of the file instead of the
  configuration in memory.

`ProjectCorrect` needs no invariant: it is a fact about Load for all pairs of files.

`WellOrder` turns the well-foundedness of the numbers into two lemmas without operators as
parameters: a set of numbers that is not empty has a least element (`Least`), and if it is bounded
a greatest one (`Greatest`). A claim about all positions of a list is proved from the least
position that it fails for; that a recursive function exists at all is proved the same way.

`ScheduleProofs` proves about Schedule, for batches of any length and any proposal of a planner:

- `LayerizeLayers`, `PlanLayers`: the layers share the calls of the batch out among them, none is
  empty, whether or not the edges have a cycle (`PlacedStops`: when a round places nothing new,
  none after it does; `RoundsCount`: there are as many layers as rounds that placed something).
- `PlanKeepsPairs`: calls that `HardPair` joins come in the batch's order, when each call has an
  id of its own. `PlanKeepsPaths` extends that along a chain of calls of one path (`PathOrdered`).
- `PlanGrants`: an edge that was granted leads to a later layer.

`ModelStepProofs` proves the six properties of `model_step` on top of it, for conversations,
answers and proposals of any size, from `ProtocolsAssumption` (the three protocols),
`SizesAssumption`, `BoundsAssumption` and `BudgetAssumption` (lengths, bounds and budgets are
numbers). `Inv` is the conjunction of `Typed`, `RequestHolds` (what was asked of the model is what
Build made of the conversation), `StreamHolds` (`FragmentsOK`: what was gathered of a call with an
id of its own are fragments of that call, in order, and all of them while none was lost;
`Complete`: such a call is in the batch as it was sent to the end, or without arguments) and
`RunHolds` (layers before the one at work have run once, those behind it not at all).
`ContextCorrect` proves of Build's loop that it takes the longest end that fits, and
`PanicIsAtLimit` that no limit but 32 makes it panic. `BatchCorrect` maps every step to a step of
Batch or to a stutter: `Dispatch` starts a call of the layer at work, and what the call conflicts
with is in an earlier layer, which has returned. The attempt to prove `ContextIsRecent` corrected
its statement: when the reserve uses the whole budget up, Build refuses also an empty message.

Each preservation lemma has one step per action. Every invariant and every action or refinement
property of the passing runs is stated by a theorem. Only model-checked: the liveness properties
(`StopSettles`, `StopReleases`), since the prover does not reason about fairness and ENABLED, and
the findings.

## Not modelled

- The content of messages, diffs and events; the wire formats of requests, text and usage; the
  length of the back-off; tool calls over MCP and the names of MCP tools.
- Approval requests whose hash does not match, argument validation, `CancelAll` and `RunReadBatch`
  (they have no caller).
- A second process on the same database; the SQLite connection pool and its pragmas, except that
  only one connection enforces foreign keys (`Record`, `RecordRefused`).
- Directories: two projects are two directories in AgentTurn, nesting is not modelled; path
  resolution and file modes in Workspace; two requests to undo at once.
- The numbers of events and their gaps: the bus numbers under its mutex and delivers outside it,
  the window looks gaps up under another key and never calls `reconcile`, so nothing depends on
  them.
- The window's pages, its running flag and the messages on display; TestModelConnection.
- The provider's part of `composition.Config`, which runTurn reads without the lock that
  UpdateSettings holds (app/runtime.go:38), as it does the permissions: Settings treats it as one
  value with the service's copy.
- The instructions that the context manager puts in front of the messages and does not count;
  projects, sequential look-ups; sandbox, executor, git, traces: kernel interfaces, child
  processes, input/output.

## Plan

What is left, in this order:

1. **Events and window**: the bus, the store of events and the running flag, in place of a run that
   is given up for them.
2. **Storage**: messages and tool calls with their foreign keys, as TurnRecord's neighbour.
