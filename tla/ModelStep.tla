----------------------------- MODULE ModelStep -----------------------------
(***************************************************************************)
(* One round of an agent: the context of the request, the request to the   *)
(* model with its retries, the stream of the answer through the parser of  *)
(* the provider's protocol and consume, the plan for the calls of the      *)
(* answer, and their run.                                                  *)
(*                                                                         *)
(* The channel between parser and consume only delays, so an event is      *)
(* consumed when it is emitted; once the turn is cancelled, either end may *)
(* let it drop.  Arguments are Pieces fragments.  A frame that announces a *)
(* call is taken to parse.  Text and usage are left out, and so are the    *)
(* messages once the stream is open.                                       *)
(***************************************************************************)
EXTENDS Schedule, ContextManager

CONSTANTS
  Protocols,  \* of chat (completions), responses and anthropic (messages)
  Asks,       \* what a call may ask: records of a tool and a path
  Shared,     \* ids that several calls may have
  Stranger,   \* an id that a planner makes up
  Sizes, MaxMessages,  \* the conversation: lengths of a message, bound on messages
  ToolLimits,          \* limits for the results of tools
  MaxCalls, MaxEdges,  \* bounds on the calls of an answer and a proposal's edges
  Pieces

ASSUME ProtocolsAssumption == Protocols \subseteq {"chat", "responses", "anthropic"}
ASSUME SizesAssumption == Sizes \cup ToolLimits \cup {MaxMessages} \subseteq Nat
ASSUME BoundsAssumption == MaxCalls \in Nat /\ MaxEdges \in Nat /\ Pieces \in Nat \ {0}

VARIABLES
  protocol,   \* of the stream that is open, none when there is none
  messages,   \* a.Messages
  sent,       \* the messages of the request
  toolLimit,  \* a.Context.ToolResultChars, as the turn has copied it
  phase,      \* context, request, stream, plan, run or done
  tries,      \* requests that failed
  cancelled,
  wire,       \* the calls of the answer: as the model sends them, and partial,
              \* what consume has got of each
  over,       \* whether the answer is open, done or cut
  batch,      \* the calls as consume returns them
  lossy,      \* history: the start or a fragment of a call was lost
  layers, extra,        \* the plan, and the proposed edges it has taken
  layer, pending, flying,  \* the layer at work, its calls not started and running
  runs,       \* how often each call was dispatched
  outcome

context == <<messages, sent, toolLimit>>
stream == <<wire, over, batch, lossy>>
plan == <<layers, extra>>
run == <<layer, pending, flying, runs>>
vars == <<context, protocol, phase, tries, cancelled, stream, plan, run, outcome>>

Ids == (1..MaxCalls) \cup Shared
AskedPaths == {a.path : a \in Asks} \cup {NoPath}
Call == [id : Ids, name : {a.name : a \in Asks}, path : AskedPaths]
Configs == {c \in [parallel : BOOLEAN, llm : BOOLEAN] : c.llm => c.parallel}

\* A conversation begins with a message of the user.
Conversations ==
  {ms \in UNION {[1..n -> Message(Sizes)] : n \in 1..MaxMessages} : ms[1].role = "text"}

Init ==
  /\ messages \in Conversations /\ sent = <<>> /\ toolLimit \in ToolLimits
  /\ protocol = "none" /\ phase = "context" /\ tries = 0 /\ cancelled = FALSE
  /\ wire = <<>> /\ over = "open" /\ batch = <<>> /\ lossy = FALSE
  /\ layers = <<>> /\ extra = {}
  /\ layer = 0 /\ pending = {} /\ flying = {} /\ runs = <<>>
  /\ outcome = "none"

\* Type invariant: while calls run, the layers share the batch out among them
\* and none is empty.
TypeOK ==
  /\ messages \in Seq(Message(Nat)) /\ sent \in Seq(Message(Nat)) /\ toolLimit \in Nat
  /\ protocol \in Protocols \cup {"none"} /\ (protocol # "none" <=> phase = "stream")
  /\ phase \in {"context", "request", "stream", "plan", "run", "done"}
  /\ tries \in 0..3 /\ cancelled \in BOOLEAN /\ lossy \in BOOLEAN
  /\ \A i \in DOMAIN wire : wire[i].pieces \in 0..Pieces
  /\ over \in {"open", "done", "cut"}
  /\ batch \in Seq(Call) /\ Len(batch) <= MaxCalls
  /\ \A k \in DOMAIN layers : layers[k] \in (SUBSET DOMAIN batch) \ {{}}
  /\ layer \in 0..Len(layers) /\ pending \cup flying \subseteq DOMAIN batch
  /\ outcome \in {"none", "answered", "incomplete", "ran", "failed", "cancelled", "panicked"}
  /\ phase = "done" <=> outcome # "none"

Finish(result) == phase' = "done" /\ outcome' = result

----------------------------------------------------------------------------
(* The request: Build and streamWithRetry.                                 *)

BuildContext ==
  /\ phase = "context"
  /\ IF Panicked(messages, toolLimit) THEN Finish("panicked") /\ UNCHANGED sent
     ELSE IF Exceeded(messages, toolLimit) THEN Finish("failed") /\ UNCHANGED sent
     ELSE phase' = "request" /\ sent' = Build(messages, toolLimit) /\ UNCHANGED outcome
  /\ UNCHANGED <<messages, toolLimit, protocol, tries, cancelled, stream, plan, run>>

RequestSucceeds ==
  /\ phase = "request" /\ ~cancelled
  /\ phase' = "stream"
  /\ protocol' \in Protocols
  /\ tries' = 0 /\ messages' = <<>> /\ sent' = <<>> /\ toolLimit' = 0
  /\ UNCHANGED <<cancelled, stream, plan, run, outcome>>

\* A network error, 429 or 5xx.
RequestFails ==
  /\ phase = "request" /\ ~cancelled
  /\ tries' = tries + 1
  /\ IF tries' = 3 THEN Finish("failed") ELSE UNCHANGED <<phase, outcome>>
  /\ UNCHANGED <<context, protocol, cancelled, stream, plan, run>>

\* No credential, 401 and the like.
RequestRefused ==
  /\ phase = "request" /\ ~cancelled
  /\ Finish("failed")
  /\ UNCHANGED <<context, protocol, tries, cancelled, stream, plan, run>>

Cancel ==
  /\ phase \in {"context", "request", "stream"} /\ ~cancelled
  /\ cancelled' = TRUE
  /\ UNCHANGED <<context, protocol, phase, tries, stream, plan, run, outcome>>

\* streamWithRetry notices, in the request or while it waits to try again.
RequestCancelled ==
  /\ phase = "request" /\ cancelled
  /\ Finish("cancelled")
  /\ UNCHANGED <<context, protocol, tries, cancelled, stream, plan, run>>

\* consume notices; it may also go on with what arrives.
ConsumeCancelled ==
  /\ phase = "stream" /\ cancelled
  /\ protocol' = "none" /\ Finish("cancelled")
  /\ UNCHANGED <<context, tries, cancelled, stream, plan, run>>

----------------------------------------------------------------------------
(* The stream.                                                             *)

Streaming == phase = "stream" /\ over = "open"
Open(i) == ~wire[i].ended

\* An event may get lost: emit and consume drop what comes after a cancellation,
\* and responses and anthropic skip a frame that does not parse (chat ends there).
MayLose == cancelled \/ protocol # "chat"

\* The call has an id of its own, or one that it shares with others.
Announce(ask, id, heard) ==
  /\ Streaming
  /\ Len(wire) < MaxCalls
  /\ id \in {Len(wire) + 1} \cup Shared
  /\ protocol = "anthropic" => \A i \in DOMAIN wire : ~Open(i)
  /\ heard \/ cancelled
  /\ wire' = Append(wire, [call |-> [id |-> id, name |-> ask.name, path |-> ask.path],
                           pieces |-> 0, heard |-> heard, got |-> <<>>, ended |-> FALSE])
  /\ lossy' = (lossy \/ ~heard)
  /\ UNCHANGED <<context, protocol, phase, tries, cancelled, over, batch, plan, run, outcome>>

\* partial[id] is of the call that was the last to start with the id.
Holder(i) ==
  LET same == {k \in DOMAIN wire : wire[k].heard /\ wire[k].call.id = wire[i].call.id}
  IN {k \in same : \A j \in same : j <= k}

Fragment(i, arrives) ==
  /\ Streaming
  /\ Open(i) /\ wire[i].pieces < Pieces
  /\ arrives \/ MayLose
  /\ LET more == wire[i].pieces + 1
     IN wire' = [k \in DOMAIN wire |->
                  [wire[k] EXCEPT
                     !.pieces = IF k = i THEN more ELSE @,
                     !.got = IF arrives /\ k \in Holder(i) THEN Append(@, <<i, more>>) ELSE @]]
  /\ lossy' = (lossy \/ ~arrives)
  /\ UNCHANGED <<context, protocol, phase, tries, cancelled, over, batch, plan, run, outcome>>

\* All the arguments of call k.
Whole(k) == [part \in 1..Pieces |-> <<k, part>>]

\* Fragments that make a JSON object if the texts happen to match: they begin as
\* one and end as one, and none is over before the last.
MayMatch(got) ==
  /\ got # <<>> /\ got[1][2] = 1 /\ got[Len(got)][2] = Pieces
  /\ \A n \in 1..(Len(got) - 1) : \A k \in DOMAIN wire : SubSeq(got, 1, n) # Whole(k)

\* The paths that the tool may read in the fragments; null has none.
PathsIn(got) ==
  IF \E k \in DOMAIN wire : got = Whole(k) THEN {wire[got[1][1]].call.path}
  ELSE IF MayMatch(got) THEN AskedPaths
  ELSE {NoPath}

\* Mutant: arguments are not checked to be JSON.
MUT_ConsumedUnchecked(i) == {wire[i].call}

\* consume, at ToolCallEnd: name and id are those of partial[id]; the arguments
\* come along with the event, or else have been gathered.  What is not JSON
\* becomes null.
Consumed(i) ==
  LET item == IF Holder(i) = {} THEN wire[i] ELSE wire[CHOOSE k \in Holder(i) : TRUE]
      paths == IF protocol # "anthropic" /\ wire[i].pieces > 0
               THEN {IF wire[i].pieces = Pieces THEN wire[i].call.path ELSE NoPath}
               ELSE PathsIn(item.got)
  IN {[item.call EXCEPT !.path = path] : path \in paths}

\* The end of a call: sent by the model, or, for chat, made up at [DONE] for
\* all calls in the order of a Go map.  Chat knows no block that never stops.
EndCall(i) ==
  /\ phase = "stream" /\ Open(i)
  /\ over = (IF protocol = "chat" THEN "done" ELSE "open")
  /\ wire' = [wire EXCEPT ![i].ended = TRUE]
  /\ \/ \E call \in Consumed(i) : batch' = Append(batch, call)
     \/ MayLose /\ UNCHANGED batch
  /\ UNCHANGED <<context, protocol, phase, tries, cancelled, over, lossy, plan, run, outcome>>

\* [DONE], response.completed or message_stop.
AnswerDone ==
  /\ Streaming
  /\ protocol # "chat" => \A i \in DOMAIN wire : ~Open(i)
  /\ over' = "done"
  /\ UNCHANGED <<context, protocol, phase, tries, cancelled, wire, batch, lossy, plan, run, outcome>>

\* The connection breaks, or the model reports an error: the channel is closed.
AnswerCut ==
  /\ Streaming
  /\ over' = "cut"
  /\ UNCHANGED <<context, protocol, phase, tries, cancelled, wire, batch, lossy, plan, run, outcome>>

\* consume returns, and the stream is forgotten; the calls of an answer that
\* was cut run all the same.
AnswerConsumed ==
  /\ phase = "stream"
  /\ over = "cut" \/ (over = "done" /\ \A i \in DOMAIN wire : ~Open(i))
  /\ IF batch # <<>> THEN phase' = "plan" /\ UNCHANGED outcome
     ELSE Finish(IF over = "done" THEN "answered" ELSE "incomplete")
  /\ protocol' = "none" /\ cancelled' = FALSE /\ wire' = <<>> /\ over' = "open" /\ lossy' = FALSE
  /\ UNCHANGED <<context, tries, batch, plan, run>>

----------------------------------------------------------------------------
(* The calls.                                                              *)

Enter(plannedLayers, taken) ==
  /\ phase = "plan"
  /\ phase' = "run"
  /\ layers' = plannedLayers /\ extra' = taken
  /\ layer' = 1 /\ pending' = layers'[1]
  /\ runs' = [i \in DOMAIN batch |-> 0]
  /\ UNCHANGED <<context, protocol, tries, cancelled, stream, flying, outcome>>

\* The planner proposes edges, right or wrong.
Plan(config, proposed) ==
  /\ proposed # {} => AsksPlanner(batch, config)
  /\ Enter(PlanToolBatch(batch, config, proposed),
           IF ValidateExtraEdges(batch, BuildHardEdges(batch), proposed) THEN proposed ELSE {})

\* The planner's request or its answer fails.
PlannerFails(config) == AsksPlanner(batch, config) /\ Enter(Serially(batch), {})

\* The calls of a layer are dispatched at once.
Dispatch(i) ==
  /\ phase = "run"
  /\ i \in pending
  /\ pending' = pending \ {i} /\ flying' = flying \cup {i}
  /\ runs' = [runs EXCEPT ![i] = @ + 1]
  /\ UNCHANGED <<context, protocol, phase, tries, cancelled, stream, plan, layer, outcome>>

Return(i) ==
  /\ i \in flying
  /\ flying' = flying \ {i}
  /\ UNCHANGED <<context, protocol, phase, tries, cancelled, stream, plan, layer, pending, runs, outcome>>

NextLayer ==
  /\ phase = "run" /\ pending = {} /\ flying = {}
  /\ IF layer < Len(layers)
     THEN layer' = layer + 1 /\ pending' = layers[layer + 1] /\ UNCHANGED <<phase, outcome>>
     ELSE Finish("ran") /\ UNCHANGED <<layer, pending>>
  /\ UNCHANGED <<context, protocol, tries, cancelled, stream, plan, flying, runs>>

Proposals ==
  LET ends == IdsOf(batch) \cup {Stranger}
  IN {{}} \cup {{edges[k] : k \in 1..MaxEdges} : edges \in [1..MaxEdges -> ends \X ends]}

Next ==
  \/ BuildContext \/ RequestSucceeds \/ RequestFails \/ RequestRefused \/ Cancel
  \/ RequestCancelled \/ ConsumeCancelled
  \/ \E ask \in Asks, id \in Ids, heard \in BOOLEAN : Announce(ask, id, heard)
  \/ \E i \in DOMAIN wire : EndCall(i) \/ \E arrives \in BOOLEAN : Fragment(i, arrives)
  \/ AnswerDone \/ AnswerCut \/ AnswerConsumed
  \/ \E config \in Configs :
       \/ PlannerFails(config)
       \/ phase = "plan" /\ \E proposed \in Proposals : Plan(config, proposed)
  \/ NextLayer
  \/ \E i \in DOMAIN batch : Dispatch(i) \/ Return(i)

Spec == Init /\ [][Next]_vars

----------------------------------------------------------------------------
(* Properties.                                                             *)

\* The model sees the end of the conversation, without a gap, as much of it as
\* fits and the last message at least; only a last message that is too long by
\* itself fails the turn, or a budget that the answer's share uses up.  Nothing
\* ends the process but a tool result that is to be cut to 32 characters.
Newest(ms, k, limit) == [i \in 1..k |-> Truncated(ms[Len(ms) - k + i], limit)]

ContextIsRecent ==
  /\ phase = "request" =>
       LET n == Len(sent)
       IN /\ n > 0 /\ sent = Newest(messages, n, toolLimit) /\ Chars(sent) <= Available
          /\ n < Len(messages) => Chars(Newest(messages, n + 1, toolLimit)) > Available
  /\ outcome = "failed" /\ sent = <<>> =>
       Available <= 0 \/ Chars(Newest(messages, 1, toolLimit)) > Available
  /\ outcome = "panicked" =>
       toolLimit = 32 /\ \E i \in DOMAIN messages : TooLong(messages[i], toolLimit)

\* Calls that must not race: one of them may do anything, or one writes a file
\* that the other reads or writes.  The order is kept between ids only, so
\* nothing is promised for an answer with a call that has none of its own.
Conflict(calls, i, j) ==
  LET Touches(c, d) == /\ Kind(c) = "write" /\ c.path # NoPath
                       /\ d.path = c.path \/ WideRead(d)
  IN /\ NoId \notin IdsOf(calls) /\ Cardinality(IdsOf(calls)) = Len(calls)
     /\ \/ "barrier" \in {Kind(calls[i]), Kind(calls[j])}
        \/ Touches(calls[i], calls[j]) \/ Touches(calls[j], calls[i])

Started == phase = "run" \/ outcome = "ran"

B == INSTANCE Batch WITH
  batch <- IF Started THEN batch ELSE <<>>,
  progress <- IF ~Started THEN <<>>
              ELSE [i \in DOMAIN batch |-> IF i \in flying THEN "running"
                                           ELSE IF runs[i] > 0 THEN "returned" ELSE "waiting"]

\* Running the layers is running the batch: whatever the planner proposes, no
\* call starts before the earlier calls it conflicts with have returned, and
\* none starts twice.
ImplementsBatch == B!Spec

\* A round that ends with its calls run has run every one of them, once; also
\* when ids repeat, and the edges between them make a cycle.
EachCallRunsOnce == outcome = "ran" => \A i \in DOMAIN batch : runs[i] = 1

\* The planner is obeyed or ignored, never half of it: an edge it was granted
\* holds in the run.
GrantedEdgesHold ==
  Started => \A e \in extra :
    runs[IndexOf(batch, e[2])] > 0 =>
      LET from == IndexOf(batch, e[1]) IN runs[from] = 1 /\ from \notin flying

OwnId(k) == \A j \in DOMAIN wire : wire[j].call.id = wire[k].call.id => j = k

\* No call runs on a part of its arguments: a call with an id of its own is
\* handed over as the model sent it to the end, or without arguments, also when
\* fragments of calls alternate, when the answer is cut or when the turn is being
\* cancelled.  Only the messages protocol must not lose a fragment: the others
\* deliver the arguments once more with the end of the call.
NothingPartialRuns ==
  phase = "stream" /\ (protocol = "anthropic" => ~lossy) =>
    \A i \in DOMAIN batch, k \in DOMAIN wire :
      batch[i].path # NoPath /\ wire[k].call.id = batch[i].id /\ OwnId(k) =>
        wire[k].pieces = Pieces /\ wire[k].call = batch[i]

=============================================================================
