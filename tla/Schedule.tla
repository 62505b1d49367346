------------------------------ MODULE Schedule ------------------------------
(***************************************************************************)
(* The order in which the tool calls of one answer of the model run: the   *)
(* classification of a call, the edges no one may relax, the edges a       *)
(* planning model proposes, and the layers made of both.                   *)
(*                                                                         *)
(* A call is a record of its id (NoId when it has none), its tool and its  *)
(* path (NoPath when it has none, or when its arguments are null).  Edges  *)
(* join ids, as in the code; layers hold positions in the batch.           *)
(***************************************************************************)
EXTENDS Integers, Sequences, FiniteSets

CONSTANTS NoId, NoPath,
          Wide,       \* workspace:*
          Registered  \* the tools that the registry knows

Searchers == {"grep", "glob"}
Readers == {"read_file", "list_directory"} \cup Searchers
Writers == {"write_file", "apply_patch"}

Kind(call) == IF call.name \in Readers THEN "read"
              ELSE IF call.name \in Writers THEN "write" ELSE "barrier"

Paths(call) ==
  IF call.name = "shell" THEN {}
  ELSE IF call.path # NoPath THEN {call.path}
  ELSE IF Kind(call) = "barrier" THEN {} ELSE {Wide}

Ambiguous(call) ==
  \/ Kind(call) = "barrier"
  \/ call.name \notin Registered
  \/ call.path = NoPath /\ call.name \notin Searchers

\* dedupeEdges: edges without an end, or from an id to itself, are dropped.
Proper(edges) == {e \in edges : e[1] # NoId /\ e[2] # NoId /\ e[1] # e[2]}

WideRead(call) == Kind(call) = "read" /\ Wide \in Paths(call)

\* The neighbours in the list of the calls on one path.
NextOnPath(calls, i, j) ==
  \E p \in Paths(calls[i]) \cap Paths(calls[j]) :
    \A k \in (i + 1)..(j - 1) : p \notin Paths(calls[k])

\* Mutant: a search of the whole workspace need not wait for earlier writes.
MUT_HardPairForward(calls, i, j) ==
  \/ NextOnPath(calls, i, j)
  \/ WideRead(calls[i]) /\ Kind(calls[j]) = "write"
  \/ "barrier" \in {Kind(calls[i]), Kind(calls[j])}

\* The later call j has to wait for i.
HardPair(calls, i, j) ==
  \/ NextOnPath(calls, i, j)
  \/ WideRead(calls[i]) /\ Kind(calls[j]) = "write"
  \/ Kind(calls[i]) = "write" /\ WideRead(calls[j])
  \/ "barrier" \in {Kind(calls[i]), Kind(calls[j])}

IdsOf(calls) == {calls[i].id : i \in DOMAIN calls}

BuildHardEdges(calls) ==
  {e \in Proper(IdsOf(calls) \X IdsOf(calls)) :
     \E j \in DOMAIN calls : \E i \in 1..(j - 1) :
       e = <<calls[i].id, calls[j].id>> /\ HardPair(calls, i, j)}

\* idToIndex: of calls with the same id the last one answers to it.
IndexOf(calls, id) ==
  CHOOSE i \in DOMAIN calls : calls[i].id = id /\ \A j \in DOMAIN calls : calls[j].id = id => j <= i

\* One call after the other.
Serially(calls) == [i \in DOMAIN calls |-> {i}]

\* The edges between positions, as far as both ids are known.
Arcs(calls, edges) ==
  {<<IndexOf(calls, e[1]), IndexOf(calls, e[2])>> :
     e \in {e \in edges : {e[1], e[2]} \subseteq IdsOf(calls)}}

\* Kahn's algorithm: after k rounds these calls are placed.
Placed(calls, edges) ==
  LET arcs == Arcs(calls, edges)
      placed[k \in 0..Len(calls)] ==
        IF k = 0 THEN {}
        ELSE LET before == placed[k - 1]
             IN {i \in DOMAIN calls : \A a \in arcs : a[2] = i => a[1] \in before}
  IN placed

Acyclic(calls, edges) == Placed(calls, edges)[Len(calls)] = DOMAIN calls

Rounds(placed) == {k \in DOMAIN placed \ {0} : placed[k] # placed[k - 1]}

\* Mutant: on a cycle the layers end where the algorithm is stuck.
MUT_LayerizeStuck(calls, edges) ==
  LET placed == Placed(calls, edges)
  IN [k \in Rounds(placed) |-> placed[k] \ placed[k - 1]]

\* Mutant: as many layers as calls, whether anything is left for them or not.
MUT_LayerizePadded(calls, edges) ==
  LET placed == Placed(calls, edges)
  IN IF ~Acyclic(calls, edges) THEN Serially(calls)
     ELSE [k \in DOMAIN calls |-> placed[k] \ placed[k - 1]]

Layerize(calls, edges) ==
  LET placed == Placed(calls, edges)
  IN IF ~Acyclic(calls, edges) THEN Serially(calls)
     ELSE [k \in Rounds(placed) |-> placed[k] \ placed[k - 1]]

\* What the planner proposes is taken only as a whole.
ValidateExtraEdges(calls, hard, extra) ==
  /\ \A e \in extra :
       /\ {e[1], e[2]} \subseteq IdsOf(calls) \ {NoId}
       /\ e[1] # e[2]
       /\ <<e[2], e[1]>> \notin hard
       /\ LET from == IndexOf(calls, e[1])
              to == IndexOf(calls, e[2])
          IN Paths(calls[from]) \cap Paths(calls[to]) = {} \/ from <= to
  /\ Acyclic(calls, hard \cup extra)

\* Mutant: the proposal is checked and forgotten.
MUT_BuildScheduleUnmerged(calls, parallel, extra) ==
  LET hard == BuildHardEdges(calls)
  IN IF \/ ~parallel
        \/ extra # {} /\ ~ValidateExtraEdges(calls, hard, extra)
        \/ extra = {} /\ \E i \in DOMAIN calls : Ambiguous(calls[i])
     THEN Serially(calls) ELSE Layerize(calls, hard)

BuildSchedule(calls, parallel, extra) ==
  LET hard == BuildHardEdges(calls)
  IN IF \/ ~parallel
        \/ extra # {} /\ ~ValidateExtraEdges(calls, hard, extra)
        \/ extra = {} /\ \E i \in DOMAIN calls : Ambiguous(calls[i])
     THEN Serially(calls) ELSE Layerize(calls, hard \cup extra)

\* The planner is asked when a call is ambiguous and the configuration wants it.
AsksPlanner(calls, config) ==
  config.parallel /\ config.llm /\ \E i \in DOMAIN calls : Ambiguous(calls[i])

\* A proposal that fails its check is followed by no order but the list's.
PlanToolBatch(calls, config, proposed) ==
  IF AsksPlanner(calls, config) /\ ~ValidateExtraEdges(calls, BuildHardEdges(calls), proposed)
  THEN Serially(calls) ELSE BuildSchedule(calls, config.parallel, proposed)

=============================================================================
