----------------------------- MODULE MCApprovals -----------------------------
(***************************************************************************)
(* Approvals for TLC: two calls, of one serial batch, of one parallel      *)
(* batch, or of two batches.  Every other choice of Init is one of these   *)
(* with calls or turns renamed, or with a turn that has no calls.          *)
(***************************************************************************)
EXTENDS Approvals

OneTurn == turnOf = [c \in Calls |-> "t1"]
TwoTurns == turnOf = [c \in Calls |-> IF c = "c1" THEN "t1" ELSE "t2"]

Batches ==
  \/ OneTurn /\ parallel = {}
  \/ OneTurn /\ parallel = {"t1"}
  \/ TwoTurns /\ parallel = {}

MCInit == Init /\ Batches

MCSpec == MCInit /\ [][Next]_vars /\ GoroutineFairness
MCFairSpec == MCSpec /\ WindowFairness

=============================================================================
