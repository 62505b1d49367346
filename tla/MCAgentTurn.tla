---------------------------- MODULE MCAgentTurn ----------------------------
(***************************************************************************)
(* AgentTurn for TLC.  Ids of one kind are interchangeable: no definition  *)
(* of AgentTurn orders them or names one.                                  *)
(***************************************************************************)
EXTENDS AgentTurn, TLC

Symmetry ==
  Permutations(Projects) \cup Permutations(Sessions) \cup Permutations(Turns)

=============================================================================
