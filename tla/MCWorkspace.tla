---------------------------- MODULE MCWorkspace ----------------------------
(***************************************************************************)
(* Workspace for TLC: two files, two turns and three contents, one of them *)
(* with a span twice.  A run has one edit, one failure or one crash, each *)
(* of which meets the calls and the undo at any step.  Only invariants are *)
(* checked, so files and turns are interchangeable.                        *)
(***************************************************************************)
EXTENDS Workspace, TLC

CONSTANTS a, b

MCTexts == {<<a>>, <<b>>, <<a, a>>}
MCKnown == {None, <<a>>}

Interchangeable == Permutations(Files) \cup Permutations(Turns)

MCNext == Next /\ (crashed => upsets = 0)'
MCSpec == Init /\ [][MCNext]_vars

=============================================================================
