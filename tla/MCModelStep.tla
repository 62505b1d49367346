---------------------------- MODULE MCModelStep ----------------------------
(***************************************************************************)
(* ModelStep for TLC: answers of up to three calls that read, write or     *)
(* search, on a file or on all, or do anything; the id of the first call   *)
(* may come back.                                                          *)
(*                                                                         *)
(* What becomes of the fragments of a call depends on no call but those of *)
(* its id, so that two calls are enough to see it, of different files and  *)
(* in every protocol.  How calls run depends on what they ask, not on how  *)
(* they came, so that three calls need not come in more than one way: from *)
(* chat, which hands them over in any order, one by one and undisturbed.   *)
(***************************************************************************)
EXTENDS ModelStep

CONSTANTS f, g

MCAsks ==
  {[name |-> "read_file", path |-> f], [name |-> "write_file", path |-> f],
   [name |-> "apply_patch", path |-> g], [name |-> "grep", path |-> NoPath],
   [name |-> "shell", path |-> NoPath]}

MCRegistered == {a.name : a \in MCAsks}

TwoOfFiles ==
  Len(wire) <= 2 /\ \A i \in DOMAIN wire : wire[i].call.name \in {"read_file", "apply_patch"}

OneByOne ==
  /\ protocol = "chat" /\ ~cancelled
  /\ \A i \in 1..(Len(wire) - 1) : wire[i].pieces \in {0, Pieces}

MCNext == Next /\ (phase = "stream" => TwoOfFiles \/ OneByOne)'
MCSpec == Init /\ [][MCNext]_vars

=============================================================================
