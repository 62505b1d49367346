------------------------------- MODULE Batch -------------------------------
(***************************************************************************)
(* What running the calls of one answer promises, whatever the schedule:   *)
(* each call runs once, and a call starts only when the calls before it    *)
(* that it must not race with have returned.                               *)
(***************************************************************************)
EXTENDS Naturals, Sequences

CONSTANTS Conflict(_, _, _)  \* of two positions of a batch

VARIABLES batch,    \* the calls, in the order in which the answer lists them
          progress  \* per position "waiting", "running" or "returned"

vars == <<batch, progress>>

Init == batch = <<>> /\ progress = <<>>

Receive ==
  /\ batch = <<>>
  /\ batch' # <<>>
  /\ progress' = [i \in DOMAIN batch' |-> "waiting"]

Start(i) ==
  /\ progress[i] = "waiting"
  /\ \A j \in 1..(i - 1) : Conflict(batch, j, i) => progress[j] = "returned"
  /\ progress' = [progress EXCEPT ![i] = "running"]
  /\ UNCHANGED batch

Return(i) ==
  /\ progress[i] = "running"
  /\ progress' = [progress EXCEPT ![i] = "returned"]
  /\ UNCHANGED batch

Next == Receive \/ \E i \in DOMAIN progress : Start(i) \/ Return(i)

Spec == Init /\ [][Next]_vars

=============================================================================
