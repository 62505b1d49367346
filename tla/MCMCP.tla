------------------------------- MODULE MCMCP -------------------------------
(***************************************************************************)
(* MCP for TLC: two servers, two requests at a time and two connections,   *)
(* and every file of two entries that a hand may write, with ids that are  *)
(* padded, blank or there twice.  What goes wrong with such a file does so *)
(* without faults and with one request at a time.  After a failure the     *)
(* requests that are on their way go on, and new ones come one at a time.  *)
(*                                                                         *)
(* Only invariants are checked, so servers, clients, connections and the   *)
(* valid versions are interchangeable (all ids may be made up, or none).   *)
(***************************************************************************)
EXTENDS MCP, TLC

Interchangeable ==
  Permutations(Servers) \cup Permutations(Clients) \cup Permutations(Sessions)
    \cup Permutations(Versions \ Invalid)

\* A list that a hand has written, or what is left of one.  (Such a list may
\* also come of a failed write; then the failure has been counted.)
ByHand == odd # {} \/ \E i \in DOMAIN memory : memory[i].version \in Invalid

OneAtATime ==
  /\ \A c, d \in Clients : Busy(c) /\ Busy(d) => c = d
  /\ \A i, j \in Sessions :
       session[i].state # "unused" /\ session[j].state # "unused" => i = j

MCNext ==
  /\ Next
  /\ ByHand => faults' = faults
  /\ (ByHand /\ faults = 0 => OneAtATime)'
  /\ faults > 0 => \A c, d \in Clients : ~Busy(c) /\ Busy(c)' => ~Busy(d)
MCSpec == Init /\ [][MCNext]_vars

=============================================================================
