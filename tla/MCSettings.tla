----------------------------- MODULE MCSettings -----------------------------
(***************************************************************************)
(* Settings for TLC: two endpoints, one of them on this machine, two       *)
(* profiles, and some files that a person may have written.                *)
(*                                                                         *)
(* A turn reads of all this only the engine, which follows the permissions *)
(* of the configuration, so that turns run beside the settings form alone. *)
(***************************************************************************)
EXTENDS Settings

Form(protocol, api, place) ==
  [protocol |-> protocol, api |-> api, place |-> place, model |-> "m1"]

MCContents == {Form("openai", "chat_completions", "home"),
               Form("anthropic", "messages", "cloud"),
               Form("openai", "messages", "cloud")}

MCHandWritten ==
  {[read |-> "deny", act |-> "allow", rule |-> "allow", key |-> "default"],
   [protocol |-> "anthropic", model |-> "m1", read |-> "ask"]}

\* Turns run until profiles, endpoints or faults come into play.
FormAlone ==
  row = None /\ job = None /\ spoiled = {} /\ faults = 0 /\ config["place"] = DefaultPlace

MCNext ==
  /\ FormAlone \/ UNCHANGED turns
  /\ Next
  /\ FormAlone' \/ turns' = [t \in Turns |-> None]
MCSpec == Init /\ [][MCNext]_vars

=============================================================================
