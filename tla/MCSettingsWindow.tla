-------------------------- MODULE MCSettingsWindow --------------------------
(***************************************************************************)
(* SettingsWindow for TLC: a configuration with a model and a credential   *)
(* in a variable, and a form for a second profile.                         *)
(***************************************************************************)
EXTENDS SettingsWindow

MCContents ==
  {[protocol |-> "openai", api |-> "chat_completions", place |-> "cloud", model |-> "m2"]}

MCHandWritten == {[model |-> "m1"]}

=============================================================================
