------------------------------- MODULE Config -------------------------------
(***************************************************************************)
(* What the user's and the project's config.toml make of the defaults, and *)
(* what the permission engine makes of the result.                         *)
(*                                                                         *)
(* A file is a function from the fields it mentions to what it says of     *)
(* them; None is a file that does not parse or has an unknown field, and a *)
(* missing file mentions nothing.  "" is the zero value that a field has   *)
(* when the file leaves it out.  "act" stands for write, shell and network *)
(* together, "rule" for the one decision of the shell rules, and the       *)
(* limits, flags and theme, which nothing here depends on, are left out.   *)
(***************************************************************************)
CONSTANTS
  Places,     \* endpoints
  Plain,      \* those over http on this machine
  Insecure,   \* those over http elsewhere
  Models,
  Accounts,   \* names under which the keychain stores a key
  DefaultPlace,
  None        \* no file, no row, no key

ASSUME PlacesAssumption == Plain \subseteq Places /\ Insecure \subseteq Places \ Plain
ASSUME DefaultAssumption == DefaultPlace \in Places \ (Plain \cup Insecure)
ASSUME ZeroAssumption == "" \notin Places \cup Models \cup Accounts

Fields == {"protocol", "api", "place", "http", "model", "env", "key", "read", "act", "rule"}
Provider == {"protocol", "api", "place", "model", "env", "key"}
Decisions == {"allow", "ask", "deny"}

Values == [protocol |-> {"openai", "anthropic"},
           api |-> {"chat_completions", "responses", "messages"},
           place |-> Places, http |-> {"yes"}, model |-> Models, env |-> {"VARIABLE"},
           key |-> Accounts, read |-> Decisions \cup {"unknown"},
           act |-> Decisions \cup {"unknown"}, rule |-> Decisions \cup {"unknown"}]
AnyValue == {""} \cup UNION {Values[x] : x \in Fields}

\* The functions of the fields, a configuration being one on all of them.
IsFile(f) == DOMAIN f \subseteq Fields /\ \A x \in DOMAIN f : f[x] \in Values[x] \cup {""}
IsConfig(c) == IsFile(c) /\ c \in [Fields -> AnyValue]

\* A file that does not parse is no file.
ASSUME NoFileAssumption == \A mentioned \in SUBSET Fields : None \notin [mentioned -> AnyValue]

Defaults ==
  [x \in Fields |->
    CASE x = "protocol" -> "openai"
      [] x = "api" -> "chat_completions"
      [] x = "place" -> DefaultPlace
      [] x = "env" -> "VARIABLE"
      [] x = "read" -> "allow"
      [] x = "act" -> "ask"
      [] OTHER -> ""]

Missing == [x \in {} |-> ""]

\* The field of the structure that the file is decoded into.
Decoded(f, x) == IF x \in DOMAIN f THEN f[x] ELSE ""

Validate(f, project) ==
  /\ \/ Decoded(f, "place") \notin Plain \cup Insecure
     \/ Decoded(f, "http") = "yes" /\ Decoded(f, "place") \in Plain
  /\ Decoded(f, "protocol") = "anthropic" => Decoded(f, "api") \in {"", "messages"}
  /\ Decoded(f, "protocol") = "openai" => Decoded(f, "api") # "messages"
  /\ project => Decoded(f, "key") = ""

\* Mutant: the project's file has a say in the permissions.
MUT_MergeTrustsProject(c, f, project) ==
  [x \in Fields |->
    CASE x \in {"protocol", "api", "place", "model", "read", "act"} ->
           IF Decoded(f, x) # "" THEN f[x] ELSE c[x]
      [] x \in {"env", "key"} -> IF x \in DOMAIN f THEN f[x] ELSE c[x]
      [] x = "http" -> IF project THEN c[x] ELSE Decoded(f, x)
      [] x = "rule" -> IF ~project /\ x \in DOMAIN f THEN f[x] ELSE c[x]]

\* merge, field by field: some count when they are not zero, some when the
\* file mentions them, one always, and some only in the user's file.
Merge(c, f, project) ==
  [x \in Fields |->
    CASE x \in {"protocol", "api", "place", "model"} ->
           IF Decoded(f, x) # "" THEN f[x] ELSE c[x]
      [] x \in {"env", "key"} -> IF x \in DOMAIN f THEN f[x] ELSE c[x]
      [] x = "http" -> IF project THEN c[x] ELSE Decoded(f, x)
      [] x = "rule" -> IF ~project /\ x \in DOMAIN f THEN f[x] ELSE c[x]
      [] x \in {"read", "act"} -> IF ~project /\ Decoded(f, x) # "" THEN f[x] ELSE c[x]]

\* loadFile: a layer counts as a whole or not at all.
Layer(c, f, project) ==
  IF f = None THEN c
  ELSE IF Validate(f, project) THEN Merge(c, f, project)
  ELSE c

Load(user, project) == Layer(Layer(Defaults, user, FALSE), project, TRUE)

----------------------------------------------------------------------------
(* The engine: how a configuration decides about a call.                   *)

\* permissionsFromConfig.
Engine(c) == [read |-> c["read"], act |-> c["act"], rule |-> c["rule"],
              full |-> c["read"] = "allow" /\ c["act"] = "allow"]

\* A call: whether its tool only reads, whether the shell rule matches it, and
\* whether it is one of the commands that are always refused.  The tools that
\* do not only read all carry RequiresApproval.
Call == [readOnly : BOOLEAN, matches : BOOLEAN, forbidden : BOOLEAN]

DefaultDecision(value, fallback) == IF value \in Decisions THEN value ELSE fallback

Evaluate(engine, call) ==
  IF call.forbidden THEN "deny"
  ELSE IF call.matches /\ engine.rule # "" THEN
         (IF engine.rule \in Decisions THEN engine.rule ELSE "deny")
  ELSE IF call.readOnly THEN DefaultDecision(engine.read, "allow")
  ELSE DefaultDecision(engine.act, "ask")

\* What Dispatch does with a call before it executes it.
Asks(engine, call) ==
  Evaluate(engine, call) = "ask"
    \/ (Evaluate(engine, call) # "deny" /\ ~call.readOnly /\ ~engine.full)
RunsUnasked(engine, call) == Evaluate(engine, call) # "deny" /\ ~Asks(engine, call)

\* approvalModeFromConfig and its inverse in UpdateSettings.
Mode(c) ==
  IF c["read"] = "allow" /\ c["act"] = "allow" THEN "full"
  ELSE IF c["read"] = "ask" THEN "manual"
  ELSE "ask"
Permissions(mode) ==
  CASE mode = "ask" -> [read |-> "allow", act |-> "ask"]
    [] mode = "manual" -> [read |-> "ask", act |-> "ask"]
    [] mode = "full" -> [read |-> "allow", act |-> "allow"]

=============================================================================
