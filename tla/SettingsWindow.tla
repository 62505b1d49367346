--------------------------- MODULE SettingsWindow ---------------------------
(***************************************************************************)
(* The window in front of Settings: what it remembers of the provider, and *)
(* the requests it makes of it, one at a time.  Every change of a setting  *)
(* sends the whole form, with the fields as the window remembers them.     *)
(***************************************************************************)
EXTENDS Settings

VARIABLES
  form,   \* endpoint, model, credentialEnv of the controller's state
  call    \* the request in flight, None at rest

window == <<form, call>>

Remembered(c) == [place |-> c["place"], model |-> c["model"], env |-> c["env"]]

WindowInit ==
  /\ Init
  /\ form = Remembered(config)
  /\ call = None

Send(request) == call = None /\ call' = [request EXCEPT !.at = "sent"]
Request == [kind |-> None, at |-> "sent", id |-> None, content |-> None, mode |-> None]

\* applyApprovalMode.
ChangeMode(mode) ==
  /\ Send([Request EXCEPT !.kind = "settings", !.mode = mode])
  /\ UNCHANGED <<vars, form>>

\* selectModelProfile shows the model at once.
ChooseProfile(id) ==
  /\ id \in DOMAIN Catalog.profiles
  /\ Send([Request EXCEPT !.kind = "select", !.id = id])
  /\ form' = [form EXCEPT !.model = Catalog.profiles[id].model]
  /\ UNCHANGED vars

\* The form of a profile, always with a key.
EnterProfile(id, content) ==
  /\ Send([Request EXCEPT !.kind = "save", !.id = id, !.content = content])
  /\ UNCHANGED <<vars, form>>

Serve ==
  /\ call # None
  /\ call.at = "sent"
  /\ \/ call.kind = "settings" /\ UpdateSettings(form.place, form.model, form.env, call.mode)
     \/ call.kind = "select" /\ SelectModelProfile(call.id)
     \/ call.kind = "save" /\ SaveModelProfile(call.id, call.content, TRUE)
  /\ call' = [call EXCEPT !.at = "served"]
  /\ UNCHANGED form

Work == (PersistFile \/ PersistRow) /\ UNCHANGED window

\* The reply: only the settings and a saved profile touch the variable's name.
Reply ==
  /\ call # None
  /\ call.at = "served"
  /\ job = None
  /\ form' = CASE call.kind = "settings" -> Remembered(config)
               [] call.kind = "select" -> [form EXCEPT !.place = config["place"],
                                                       !.model = config["model"]]
               [] call.kind = "save" -> [place |-> config["place"], model |-> config["model"],
                                         env |-> ""]
  /\ call' = None
  /\ UNCHANGED vars

WindowNext ==
  \/ \E mode \in Modes \ {""} : ChangeMode(mode)
  \/ \E id \in Accounts : ChooseProfile(id)
  \/ \E id \in Accounts, content \in Contents : EnterProfile(id, content)
  \/ Serve
  \/ Work
  \/ Reply

WindowSpec == WindowInit /\ [][WindowNext]_<<vars, window>>

\* What the persistence specification says of a credential the user configures,
\* that its reference is kept and used: with no failure and nothing in flight,
\* the provider uses the credential of the profile the user chose last, also
\* after another setting was changed.
ChosenCredentialIsUsed ==
  (call = None /\ job = None /\ faults = 0 /\ row # None) =>
    /\ config["key"] = row.profiles[row.active].key
    /\ config["env"] = row.profiles[row.active].env

=============================================================================
