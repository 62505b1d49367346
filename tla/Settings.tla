------------------------------ MODULE Settings ------------------------------
(***************************************************************************)
(* The settings of the application: the configuration in memory, in the    *)
(* file and in the permission engine, the catalog of model profiles in the *)
(* database, and the keys in the keychain.                                 *)
(*                                                                         *)
(* Every operation holds the service's lock from its first step to its     *)
(* last, so operations never interleave with each other.  What can come    *)
(* between the steps of one is an error, the end of the process, or the    *)
(* beginning of a turn, which copies the permission engine without the     *)
(* lock: saving or selecting a profile writes three places, one after the  *)
(* other.                                                                  *)
(***************************************************************************)
EXTENDS Config, Naturals

CONSTANTS
  Contents,     \* what the form of a profile can say: protocol, api, place, model
  HandWritten,  \* files the application may find when it first starts
  Typed,        \* endpoints the window may send with the settings, "" for no change
  Modes,        \* approval modes the window may ask for, "" for no change
  Turns,        \* turns that may run beside the settings
  MaxFaults     \* bound on failed writes

ASSUME FaultAssumption == MaxFaults \in Nat

\* A profile is stored under its id, which names its keychain account as well.
\* The catalog that was never stored shows the configuration as "default".
ASSUME DefaultProfile == "default" \in Accounts

Profile == [protocol : Values["protocol"], api : Values["api"], place : Places,
            model : Models, env : {"", "VARIABLE"}, key : Accounts \cup {""}]

CatalogOf(ids) == [active : ids, profiles : [ids -> Profile]]
IsCatalog(catalog) == \E ids \in SUBSET Accounts : catalog \in CatalogOf(ids)

JobOf(ids) == [at : {"file", "row"}, catalog : CatalogOf(ids), fresh : BOOLEAN]
IsJob(j) == \E ids \in SUBSET Accounts : j \in JobOf(ids)

\* What the user may enter, and that None is none of what it stands in for.
ASSUME InputAssumption ==
  /\ Contents \subseteq [protocol : Values["protocol"], api : Values["api"],
                         place : Places, model : Models]
  /\ \A f \in HandWritten : f # None => IsFile(f)
  /\ Typed \subseteq Places \cup {""}
  /\ Modes \subseteq {"", "ask", "manual", "full"}
ASSUME NoneAssumption ==
  /\ None \notin Values["protocol"]
  /\ \A ids \in SUBSET Accounts : None \notin CatalogOf(ids) \cup JobOf(ids)

VARIABLES
  file,      \* config.toml
  config,    \* s.config.Config and composition.Config.Config
  engine,    \* composition.Permissions
  turns,     \* per turn its dispatcher's copy of the engine, and the approval modes
             \* in force while it was copied; None when the turn does not run
  row,       \* the catalog in the settings table, None before the first save
  keys,      \* per account the protocol its key was entered for, None for no key
  job,       \* the save or selection that holds s.mu, None when nobody does
  detached,  \* history: accounts of no catalog's making rule the provider
  spoiled,   \* history: accounts whose key a save replaced and did not finish
  torn,      \* history: the last write of the file failed
  faults

settings == <<file, config, engine, row, keys, job, detached, spoiled, torn, faults>>
vars == <<settings, turns>>

----------------------------------------------------------------------------
(* Profiles.                                                               *)

\* configFromStoredProfile, put into the rest of the configuration.
WithProvider(c, p) ==
  [x \in Fields |-> IF x \in Provider THEN p[x]
                    ELSE IF x = "http" THEN (IF p.place \in Plain THEN "yes" ELSE "")
                    ELSE c[x]]

FromConfig(c) == [x \in Provider |-> c[x]]

\* loadModelCatalog.
Catalog ==
  IF row # None /\ DOMAIN row.profiles # {} THEN row
  ELSE IF config["model"] = "" THEN [active |-> None, profiles |-> Missing]
  ELSE [active |-> "default", profiles |-> [a \in {"default"} |-> FromConfig(config)]]

\* normalizeModelProfile refuses the rest.
Normal(content) ==
  /\ content.protocol = "anthropic" <=> content.api = "messages"
  /\ content.place \notin Insecure

\* Mutant: the credential is carried over to another protocol.
MUT_FilledCarriesAny(id, content, withKey) ==
  LET old == Catalog.profiles
  IN [protocol |-> content.protocol, api |-> content.api, place |-> content.place,
      model |-> content.model,
      env |-> IF id \in DOMAIN old /\ ~withKey THEN old[id].env ELSE "",
      key |-> IF withKey THEN id ELSE IF id \in DOMAIN old THEN old[id].key ELSE ""]

\* The profile that SaveModelProfile makes of a form: a credential is carried
\* over from the stored profile of the same protocol, a new key replaces it.
Filled(id, content, withKey) ==
  LET old == Catalog.profiles
      carries == id \in DOMAIN old /\ old[id].protocol = content.protocol
  IN [protocol |-> content.protocol, api |-> content.api, place |-> content.place,
      model |-> content.model,
      env |-> IF carries /\ ~withKey THEN old[id].env ELSE "",
      key |-> IF withKey THEN id ELSE IF carries THEN old[id].key ELSE ""]

\* newConfiguredProvider: the provider of a turn needs the key it refers to.
KeyFound(account) == account # "" => keys[account] # None

----------------------------------------------------------------------------
(* States.                                                                 *)

Init ==
  /\ file \in HandWritten
  /\ config = Load(file, Missing)
  /\ engine = Engine(config)
  /\ turns = [t \in Turns |-> None]
  /\ row = None
  /\ keys = [a \in Accounts |-> IF a = config["key"] THEN config["protocol"] ELSE None]
  /\ job = None
  /\ detached = FALSE
  /\ spoiled = {}
  /\ torn = FALSE
  /\ faults = 0

Engines == [read : Values["read"], act : Values["act"], rule : Values["rule"] \cup {""},
            full : BOOLEAN]
Copies == [engine : Engines, modes : SUBSET {"ask", "manual", "full"}]

\* Type invariant: what a catalog names as active is one of its profiles, and
\* the engine has the permissions of the configuration, full access included.
TypeOK ==
  /\ file # None => IsFile(file)
  /\ IsConfig(config)
  /\ engine = Engine(config)
  /\ turns \in [Turns -> {None} \cup Copies]
  /\ row # None => IsCatalog(row)
  /\ keys \in [Accounts -> Values["protocol"] \cup {None}]
  /\ job # None => IsJob(job)
  /\ detached \in BOOLEAN /\ torn \in BOOLEAN
  /\ spoiled \subseteq Accounts
  /\ faults \in 0..MaxFaults

Fault == faults < MaxFaults /\ faults' = faults + 1

\* config.Save: the file is written; or is not opened; or is emptied and holds
\* nothing, or a part that does not parse.
Saved(c) == file' = c /\ torn' = FALSE /\ UNCHANGED faults
SaveFails ==
  /\ Fault
  /\ \/ UNCHANGED <<file, torn>>
     \/ file' \in {Missing, None} /\ torn' = TRUE

----------------------------------------------------------------------------
(* Turns: runTurn copies the engine into the dispatcher of its turn, which *)
(* keeps it to the end.  It takes no lock for the copy.                    *)

BeginTurn(t) ==
  /\ turns[t] = None
  /\ turns' = [turns EXCEPT ![t] = [engine |-> engine, modes |-> {Mode(config)}]]
  /\ UNCHANGED settings

EndTurn(t) ==
  /\ turns[t] # None
  /\ turns' = [turns EXCEPT ![t] = None]
  /\ UNCHANGED settings

\* A copy made while a new engine is put in place of the old: each decision is
\* either one's, or a mixture that is the name of no decision.
Either(old, new) == IF old = new THEN {old} ELSE {old, new, "unknown"}
Mixed(old, new) ==
  [read : Either(old.read, new.read), act : Either(old.act, new.act), rule : {new.rule},
   full : {old.full, new.full}]

\* Some of the turns begin while the configuration c is put in force.
TurnsBeginDuring(c) ==
  LET copies == [engine : Mixed(engine, Engine(c)), modes : {{Mode(config), Mode(c)}}]
  IN \E begun \in SUBSET {t \in Turns : turns[t] = None} : \E copy \in [begun -> copies] :
       turns' = [t \in Turns |-> IF t \in begun THEN copy[t] ELSE turns[t]]

----------------------------------------------------------------------------
(* UpdateSettings: "" keeps what is there.                                 *)

\* The credential variable is kept only when no key is in use, and a variable
\* replaces the key.
Updated(place, model, env, mode) ==
  LET variable == IF env = "" /\ config["key"] = "" THEN config["env"] ELSE env
      rights == Permissions(IF mode = "" THEN Mode(config) ELSE mode)
  IN [config EXCEPT !["place"] = IF place = "" THEN @ ELSE place,
                    !["model"] = IF model = "" THEN @ ELSE model,
                    !["env"] = variable,
                    !["key"] = IF variable = "" THEN @ ELSE "",
                    !["read"] = rights.read, !["act"] = rights.act]

\* Mutant: the engine is left as it was when the mode is.
MUT_UpdateKeepsEngine(place, model, env, mode) ==
  LET c == Updated(place, model, env, mode)
  IN /\ job = None
     /\ c["model"] # "" => c["env"] # "" \/ c["key"] # ""
     /\ Validate(c, FALSE)
     /\ \/ /\ Saved(c)
           /\ config' = c
           /\ detached' = (detached \/ (row # None /\ FromConfig(c) # FromConfig(config)))
        \/ SaveFails /\ UNCHANGED <<config, detached>>
     /\ UNCHANGED <<engine, turns, row, keys, job, spoiled>>

UpdateSettings(place, model, env, mode) ==
  LET c == Updated(place, model, env, mode)
  IN /\ job = None
     /\ c["model"] # "" => c["env"] # "" \/ c["key"] # ""
     /\ Validate(c, FALSE)
     /\ \/ /\ Saved(c)
           /\ config' = c
           /\ engine' = Engine(c)
           /\ TurnsBeginDuring(c)
           /\ detached' = (detached \/ (row # None /\ FromConfig(c) # FromConfig(config)))
        \/ SaveFails /\ UNCHANGED <<config, engine, turns, detached>>
     /\ UNCHANGED <<row, keys, job, spoiled>>

----------------------------------------------------------------------------
(* SaveModelProfile and SelectModelProfile.                                *)

Persist(catalog, fresh) == job' = [at |-> "file", catalog |-> catalog, fresh |-> fresh]

\* The key goes to the keychain before anything refers to it.
SaveModelProfile(id, content, withKey) ==
  LET p == Filled(id, content, withKey)
      catalog == [active |-> id,
                  profiles |-> [a \in DOMAIN Catalog.profiles \cup {id} |->
                                 IF a = id THEN p ELSE Catalog.profiles[a]]]
  IN /\ job = None
     /\ Normal(content)
     /\ p.key # "" \/ p.env # ""
     /\ Persist(catalog, withKey)
     /\ IF withKey
        THEN keys' = [keys EXCEPT ![id] = content.protocol] /\ spoiled' = spoiled \cup {id}
        ELSE UNCHANGED <<keys, spoiled>>
     /\ UNCHANGED <<file, config, engine, turns, row, detached, torn, faults>>

\* Mutant: the profile is not looked up.
MUT_SelectUnknown(id) ==
  /\ job = None
  /\ Persist([Catalog EXCEPT !.active = id], FALSE)
  /\ UNCHANGED <<file, config, engine, turns, row, keys, detached, spoiled, torn, faults>>

SelectModelProfile(id) ==
  /\ job = None
  /\ id \in DOMAIN Catalog.profiles
  /\ Persist([Catalog EXCEPT !.active = id], FALSE)
  /\ UNCHANGED <<file, config, engine, turns, row, keys, detached, spoiled, torn, faults>>

Target == WithProvider(config, job.catalog.profiles[job.catalog.active])

\* Mutant: the configuration is not validated as a whole.
MUT_PersistUnchecked ==
  /\ job # None
  /\ job.at = "file"
  /\ Saved(Target) /\ job' = [job EXCEPT !.at = "row"]
  /\ UNCHANGED <<config, engine, turns, row, keys, detached, spoiled>>

\* persistModelCatalog: the file, if the whole configuration is valid.
PersistFile ==
  /\ job # None
  /\ job.at = "file"
  /\ \/ /\ Validate(Target, FALSE)
        /\ Saved(Target)
        /\ job' = [job EXCEPT !.at = "row"]
     \/ SaveFails /\ job' = None
     \/ /\ ~Validate(Target, FALSE)
        /\ job' = None
        /\ UNCHANGED <<file, torn, faults>>
  /\ UNCHANGED <<config, engine, turns, row, keys, detached, spoiled>>

\* Mutant: the configuration in memory waits for the next start.
MUT_PersistRowKeepsConfig ==
  /\ job # None
  /\ job.at = "row"
  /\ row' = job.catalog
  /\ job' = None
  /\ detached' = FALSE
  /\ spoiled' = IF job.fresh THEN spoiled \ {job.catalog.active} ELSE spoiled
  /\ UNCHANGED <<file, config, engine, turns, keys, torn, faults>>

\* ... then the row, and with it the configuration in memory.
PersistRow ==
  /\ job # None
  /\ job.at = "row"
  /\ row' = job.catalog
  /\ config' = Target
  /\ job' = None
  /\ detached' = FALSE
  /\ spoiled' = IF job.fresh THEN spoiled \ {job.catalog.active} ELSE spoiled
  /\ UNCHANGED <<file, engine, turns, keys, torn, faults>>

\* The row is refused: the file already says something else.
PersistRowFails ==
  /\ job # None
  /\ job.at = "row"
  /\ Fault
  /\ job' = None
  /\ torn' = TRUE
  /\ UNCHANGED <<file, config, engine, turns, row, keys, detached, spoiled>>

\* The process ends, at rest or between two steps, and starts again.
Restart ==
  /\ config' = Load(file, Missing)
  /\ engine' = Engine(config')
  /\ turns' = [t \in Turns |-> None]
  /\ job' = None
  /\ detached' = (detached \/ (row # None /\ FromConfig(config') # FromConfig(config)))
  /\ torn' = FALSE
  /\ UNCHANGED <<file, row, keys, spoiled, faults>>

Next ==
  \/ \E place \in Typed, model \in {""} \cup Models, env \in {"", "VARIABLE"},
        mode \in Modes : UpdateSettings(place, model, env, mode)
  \/ \E id \in Accounts, content \in Contents, withKey \in BOOLEAN :
       SaveModelProfile(id, content, withKey)
  \/ \E id \in Accounts : SelectModelProfile(id)
  \/ PersistFile
  \/ PersistRow
  \/ PersistRowFails
  \/ \E t \in Turns : BeginTurn(t)
  \/ \E t \in Turns : EndTurn(t)
  \/ Restart

Spec == Init /\ [][Next]_vars

----------------------------------------------------------------------------
(* Properties.                                                             *)

\* What the next start reads is what is in force now: unless the last write
\* failed, the file loads as the configuration in memory, whatever was in the
\* file when the application first found it.
SettingsSurvive == (job = None /\ ~torn) => Load(file, Missing) = config

\* The profile that the window shows as active is the one that the next turn's
\* provider is made of, from the moment a save or a selection succeeds until
\* the settings form changes the provider or a failed write comes back at a
\* restart.
ActiveIsUsed ==
  (job = None /\ ~detached /\ Catalog.active # None) =>
    Catalog.profiles[Catalog.active] = FromConfig(config)

\* A key that a stored profile or the next start's configuration refers to
\* exists, and the key of a profile's own was entered for the profile's
\* protocol, unless a save that replaced the key was cut short.
KeysFit ==
  /\ KeyFound(Load(file, Missing)["key"])
  /\ \A a \in DOMAIN Catalog.profiles :
       LET p == Catalog.profiles[a]
       IN KeyFound(p.key) /\ (p.key # a \/ a \in spoiled \/ keys[a] = p.protocol)

\* What a turn may do unasked was allowed by the mode the window showed when
\* the turn began, whatever is changed while it runs, and also if a change was
\* half made then: a call with side effects only after full access, and when
\* the mode was manual before and after, a read only by a rule.  No mode lets
\* a forbidden command run.
ModeIsHonoured ==
  \A t \in Turns : turns[t] # None =>
    \A call \in Call : RunsUnasked(turns[t].engine, call) =>
      /\ ~call.forbidden
      /\ ~call.readOnly => "full" \in turns[t].modes
      /\ turns[t].modes = {"manual"} => call.matches /\ turns[t].engine.rule = "allow"

\* No project's file makes the permissions of any user's file, or its word on
\* plain http, say something else.
ProjectCannotLoosen ==
  \A project \in HandWritten :
    \A x \in {"read", "act", "rule", "http"} :
      Load(file, project)[x] = Load(file, Missing)[x]

=============================================================================
