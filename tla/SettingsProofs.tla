--------------------------- MODULE SettingsProofs ---------------------------
(***************************************************************************)
(* Proofs of the properties of Settings, for every set of endpoints,       *)
(* models, accounts, forms and files that a person may have written.       *)
(***************************************************************************)
EXTENDS Settings, TLAPS

----------------------------------------------------------------------------
(* The inductive invariant.                                                *)

\* The fields that no configuration in force leaves empty.
Filling == {"protocol", "api", "place", "read", "act"}
Complete(c) == IsConfig(c) /\ \A x \in Filling : c[x] # ""

\* A configuration in force is complete, and the engine follows it.
InForce ==
  /\ file # None => IsFile(file)
  /\ Complete(config)
  /\ engine = Engine(config)

StoresOK ==
  /\ row # None => IsCatalog(row)
  /\ keys \in [Accounts -> Values["protocol"] \cup {None}]
  /\ job # None => IsJob(job)
  /\ detached \in BOOLEAN /\ torn \in BOOLEAN
  /\ spoiled \subseteq Accounts
  /\ faults \in 0..MaxFaults

\* Until a save has written the file, the next start reads what is in force;
\* from then on, what the save will put in force.
FileAgrees ==
  /\ (job # None /\ job.at = "row") => file = Target /\ Validate(Target, FALSE) /\ ~torn
  /\ ((job # None => job.at = "file") /\ ~torn) => Load(file, Missing) = config

\* The stored catalog and the configuration name the same provider.
RowAgrees == (row # None /\ ~detached) => row.profiles[row.active] = FromConfig(config)

\* A reference to a key, from a profile of the given id: the key exists, a key
\* of the profile's own was entered for its protocol, and only the profile
\* "default", which was once the configuration, has the key of that name.
Found(ring, account) == account # "" => ring[account] # None
Fits(ring, excused, id, protocol, account) ==
  /\ Found(ring, account)
  /\ account = id => id \in excused \/ ring[id] = protocol
  /\ account = "default" => id = "default"
CatalogFits(ring, excused, catalog) ==
  \A a \in DOMAIN catalog.profiles :
    Fits(ring, excused, a, catalog.profiles[a].protocol, catalog.profiles[a].key)
ConfigFits(stored, ring, excused, c) ==
  /\ Found(ring, c["key"])
  /\ stored = None => Fits(ring, excused, "default", c["protocol"], c["key"])

References ==
  /\ ConfigFits(row, keys, spoiled, config)
  /\ ConfigFits(row, keys, spoiled, Load(file, Missing))
  /\ row # None => CatalogFits(keys, spoiled, row)
  /\ job # None =>
       /\ CatalogFits(keys, spoiled, job.catalog)
       /\ job.fresh => LET active == job.catalog.active
                       IN keys[active] = job.catalog.profiles[active].protocol

\* What a turn has is made of the engines and modes of one or two complete
\* configurations.
CopiesOf(old, new) ==
  [engine : Mixed(Engine(old), Engine(new)), modes : {{Mode(old), Mode(new)}}]
TurnsOK ==
  /\ turns \in [Turns -> {None} \cup Copies]
  /\ \A t \in Turns : turns[t] # None =>
       \E old, new : Complete(old) /\ Complete(new) /\ turns[t] \in CopiesOf(old, new)

Inv == InForce /\ StoresOK /\ TurnsOK /\ FileAgrees /\ RowAgrees /\ References

----------------------------------------------------------------------------
(* What loading a file makes of it.                                        *)

LEMMA DefaultsComplete == Complete(Defaults)
<1>0. /\ Defaults["protocol"] = "openai" /\ Defaults["api"] = "chat_completions"
      /\ Defaults["place"] = DefaultPlace /\ Defaults["http"] = "" /\ Defaults["model"] = ""
      /\ Defaults["env"] = "VARIABLE" /\ Defaults["key"] = "" /\ Defaults["read"] = "allow"
      /\ Defaults["act"] = "ask" /\ Defaults["rule"] = ""
  BY DEF Defaults, Fields
<1>2. \A x \in Fields : Defaults[x] \in Values[x] \cup {""}
  <2>1. /\ Defaults["protocol"] \in Values["protocol"] /\ Defaults["api"] \in Values["api"]
        /\ Defaults["place"] \in Values["place"] /\ Defaults["env"] \in Values["env"]
        /\ Defaults["read"] \in Values["read"] /\ Defaults["act"] \in Values["act"]
    BY <1>0, DefaultAssumption DEF Values, Decisions
  <2> QED
    BY <1>0, <2>1 DEF Fields
<1>1. Defaults \in [Fields -> AnyValue]
  <2>1. Defaults = [x \in Fields |-> Defaults[x]]
    BY Zenon DEF Defaults
  <2>2. \A x \in Fields : Defaults[x] \in AnyValue
    BY <1>2 DEF AnyValue
  <2> QED
    BY <2>1, <2>2
<1>3. \A x \in Filling : Defaults[x] # ""
  BY DefaultAssumption, ZeroAssumption DEF Defaults, Fields, Filling
<1> QED
  BY <1>1, <1>2, <1>3 DEF Complete, IsConfig, IsFile

\* A file gives each field it may have a value of the field.
LEMMA DecodedTyped ==
  ASSUME NEW f, IsFile(f), NEW x \in Fields
  PROVE  Decoded(f, x) \in Values[x] \cup {""}
BY DEF IsFile, Decoded

LEMMA MergeComplete ==
  ASSUME NEW c, Complete(c), NEW f, IsFile(f), NEW project \in BOOLEAN
  PROVE  Complete(Merge(c, f, project))
<1> DEFINE m == Merge(c, f, project)
<1>1. ASSUME NEW x \in Fields
      PROVE  m[x] \in {c[x], Decoded(f, x)} /\ (x \in Filling /\ c[x] # "" => m[x] # "")
  BY DEF Merge, Fields, Filling, Decoded
<1>2. \A x \in Fields : m[x] \in Values[x] \cup {""}
  BY <1>1, DecodedTyped DEF Complete, IsConfig, IsFile
<1>3. \A x \in Filling : m[x] # ""
  BY <1>1 DEF Complete, Filling, Fields
<1>4. m \in [Fields -> AnyValue]
  <2>1. \A x \in Fields : m[x] \in AnyValue
    BY <1>2 DEF AnyValue
  <2> QED
    BY <2>1 DEF Merge
<1> QED
  BY <1>2, <1>3, <1>4 DEF Complete, IsConfig, IsFile

LEMMA LayerComplete ==
  ASSUME NEW c, Complete(c), NEW f, f = None \/ IsFile(f), NEW project \in BOOLEAN
  PROVE  Complete(Layer(c, f, project))
BY MergeComplete DEF Layer

LEMMA MissingIsFile == IsFile(Missing)
BY DEF IsFile, Missing

\* A project without a file of its own changes nothing.
LEMMA LayerMissing ==
  ASSUME NEW c, Complete(c)
  PROVE  Layer(c, Missing, TRUE) = c
<1>1. c = [x \in Fields |-> c[x]]
  BY DEF Complete, IsConfig
<1>2. Merge(c, Missing, TRUE) = [x \in Fields |-> c[x]]
  <2>1. \A x : x \notin DOMAIN Missing /\ Decoded(Missing, x) = ""
    BY DEF Missing, Decoded
  <2> QED
    BY <2>1 DEF Merge, Fields
<1> QED
  BY <1>1, <1>2 DEF Layer

LEMMA LoadComplete ==
  ASSUME NEW f, f = None \/ IsFile(f)
  PROVE  Complete(Load(f, Missing)) /\ Load(f, Missing) = Layer(Defaults, f, FALSE)
<1>1. Complete(Layer(Defaults, f, FALSE))
  BY DefaultsComplete, LayerComplete
<1> QED
  BY <1>1, LayerMissing DEF Load

\* A valid configuration, written and read back, is what it was.
LEMMA LoadSelf ==
  ASSUME NEW c, Complete(c), Validate(c, FALSE)
  PROVE  Load(c, Missing) = c
<1>1. c = [x \in Fields |-> c[x]] /\ c # None /\ DOMAIN c = Fields
  BY NoFileAssumption DEF Complete, IsConfig
<1>2. Load(c, Missing) = Merge(Defaults, c, FALSE)
  BY <1>1, LoadComplete DEF Complete, IsConfig, Layer
<1>3. \A x \in Fields : Decoded(c, x) = c[x]
  BY <1>1 DEF Decoded
<1>4. \A x \in Filling : c[x] # ""
  BY DEF Complete
<1>5. Defaults["model"] = ""
  BY DEF Defaults, Fields
<1>6. Merge(Defaults, c, FALSE) = [x \in Fields |-> c[x]]
  BY <1>1, <1>3, <1>4, <1>5 DEF Merge, Fields, Filling
<1> QED
  BY <1>1, <1>2, <1>6

\* A file that does not parse, or that is empty, gives the defaults.
LEMMA LoadNothing ==
  ASSUME NEW f \in {Missing, None}
  PROVE  Load(f, Missing)["key"] = ""
<1>1. Load(f, Missing) = Layer(Defaults, f, FALSE)
  BY LoadComplete, MissingIsFile
<1> QED
  BY <1>1 DEF Layer, Merge, Missing, Defaults, Fields, Decoded

\* No file of a project has a say in these fields, whatever both files say.
THEOREM ProjectCorrect == Spec => []ProjectCannotLoosen
<1>1. ASSUME NEW c, NEW f, NEW x \in {"read", "act", "rule", "http"}, f = None \/ IsFile(f)
      PROVE  Layer(c, f, TRUE)[x] = c[x]
  BY <1>1 DEF Layer, Merge, Fields
<1>2. ProjectCannotLoosen
  <2> SUFFICES ASSUME NEW project \in HandWritten, NEW x \in {"read", "act", "rule", "http"}
               PROVE  Load(file, project)[x] = Load(file, Missing)[x]
    BY DEF ProjectCannotLoosen
  <2> DEFINE user == Layer(Defaults, file, FALSE)
  <2>1. Layer(user, project, TRUE)[x] = user[x]
    BY <1>1, InputAssumption
  <2>2. Layer(user, Missing, TRUE)[x] = user[x]
    BY <1>1, MissingIsFile
  <2> QED
    BY <2>1, <2>2 DEF Load
<1> QED
  BY <1>2, PTL

----------------------------------------------------------------------------
(* Profiles and catalogs.                                                  *)

LEMMA CatalogParts ==
  ASSUME NEW catalog, IsCatalog(catalog)
  PROVE  /\ catalog # None
         /\ catalog = [active |-> catalog.active, profiles |-> catalog.profiles]
         /\ DOMAIN catalog.profiles \subseteq Accounts
         /\ catalog.active \in DOMAIN catalog.profiles
         /\ \A a \in DOMAIN catalog.profiles : catalog.profiles[a] \in Profile
         /\ catalog.profiles = [a \in DOMAIN catalog.profiles |-> catalog.profiles[a]]
<1>1. PICK ids \in SUBSET Accounts : catalog \in CatalogOf(ids)
  BY DEF IsCatalog
<1>2. catalog # None
  BY <1>1, NoneAssumption
<1>3. catalog.profiles \in [ids -> Profile] /\ catalog.active \in ids
  BY <1>1 DEF CatalogOf
<1> QED
  BY <1>1, <1>2, <1>3 DEF CatalogOf

\* A job, and what a step makes of it.
LEMMA JobParts ==
  ASSUME NEW j, IsJob(j)
  PROVE  /\ j # None /\ IsCatalog(j.catalog) /\ j.at \in {"file", "row"} /\ j.fresh \in BOOLEAN
         /\ LET k == [j EXCEPT !.at = "row"]
            IN IsJob(k) /\ k.at = "row" /\ k.catalog = j.catalog /\ k.fresh = j.fresh
<1>1. PICK ids \in SUBSET Accounts : j \in JobOf(ids)
  BY DEF IsJob
<1>2. j # None
  BY <1>1, NoneAssumption
<1>3. [j EXCEPT !.at = "row"] \in JobOf(ids)
  BY <1>1 DEF JobOf
<1> QED
  BY <1>1, <1>2, <1>3 DEF JobOf, IsJob, IsCatalog

LEMMA JobMade ==
  ASSUME NEW catalog, IsCatalog(catalog), NEW fresh \in BOOLEAN
  PROVE  IsJob([at |-> "file", catalog |-> catalog, fresh |-> fresh])
BY DEF IsJob, IsCatalog, JobOf

LEMMA CatalogMade ==
  ASSUME NEW ids \in SUBSET Accounts, NEW active \in ids, NEW profiles \in [ids -> Profile]
  PROVE  IsCatalog([active |-> active, profiles |-> profiles])
BY DEF IsCatalog, CatalogOf

\* A configuration with the provider of a profile.
LEMMA ProviderReplaced ==
  ASSUME NEW c, Complete(c), NEW p \in Profile
  PROVE  LET d == WithProvider(c, p)
         IN /\ Complete(d) /\ Engine(d) = Engine(c)
            /\ FromConfig(d) = p
            /\ d["key"] = p.key /\ d["protocol"] = p.protocol
<1> DEFINE d == WithProvider(c, p)
<1>1. /\ d["protocol"] = p.protocol /\ d["api"] = p.api /\ d["place"] = p.place
      /\ d["model"] = p.model /\ d["env"] = p.env /\ d["key"] = p.key
      /\ d["http"] \in {"", "yes"}
      /\ d["read"] = c["read"] /\ d["act"] = c["act"] /\ d["rule"] = c["rule"]
  BY DEF WithProvider, Fields, Provider
<1>2. /\ p.protocol \in Values["protocol"] /\ p.api \in Values["api"] /\ p.place \in Values["place"]
      /\ p.model \in Values["model"] /\ p.env \in Values["env"] \cup {""}
      /\ p.key \in Values["key"] \cup {""} /\ "yes" \in Values["http"]
  BY DEF Profile, Values
<1>3. \A x \in Fields : d[x] \in Values[x] \cup {""}
  BY <1>1, <1>2 DEF Fields, Complete, IsConfig, IsFile
<1>4. d \in [Fields -> AnyValue]
  <2>1. d = [x \in Fields |-> d[x]]
    BY Zenon DEF WithProvider
  <2>2. \A x \in Fields : d[x] \in AnyValue
    BY <1>3 DEF AnyValue
  <2> QED
    BY <2>1, <2>2
<1>5. \A x \in Filling : d[x] # ""
  <2>1. "" \notin Values["protocol"] \cup Values["api"] \cup Values["place"]
    BY ZeroAssumption DEF Values
  <2> QED
    BY <2>1, <1>1, <1>2 DEF Filling, Complete
<1>6. FromConfig(d) = p
  <2>1. p = [protocol |-> p.protocol, api |-> p.api, place |-> p.place,
             model |-> p.model, env |-> p.env, key |-> p.key]
    BY DEF Profile
  <2>2. DOMAIN p = Provider
    BY <2>1 DEF Provider
  <2> QED
    BY <2>1, <2>2, <1>1 DEF FromConfig, Provider
<1> HIDE DEF d
<1>7. Complete(d) /\ Engine(d) = Engine(c)
  BY <1>1, <1>3, <1>4, <1>5 DEF Complete, IsConfig, IsFile, Engine
<1> QED
  BY <1>1, <1>6, <1>7 DEF d

LEMMA ProviderKept ==
  ASSUME NEW c, Complete(c), c["model"] # ""
  PROVE  FromConfig(c) \in Profile
<1>1. /\ c["protocol"] \in Values["protocol"] /\ c["api"] \in Values["api"]
      /\ c["place"] \in Values["place"] /\ c["model"] \in Values["model"]
      /\ c["env"] \in Values["env"] \cup {""} /\ c["key"] \in Values["key"] \cup {""}
  BY DEF Complete, IsConfig, IsFile, Fields, Filling
<1> DEFINE p == [protocol |-> c["protocol"], api |-> c["api"], place |-> c["place"],
                 model |-> c["model"], env |-> c["env"], key |-> c["key"]]
<1>2. p \in Profile
  <2>1. /\ c["place"] \in Places /\ c["model"] \in Models
        /\ c["env"] \in {"", "VARIABLE"} /\ c["key"] \in Accounts \cup {""}
    BY <1>1 DEF Values
  <2> QED
    BY <1>1, <2>1 DEF Profile
<1>3. FromConfig(c) = p
  <2>1. /\ p.protocol = c["protocol"] /\ p.api = c["api"] /\ p.place = c["place"]
        /\ p.model = c["model"] /\ p.env = c["env"] /\ p.key = c["key"]
    OBVIOUS
  <2> HIDE DEF p
  <2>2. p = [protocol |-> p.protocol, api |-> p.api, place |-> p.place,
             model |-> p.model, env |-> p.env, key |-> p.key]
    BY <1>2 DEF Profile
  <2>3. DOMAIN p = Provider
    BY <2>2 DEF Provider
  <2> QED
    BY <2>1, <2>2, <2>3 DEF FromConfig, Provider
<1> QED
  BY <1>2, <1>3

\* What the window shows is a catalog, unless there is no model yet.
LEMMA CatalogTyped ==
  ASSUME InForce, StoresOK
  PROVE  /\ DOMAIN Catalog.profiles # {} => IsCatalog(Catalog)
         /\ DOMAIN Catalog.profiles = {} => Catalog = [active |-> None, profiles |-> Missing]
         /\ row # None => Catalog = row
         /\ row = None /\ DOMAIN Catalog.profiles # {} =>
              /\ Catalog.active = "default" /\ DOMAIN Catalog.profiles = {"default"}
              /\ Catalog.profiles["default"] = FromConfig(config)
<1>1. CASE row # None
  BY <1>1, CatalogParts DEF Catalog, StoresOK
<1>2. CASE row = None /\ config["model"] = ""
  BY <1>2 DEF Catalog, Missing
<1>3. CASE row = None /\ config["model"] # ""
  <2> DEFINE profiles == [a \in {"default"} |-> FromConfig(config)]
  <2>1. Catalog = [active |-> "default", profiles |-> profiles]
    BY <1>3 DEF Catalog
  <2>2. profiles \in [{"default"} -> Profile]
    BY <1>3, ProviderKept DEF InForce
  <2>3. IsCatalog(Catalog)
    BY <2>1, <2>2, CatalogMade, DefaultProfile
  <2> QED
    BY <1>3, <2>1, <2>3
<1> QED
  BY <1>1, <1>2, <1>3

----------------------------------------------------------------------------
(* The initial states, and what each step does to the configuration.       *)

LEMMA InitInv == Init => Inv
<1> SUFFICES ASSUME Init
             PROVE  Inv
  OBVIOUS
<1>1. file = None \/ IsFile(file)
  BY InputAssumption DEF Init
<1>2. Complete(config) /\ config = Load(file, Missing)
  BY <1>1, LoadComplete DEF Init
<1>3. InForce
  BY <1>1, <1>2 DEF Init, InForce
<1>4. config["key"] \in Accounts \cup {""} /\ config["protocol"] \in Values["protocol"]
  <2>1. /\ config["key"] \in Values["key"] \cup {""}
        /\ config["protocol"] \in Values["protocol"] \cup {""} /\ config["protocol"] # ""
    BY <1>2 DEF Complete, IsConfig, IsFile, Fields, Filling
  <2> QED
    BY <2>1 DEF Values
<1>5. StoresOK
  <2>1. keys \in [Accounts -> Values["protocol"] \cup {None}]
    BY <1>4 DEF Init
  <2>2. 0 \in 0..MaxFaults
    BY FaultAssumption
  <2> QED
    BY <2>1, <2>2 DEF Init, StoresOK
<1>6. References
  <2>1. config["key"] # "" => keys[config["key"]] = config["protocol"]
    BY <1>4 DEF Init
  <2>2. config["protocol"] # None
    BY <1>4, NoneAssumption
  <2> QED
    BY <1>2, <2>1, <2>2 DEF Init, References, ConfigFits, Fits, Found
<1> QED
  BY <1>2, <1>3, <1>5, <1>6 DEF Init, Inv, TurnsOK, FileAgrees, RowAgrees

\* The configuration that UpdateSettings makes of the form.
LEMMA UpdatedComplete ==
  ASSUME Complete(config), NEW place \in Typed, NEW model \in {""} \cup Models,
         NEW env \in {"", "VARIABLE"}, NEW mode \in Modes
  PROVE  LET c == Updated(place, model, env, mode)
         IN Complete(c) /\ c["protocol"] = config["protocol"] /\ c["key"] \in {config["key"], ""}
<1> DEFINE c == Updated(place, model, env, mode)
           rights == Permissions(IF mode = "" THEN Mode(config) ELSE mode)
<1>1. rights.read \in {"allow", "ask"} /\ rights.act \in {"allow", "ask"}
  BY InputAssumption DEF Permissions, Mode
<1>2. config \in [Fields -> AnyValue] /\ \A x \in Fields : config[x] \in Values[x] \cup {""}
  BY DEF Complete, IsConfig, IsFile
<1>3. /\ c["protocol"] = config["protocol"] /\ c["api"] = config["api"]
      /\ c["http"] = config["http"] /\ c["rule"] = config["rule"]
      /\ c["place"] \in {config["place"], place} /\ (c["place"] = "" => config["place"] = "")
      /\ c["model"] \in {config["model"], model}
      /\ c["env"] \in {config["env"], env} /\ c["key"] \in {config["key"], ""}
      /\ c["read"] = rights.read /\ c["act"] = rights.act
  BY <1>2 DEF Updated, Fields
<1>4. c = [x \in Fields |-> c[x]]
  BY <1>2 DEF Updated
<1> HIDE DEF c, rights
<1>5. /\ place \in Values["place"] \cup {""} /\ model \in Values["model"] \cup {""}
      /\ env \in Values["env"] \cup {""} /\ {"allow", "ask"} \subseteq Values["read"] \cap Values["act"]
  BY InputAssumption DEF Values, Decisions
<1>6. \A x \in Fields : c[x] \in Values[x] \cup {""}
  <2>1. /\ c["protocol"] \in Values["protocol"] \cup {""} /\ c["api"] \in Values["api"] \cup {""}
        /\ c["http"] \in Values["http"] \cup {""} /\ c["rule"] \in Values["rule"] \cup {""}
    BY <1>2, <1>3 DEF Fields
  <2>2. c["place"] \in Values["place"] \cup {""} /\ c["model"] \in Values["model"] \cup {""}
    BY <1>2, <1>3, <1>5 DEF Fields
  <2>3. c["env"] \in Values["env"] \cup {""} /\ c["key"] \in Values["key"] \cup {""}
    BY <1>2, <1>3, <1>5 DEF Fields
  <2>4. c["read"] \in Values["read"] /\ c["act"] \in Values["act"]
    BY <1>1, <1>3, <1>5
  <2> QED
    BY <2>1, <2>2, <2>3, <2>4 DEF Fields
<1>7. \A x \in Filling : c[x] # ""
  BY <1>1, <1>3 DEF Filling, Complete
<1>8. c \in [Fields -> AnyValue]
  <2>1. \A x \in Fields : c[x] \in AnyValue
    BY <1>6 DEF AnyValue
  <2> QED
    BY <1>4, <2>1
<1> QED
  BY <1>3, <1>6, <1>7, <1>8 DEF Complete, IsConfig, IsFile, c

\* The configuration that a save or a selection puts in force.
LEMMA TargetComplete ==
  ASSUME InForce, StoresOK, job # None
  PROVE  /\ Complete(Target) /\ Engine(Target) = engine
         /\ FromConfig(Target) = job.catalog.profiles[job.catalog.active]
         /\ Target["key"] = job.catalog.profiles[job.catalog.active].key
         /\ Target["protocol"] = job.catalog.profiles[job.catalog.active].protocol
<1>1. job.catalog.profiles[job.catalog.active] \in Profile
  BY CatalogParts, JobParts DEF StoresOK
<1> QED
  BY <1>1, ProviderReplaced DEF Target, InForce

\* The profile that SaveModelProfile makes of a form, and its catalog.
LEMMA SavedCatalog ==
  ASSUME InForce, StoresOK,
         NEW id \in Accounts, NEW content \in Contents, NEW withKey \in BOOLEAN
  PROVE  LET p == Filled(id, content, withKey)
             ids == DOMAIN Catalog.profiles \cup {id}
         IN p \in Profile /\ IsCatalog([active |-> id, profiles |-> [a \in ids |->
              IF a = id THEN p ELSE Catalog.profiles[a]]])
<1> DEFINE p == Filled(id, content, withKey)
           ids == DOMAIN Catalog.profiles \cup {id}
           profiles == [a \in ids |-> IF a = id THEN p ELSE Catalog.profiles[a]]
<1>1. /\ DOMAIN Catalog.profiles \subseteq Accounts
      /\ \A a \in DOMAIN Catalog.profiles : Catalog.profiles[a] \in Profile
  BY CatalogTyped, CatalogParts
<1>2. p \in Profile
  BY <1>1, InputAssumption DEF Filled, Profile
<1>3. profiles \in [ids -> Profile]
  <2> HIDE DEF p
  <2> QED
    BY <1>1, <1>2
<1>4. ids \in SUBSET Accounts
  BY <1>1
<1> HIDE DEF p, profiles, ids
<1>5. IsCatalog([active |-> id, profiles |-> profiles])
  BY <1>3, <1>4, CatalogMade DEF ids
<1> QED
  BY <1>2, <1>5 DEF p, profiles, ids

----------------------------------------------------------------------------
(* What is in force, and the types.                                        *)

\* A step of a turn touches nothing else.
LEMMA TurnStep ==
  /\ UNCHANGED vars => UNCHANGED settings /\ UNCHANGED turns
  /\ \A t \in Turns : BeginTurn(t) \/ EndTurn(t) => UNCHANGED settings
BY DEF vars, BeginTurn, EndTurn

LEMMA ForceNext ==
  ASSUME InForce, StoresOK, [Next]_vars
  PROVE  InForce'
<1>1. ASSUME NEW place \in Typed, NEW model \in {""} \cup Models, NEW env \in {"", "VARIABLE"},
             NEW mode \in Modes, UpdateSettings(place, model, env, mode)
      PROVE  InForce'
  <2> DEFINE c == Updated(place, model, env, mode)
  <2>1. Complete(c)
    BY UpdatedComplete DEF InForce
  <2> HIDE DEF c
  <2>2. CASE Saved(c) /\ config' = c /\ engine' = Engine(c)
    BY <2>1, <2>2 DEF InForce, Saved, Complete, IsConfig
  <2>3. CASE SaveFails /\ UNCHANGED <<config, engine>>
    BY <2>3, MissingIsFile DEF InForce, SaveFails
  <2> QED
    BY <1>1, <2>2, <2>3 DEF UpdateSettings, c
<1>2. ASSUME NEW id \in Accounts, NEW content \in Contents, NEW withKey \in BOOLEAN,
             SaveModelProfile(id, content, withKey)
      PROVE  InForce'
  BY <1>2 DEF SaveModelProfile, InForce
<1>3. ASSUME NEW id \in Accounts, SelectModelProfile(id)
      PROVE  InForce'
  BY <1>3 DEF SelectModelProfile, InForce
<1>4. CASE PersistFile
  <2>1. IsFile(Target)
    BY <1>4, TargetComplete DEF PersistFile, Complete, IsConfig
  <2> QED
    BY <1>4, <2>1, MissingIsFile DEF PersistFile, InForce, Saved, SaveFails
<1>5. CASE PersistRow
  BY <1>5, TargetComplete DEF PersistRow, InForce
<1>6. CASE PersistRowFails
  BY <1>6 DEF PersistRowFails, InForce
<1>7. CASE Restart
  BY <1>7, LoadComplete DEF Restart, InForce
<1>8. CASE UNCHANGED settings
  BY <1>8 DEF settings, InForce
<1> QED
  BY <1>1, <1>2, <1>3, <1>4, <1>5, <1>6, <1>7, <1>8, TurnStep DEF Next

LEMMA StoresNext ==
  ASSUME InForce, StoresOK, [Next]_vars
  PROVE  StoresOK'
<1>1. ASSUME Fault
      PROVE  faults' \in 0..MaxFaults
  BY <1>1, FaultAssumption DEF Fault, StoresOK
<1>2. ASSUME NEW place \in Typed, NEW model \in {""} \cup Models, NEW env \in {"", "VARIABLE"},
             NEW mode \in Modes, UpdateSettings(place, model, env, mode)
      PROVE  StoresOK'
  <2>1. faults' \in 0..MaxFaults /\ torn' \in BOOLEAN
    BY <1>1, <1>2 DEF UpdateSettings, Saved, SaveFails, StoresOK
  <2> QED
    BY <1>2, <2>1 DEF UpdateSettings, StoresOK
<1>3. ASSUME NEW id \in Accounts, NEW content \in Contents, NEW withKey \in BOOLEAN,
             SaveModelProfile(id, content, withKey)
      PROVE  StoresOK'
  <2>1. IsJob(job')
    BY <1>3, SavedCatalog, JobMade DEF SaveModelProfile, Persist
  <2>2. keys' \in [Accounts -> Values["protocol"] \cup {None}] /\ spoiled' \subseteq Accounts
    BY <1>3, InputAssumption DEF SaveModelProfile, StoresOK
  <2> QED
    BY <1>3, <2>1, <2>2 DEF SaveModelProfile, StoresOK
<1>4. ASSUME NEW id \in Accounts, SelectModelProfile(id)
      PROVE  StoresOK'
  <2>1. IsCatalog(Catalog)
    BY <1>4, CatalogTyped DEF SelectModelProfile
  <2>2. IsCatalog([Catalog EXCEPT !.active = id])
    BY <1>4, <2>1 DEF SelectModelProfile, IsCatalog, CatalogOf
  <2> QED
    BY <1>4, <2>2, JobMade DEF SelectModelProfile, Persist, StoresOK
<1>5. CASE PersistFile
  <2>1. faults' \in 0..MaxFaults /\ torn' \in BOOLEAN
    BY <1>1, <1>5 DEF PersistFile, Saved, SaveFails, StoresOK
  <2>2. job' # None => IsJob(job')
    BY <1>5, JobParts DEF PersistFile, StoresOK
  <2> QED
    BY <1>5, <2>1, <2>2 DEF PersistFile, StoresOK
<1>6. CASE PersistRow
  BY <1>6, JobParts DEF PersistRow, StoresOK
<1>7. CASE PersistRowFails
  BY <1>1, <1>7 DEF PersistRowFails, StoresOK
<1>8. CASE Restart
  BY <1>8 DEF Restart, StoresOK
<1>9. CASE UNCHANGED settings
  BY <1>9 DEF settings, StoresOK
<1> QED
  BY <1>2, <1>3, <1>4, <1>5, <1>6, <1>7, <1>8, <1>9, TurnStep DEF Next

----------------------------------------------------------------------------
(* The turns.                                                              *)

LEMMA CopyTyped ==
  ASSUME NEW old, Complete(old), NEW new, Complete(new), NEW copy \in CopiesOf(old, new)
  PROVE  copy \in Copies
<1>1. ASSUME NEW c, Complete(c)
      PROVE  /\ Engine(c).read \in Values["read"] /\ Engine(c).act \in Values["act"]
             /\ Engine(c).rule \in Values["rule"] \cup {""} /\ Engine(c).full \in BOOLEAN
             /\ Mode(c) \in {"ask", "manual", "full"}
  <2>1. /\ c["read"] \in Values["read"] /\ c["act"] \in Values["act"]
        /\ c["rule"] \in Values["rule"] \cup {""}
    BY <1>1 DEF Complete, IsConfig, IsFile, Filling, Fields
  <2> QED
    BY <2>1 DEF Engine, Mode
<1>2. "unknown" \in Values["read"] /\ "unknown" \in Values["act"]
  BY DEF Values
<1>3. Mixed(Engine(old), Engine(new)) \subseteq Engines
  <2>1. /\ Either(Engine(old).read, Engine(new).read) \subseteq Values["read"]
        /\ Either(Engine(old).act, Engine(new).act) \subseteq Values["act"]
    BY <1>1, <1>2 DEF Either
  <2>2. /\ {Engine(new).rule} \subseteq Values["rule"] \cup {""}
        /\ {Engine(old).full, Engine(new).full} \subseteq BOOLEAN
    BY <1>1
  <2> QED
    BY <2>1, <2>2 DEF Mixed, Engines
<1>4. {Mode(old), Mode(new)} \in SUBSET {"ask", "manual", "full"}
  BY <1>1
<1> QED
  BY <1>3, <1>4 DEF CopiesOf, Copies

\* Outside a change of the settings, the copy is the engine in force.
LEMMA CopyMade ==
  ASSUME InForce
  PROVE  [engine |-> engine, modes |-> {Mode(config)}] \in CopiesOf(config, config)
<1>1. Engine(config) \in Mixed(Engine(config), Engine(config))
  BY DEF Mixed, Either, Engine
<1> QED
  BY <1>1 DEF CopiesOf, InForce

LEMMA TurnsNext ==
  ASSUME InForce, TurnsOK, [Next]_vars
  PROVE  TurnsOK'
<1>1. ASSUME NEW place \in Typed, NEW model \in {""} \cup Models, NEW env \in {"", "VARIABLE"},
             NEW mode \in Modes, UpdateSettings(place, model, env, mode)
      PROVE  TurnsOK'
  <2> DEFINE c == Updated(place, model, env, mode)
  <2>1. Complete(c)
    BY UpdatedComplete DEF InForce
  <2> HIDE DEF c
  <2>2. CASE UNCHANGED turns
    BY <2>2 DEF TurnsOK
  <2>3. CASE TurnsBeginDuring(c)
    <3>1. PICK begun \in SUBSET {t \in Turns : turns[t] = None} :
            \E copy \in [begun -> CopiesOf(config, c)] :
              turns' = [t \in Turns |-> IF t \in begun THEN copy[t] ELSE turns[t]]
      BY <2>3 DEF TurnsBeginDuring, CopiesOf, InForce
    <3>2. PICK copy \in [begun -> CopiesOf(config, c)] :
            turns' = [t \in Turns |-> IF t \in begun THEN copy[t] ELSE turns[t]]
      BY <3>1
    <3>3. ASSUME NEW t \in begun
          PROVE  copy[t] \in CopiesOf(config, c) /\ copy[t] \in Copies
      BY <2>1, CopyTyped DEF InForce
    <3>4. ASSUME NEW t \in Turns, turns'[t] # None
          PROVE  \E old, new : Complete(old) /\ Complete(new) /\ turns'[t] \in CopiesOf(old, new)
      BY <2>1, <3>2, <3>3, <3>4 DEF TurnsOK, InForce
    <3>5. turns' \in [Turns -> {None} \cup Copies]
      BY <3>2, <3>3 DEF TurnsOK
    <3> QED
      BY <3>4, <3>5 DEF TurnsOK
  <2> QED
    BY <1>1, <2>2, <2>3 DEF UpdateSettings, c
<1>2. ASSUME NEW t \in Turns, BeginTurn(t)
      PROVE  TurnsOK'
  <2> DEFINE copy == [engine |-> engine, modes |-> {Mode(config)}]
  <2>1. copy \in CopiesOf(config, config) /\ copy \in Copies
    BY CopyMade, CopyTyped DEF InForce
  <2>2. turns' = [turns EXCEPT ![t] = copy]
    BY <1>2 DEF BeginTurn
  <2> HIDE DEF copy
  <2> QED
    BY <2>1, <2>2 DEF TurnsOK, InForce
<1>3. ASSUME NEW t \in Turns, EndTurn(t)
      PROVE  TurnsOK'
  BY <1>3 DEF EndTurn, TurnsOK
<1>4. CASE Restart
  BY <1>4 DEF Restart, TurnsOK
<1>5. CASE UNCHANGED turns
  BY <1>5 DEF TurnsOK
<1>6. ASSUME NEW id \in Accounts, NEW content \in Contents, NEW withKey \in BOOLEAN,
             SaveModelProfile(id, content, withKey)
      PROVE  UNCHANGED turns
  BY <1>6 DEF SaveModelProfile
<1>7. ASSUME NEW id \in Accounts, SelectModelProfile(id)
      PROVE  UNCHANGED turns
  BY <1>7 DEF SelectModelProfile
<1>8. PersistFile \/ PersistRow \/ PersistRowFails => UNCHANGED turns
  BY DEF PersistFile, PersistRow, PersistRowFails
<1> QED
  BY <1>1, <1>2, <1>3, <1>4, <1>5, <1>6, <1>7, <1>8, TurnStep DEF Next

----------------------------------------------------------------------------
(* The file and the row.                                                   *)

LEMMA FileNext ==
  ASSUME InForce, StoresOK, FileAgrees, [Next]_vars
  PROVE  FileAgrees'
<1>1. ASSUME NEW place \in Typed, NEW model \in {""} \cup Models, NEW env \in {"", "VARIABLE"},
             NEW mode \in Modes, UpdateSettings(place, model, env, mode)
      PROVE  FileAgrees'
  <2> DEFINE c == Updated(place, model, env, mode)
  <2>1. Complete(c) /\ Validate(c, FALSE)
    BY <1>1, UpdatedComplete DEF InForce, UpdateSettings
  <2> HIDE DEF c
  <2>2. Load(c, Missing) = c
    BY <2>1, LoadSelf
  <2>3. CASE Saved(c) /\ config' = c
    BY <1>1, <2>2, <2>3 DEF UpdateSettings, FileAgrees, Saved
  <2>4. CASE SaveFails /\ UNCHANGED config
    <3>1. job = None /\ job' = None
      BY <1>1 DEF UpdateSettings
    <3>2. CASE UNCHANGED <<file, torn>>
      BY <2>4, <3>1, <3>2 DEF FileAgrees
    <3>3. CASE torn' = TRUE
      BY <3>1, <3>3 DEF FileAgrees
    <3> QED
      BY <2>4, <3>2, <3>3 DEF SaveFails
  <2> QED
    BY <1>1, <2>3, <2>4 DEF UpdateSettings, c
<1>2. ASSUME NEW id \in Accounts, NEW content \in Contents, NEW withKey \in BOOLEAN,
             SaveModelProfile(id, content, withKey)
      PROVE  FileAgrees'
  BY <1>2 DEF SaveModelProfile, Persist, FileAgrees
<1>3. ASSUME NEW id \in Accounts, SelectModelProfile(id)
      PROVE  FileAgrees'
  BY <1>3 DEF SelectModelProfile, Persist, FileAgrees
<1>4. CASE PersistFile
  <2>1. CASE Validate(Target, FALSE) /\ Saved(Target) /\ job' = [job EXCEPT !.at = "row"]
    <3>1. job'.at = "row" /\ job'.catalog = job.catalog
      BY <1>4, <2>1, JobParts DEF PersistFile, StoresOK
    <3>2. Target' = Target
      BY <1>4, <3>1 DEF PersistFile, Target
    <3>3. job' # None
      BY <1>4, <2>1, JobParts DEF PersistFile, StoresOK
    <3>4. file' = Target' /\ Validate(Target, FALSE)' /\ torn' = FALSE
      BY <2>1, <3>2 DEF Saved
    <3> QED
      BY <3>1, <3>3, <3>4 DEF FileAgrees
  <2>2. CASE SaveFails /\ job' = None
    BY <1>4, <2>2 DEF PersistFile, SaveFails, FileAgrees
  <2>3. CASE job' = None /\ UNCHANGED <<file, torn>>
    BY <1>4, <2>3 DEF PersistFile, FileAgrees
  <2> QED
    BY <1>4, <2>1, <2>2, <2>3 DEF PersistFile
<1>5. CASE PersistRow
  <2>1. Load(Target, Missing) = Target
    BY <1>5, TargetComplete, LoadSelf DEF PersistRow, FileAgrees
  <2> QED
    BY <1>5, <2>1 DEF PersistRow, FileAgrees
<1>6. CASE PersistRowFails
  BY <1>6 DEF PersistRowFails, FileAgrees
<1>7. CASE Restart
  BY <1>7 DEF Restart, FileAgrees
<1>8. CASE UNCHANGED settings
  BY <1>8 DEF settings, FileAgrees, Target
<1> QED
  BY <1>1, <1>2, <1>3, <1>4, <1>5, <1>6, <1>7, <1>8, TurnStep DEF Next

LEMMA RowNext ==
  ASSUME InForce, StoresOK, RowAgrees, [Next]_vars
  PROVE  RowAgrees'
<1>1. ASSUME NEW place \in Typed, NEW model \in {""} \cup Models, NEW env \in {"", "VARIABLE"},
             NEW mode \in Modes, UpdateSettings(place, model, env, mode)
      PROVE  RowAgrees'
  <2>1. row' = row
    BY <1>1 DEF UpdateSettings
  <2>2. CASE UNCHANGED <<config, detached>>
    BY <2>1, <2>2 DEF RowAgrees, FromConfig
  <2>3. CASE ~detached' /\ row # None => ~detached /\ FromConfig(config)' = FromConfig(config)
    BY <2>1, <2>3 DEF RowAgrees
  <2> QED
    BY <1>1, <2>2, <2>3 DEF UpdateSettings
<1>2. ASSUME NEW id \in Accounts, NEW content \in Contents, NEW withKey \in BOOLEAN,
             SaveModelProfile(id, content, withKey)
      PROVE  RowAgrees'
  BY <1>2 DEF SaveModelProfile, RowAgrees
<1>3. ASSUME NEW id \in Accounts, SelectModelProfile(id)
      PROVE  RowAgrees'
  BY <1>3 DEF SelectModelProfile, RowAgrees
<1>4. CASE PersistFile \/ PersistRowFails
  BY <1>4 DEF PersistFile, PersistRowFails, RowAgrees
<1>5. CASE PersistRow
  BY <1>5, TargetComplete DEF PersistRow, RowAgrees
<1>6. CASE Restart
  BY <1>6 DEF Restart, RowAgrees
<1>7. CASE UNCHANGED settings
  BY <1>7 DEF settings, RowAgrees
<1> QED
  BY <1>1, <1>2, <1>3, <1>4, <1>5, <1>6, <1>7, TurnStep DEF Next

----------------------------------------------------------------------------
(* The references to keys.                                                 *)

LEMMA NoKeyFits ==
  ASSUME NEW id \in Accounts, NEW protocol
  PROVE  Fits(keys, spoiled, id, protocol, "")
BY ZeroAssumption DEF Fits, Found

LEMMA ShownFits ==
  ASSUME InForce, StoresOK, References
  PROVE  CatalogFits(keys, spoiled, Catalog)
<1>1. CASE row # None
  BY <1>1, CatalogTyped DEF References
<1>2. CASE row = None /\ DOMAIN Catalog.profiles = {}
  BY <1>2 DEF CatalogFits
<1>3. CASE row = None /\ DOMAIN Catalog.profiles # {}
  <2>1. DOMAIN Catalog.profiles = {"default"} /\ Catalog.profiles["default"] = FromConfig(config)
    BY <1>3, CatalogTyped
  <2>2. FromConfig(config).protocol = config["protocol"] /\ FromConfig(config).key = config["key"]
    BY DEF FromConfig, Provider
  <2> QED
    BY <1>3, <2>1, <2>2 DEF References, ConfigFits, CatalogFits
<1> QED
  BY <1>1, <1>2, <1>3

LEMMA KeyTyped ==
  ASSUME NEW c, Complete(c)
  PROVE  c["key"] \in Accounts \cup {""}
<1>1. c["key"] \in Values["key"] \cup {""}
  BY DEF Complete, IsConfig, IsFile, Fields
<1> QED
  BY <1>1 DEF Values

\* A new key takes nothing from a reference that fits.
LEMMA FitsAfterSave ==
  ASSUME StoresOK, NEW id \in Accounts, NEW content \in Contents, NEW withKey \in BOOLEAN,
         SaveModelProfile(id, content, withKey),
         NEW a \in Accounts, NEW protocol, NEW account \in Accounts \cup {""}
  PROVE  /\ Found(keys, account) => Found(keys', account)
         /\ Fits(keys, spoiled, a, protocol, account) => Fits(keys', spoiled', a, protocol, account)
<1>1. content.protocol # None
  BY InputAssumption, NoneAssumption
<1>2. CASE withKey
  BY <1>1, <1>2 DEF SaveModelProfile, StoresOK, Fits, Found
<1>3. CASE ~withKey
  BY <1>3 DEF SaveModelProfile, Fits, Found
<1> QED
  BY <1>2, <1>3

LEMMA ReferencesSave ==
  ASSUME InForce, StoresOK, References,
         NEW id \in Accounts, NEW content \in Contents, NEW withKey \in BOOLEAN,
         SaveModelProfile(id, content, withKey)
  PROVE  References'
<1> DEFINE p == Filled(id, content, withKey)
           ids == DOMAIN Catalog.profiles \cup {id}
           profiles == [a \in ids |-> IF a = id THEN p ELSE Catalog.profiles[a]]
<1>1. /\ UNCHANGED <<file, config, row>>
      /\ job' = [at |-> "file", catalog |-> [active |-> id, profiles |-> profiles], fresh |-> withKey]
  BY DEF SaveModelProfile, Persist
<1>2. ASSUME NEW c, Complete(c), ConfigFits(row, keys, spoiled, c), UNCHANGED row
      PROVE  /\ Found(keys', c["key"])
             /\ row = None => Fits(keys', spoiled', "default", c["protocol"], c["key"])
  BY <1>2, KeyTyped, FitsAfterSave, DefaultProfile DEF ConfigFits
<1>3. ConfigFits(row', keys', spoiled', config')
  BY <1>1, <1>2 DEF InForce, References, ConfigFits
<1>4. ConfigFits(row', keys', spoiled', Load(file', Missing))
  BY <1>1, <1>2, LoadComplete DEF InForce, References, ConfigFits
<1>5. ASSUME NEW catalog, IsCatalog(catalog), CatalogFits(keys, spoiled, catalog),
             NEW a \in DOMAIN catalog.profiles
      PROVE  Fits(keys', spoiled', a, catalog.profiles[a].protocol, catalog.profiles[a].key)
  <2>1. a \in Accounts /\ catalog.profiles[a].key \in Accounts \cup {""}
    BY <1>5, CatalogParts DEF Profile
  <2> QED
    BY <1>5, <2>1, FitsAfterSave DEF CatalogFits
<1>6. row # None => CatalogFits(keys', spoiled', row')
  BY <1>1, <1>5 DEF StoresOK, References, CatalogFits
<1>7. p.protocol = content.protocol
  BY DEF Filled
<1>8. Fits(keys', spoiled', id, p.protocol, p.key)
  <2>1. CASE withKey
    <3>1. p.key = id /\ keys'[id] = content.protocol /\ id \in spoiled'
      BY <2>1 DEF Filled, SaveModelProfile, StoresOK
    <3>2. content.protocol # None
      BY InputAssumption, NoneAssumption
    <3> QED
      BY <3>1, <3>2 DEF Fits, Found
  <2>2. CASE ~withKey /\ id \in DOMAIN Catalog.profiles
                      /\ Catalog.profiles[id].protocol = content.protocol
    <3>1. p.key = Catalog.profiles[id].key
      BY <2>2 DEF Filled
    <3>2. IsCatalog(Catalog)
      BY <2>2, CatalogTyped
    <3>3. Fits(keys', spoiled', id, Catalog.profiles[id].protocol, Catalog.profiles[id].key)
      BY <2>2, <3>2, <1>5, ShownFits
    <3> QED
      BY <1>7, <2>2, <3>1, <3>3 DEF Fits, Found
  <2>3. CASE ~withKey /\ ~(id \in DOMAIN Catalog.profiles
                           /\ Catalog.profiles[id].protocol = content.protocol)
    <3>1. p.key = ""
      BY <2>3 DEF Filled
    <3> QED
      BY <3>1, ZeroAssumption DEF Fits, Found
  <2> QED
    BY <2>1, <2>2, <2>3
<1>9. ASSUME NEW a \in ids
      PROVE  Fits(keys', spoiled', a, profiles[a].protocol, profiles[a].key)
  <2>1. CASE a = id
    BY <1>8, <2>1
  <2>2. CASE a # id
    <3>1. a \in DOMAIN Catalog.profiles /\ IsCatalog(Catalog)
      BY <2>2, CatalogTyped
    <3>2. Fits(keys', spoiled', a, Catalog.profiles[a].protocol, Catalog.profiles[a].key)
      BY <3>1, <1>5, ShownFits
    <3> QED
      BY <2>2, <3>2
  <2> QED
    BY <2>1, <2>2
<1>10. withKey => keys'[id] = profiles[id].protocol
  BY <1>7 DEF SaveModelProfile, StoresOK
<1>11. DOMAIN profiles = ids
  OBVIOUS
<1> HIDE DEF profiles, ids
<1> QED
  BY <1>1, <1>3, <1>4, <1>6, <1>9, <1>10, <1>11 DEF References, CatalogFits

LEMMA ReferencesNext ==
  ASSUME InForce, StoresOK, FileAgrees, References, [Next]_vars
  PROVE  References'
<1>1. ASSUME NEW place \in Typed, NEW model \in {""} \cup Models, NEW env \in {"", "VARIABLE"},
             NEW mode \in Modes, UpdateSettings(place, model, env, mode)
      PROVE  References'
  <2> DEFINE c == Updated(place, model, env, mode)
  <2>1. Complete(c) /\ c["protocol"] = config["protocol"] /\ c["key"] \in {config["key"], ""}
    BY UpdatedComplete DEF InForce
  <2>2. Validate(c, FALSE) /\ UNCHANGED <<row, keys, job, spoiled>>
    BY <1>1 DEF UpdateSettings
  <2>3. \/ file' = c /\ config' = c
        \/ file' \in {file, Missing, None} /\ config' = config
    BY <1>1 DEF UpdateSettings, Saved, SaveFails
  <2> HIDE DEF c
  <2>4. ConfigFits(row', keys', spoiled', c)
    BY <2>1, <2>2, NoKeyFits, DefaultProfile DEF References, ConfigFits, Fits, Found
  <2>5. /\ ConfigFits(row', keys', spoiled', config')
        /\ ConfigFits(row', keys', spoiled', Load(file', Missing))
    <3>1. Load(c, Missing) = c
      BY <2>1, <2>2, LoadSelf
    <3>2. CASE file' = c /\ config' = c
      BY <2>4, <3>1, <3>2 DEF ConfigFits
    <3>3. CASE file' = file /\ config' = config
      BY <2>2, <3>3 DEF References, ConfigFits, Fits, Found
    <3>4. CASE file' \in {Missing, None} /\ config' = config
      <4>1. Load(file', Missing)["key"] = ""
        BY <3>4, LoadNothing
      <4> QED
        BY <2>2, <3>4, <4>1, ZeroAssumption DEF References, ConfigFits, Fits, Found
    <3> QED
      BY <2>3, <3>2, <3>3, <3>4
  <2> QED
    BY <2>2, <2>5 DEF References, CatalogFits, Fits, Found
<1>2. ASSUME NEW id \in Accounts, NEW content \in Contents, NEW withKey \in BOOLEAN,
             SaveModelProfile(id, content, withKey)
      PROVE  References'
  BY <1>2, ReferencesSave
<1>3. ASSUME NEW id \in Accounts, SelectModelProfile(id)
      PROVE  References'
  <2>1. IsCatalog(Catalog) /\ CatalogFits(keys, spoiled, Catalog)
    BY <1>3, CatalogTyped, ShownFits DEF SelectModelProfile
  <2>2. job'.catalog.profiles = Catalog.profiles /\ job'.fresh = FALSE
    <3>1. [Catalog EXCEPT !.active = id].profiles = Catalog.profiles
      BY <2>1, CatalogParts
    <3> QED
      BY <1>3, <3>1 DEF SelectModelProfile, Persist
  <2>3. CatalogFits(keys, spoiled, job'.catalog)
    BY <2>1, <2>2 DEF CatalogFits
  <2> QED
    BY <1>3, <2>2, <2>3 DEF SelectModelProfile, References
<1>4. CASE PersistFile
  <2>1. UNCHANGED <<config, row, keys, spoiled>>
        /\ (job' # None => job'.catalog = job.catalog /\ job'.fresh = job.fresh)
    BY <1>4, JobParts DEF PersistFile, StoresOK
  <2>2. ConfigFits(row', keys', spoiled', Load(file', Missing))
    <3>1. CASE Validate(Target, FALSE) /\ file' = Target
      <4> DEFINE p == job.catalog.profiles[job.catalog.active]
      <4>1. Load(Target, Missing) = Target /\ Target["key"] = p.key /\ Target["protocol"] = p.protocol
        BY <1>4, <3>1, TargetComplete, LoadSelf DEF PersistFile
      <4>2. Fits(keys, spoiled, job.catalog.active, p.protocol, p.key)
        BY <1>4, JobParts, CatalogParts DEF PersistFile, StoresOK, References, CatalogFits
      <4> QED
        BY <2>1, <3>1, <4>1, <4>2 DEF ConfigFits, Fits, Found
    <3>2. CASE file' = file
      BY <2>1, <3>2 DEF References, ConfigFits, Fits, Found
    <3>3. CASE file' \in {Missing, None}
      <4>1. Load(file', Missing)["key"] = ""
        BY <3>3, LoadNothing
      <4> QED
        BY <4>1, ZeroAssumption, DefaultProfile DEF ConfigFits, Fits, Found
    <3> QED
      BY <1>4, <3>1, <3>2, <3>3 DEF PersistFile, Saved, SaveFails
  <2> QED
    BY <1>4, <2>1, <2>2 DEF PersistFile, References
<1>5. CASE PersistRow
  <2> DEFINE active == job.catalog.active
             p == job.catalog.profiles[active]
  <2>1. IsCatalog(job.catalog) /\ CatalogFits(keys, spoiled, job.catalog) /\ job.catalog # None
    BY <1>5, JobParts, CatalogParts DEF PersistRow, StoresOK, References
  <2>2. active \in DOMAIN job.catalog.profiles /\ Found(keys, p.key) /\ Target["key"] = p.key
    BY <1>5, <2>1, CatalogParts, TargetComplete DEF PersistRow, CatalogFits, Fits
  <2>3. Load(file, Missing)' = config'
    BY <1>5, TargetComplete, LoadSelf DEF PersistRow, FileAgrees
  <2>4. /\ ConfigFits(row', keys', spoiled', config')
        /\ ConfigFits(row', keys', spoiled', Load(file', Missing))
    BY <1>5, <2>1, <2>2, <2>3 DEF PersistRow, ConfigFits, Found
  <2>5. ASSUME NEW a \in DOMAIN job.catalog.profiles
        PROVE  Fits(keys', spoiled', a, job.catalog.profiles[a].protocol, job.catalog.profiles[a].key)
    <3>1. Fits(keys, spoiled, a, job.catalog.profiles[a].protocol, job.catalog.profiles[a].key)
      BY <2>1 DEF CatalogFits
    <3>2. keys' = keys /\ (a \in spoiled => a \in spoiled' \/ (job.fresh /\ a = active))
      BY <1>5 DEF PersistRow
    <3>3. job.fresh => keys[active] = p.protocol
      BY <1>5 DEF PersistRow, References
    <3> QED
      BY <3>1, <3>2, <3>3 DEF Fits, Found
  <2>6. CatalogFits(keys', spoiled', row')
    BY <1>5, <2>5 DEF PersistRow, CatalogFits
  <2> QED
    BY <1>5, <2>4, <2>6 DEF PersistRow, References
<1>6. CASE PersistRowFails
  BY <1>6 DEF PersistRowFails, References, ConfigFits, CatalogFits, Fits, Found
<1>7. CASE Restart
  BY <1>7 DEF Restart, References, ConfigFits, CatalogFits, Fits, Found
<1>8. CASE UNCHANGED settings
  BY <1>8 DEF settings, References, ConfigFits, CatalogFits, Fits, Found
<1> QED
  BY <1>1, <1>2, <1>3, <1>4, <1>5, <1>6, <1>7, <1>8, TurnStep DEF Next

----------------------------------------------------------------------------
(* The theorems.                                                           *)

LEMMA InvCorrect == Spec => []Inv
<1>1. Inv /\ [Next]_vars => Inv'
  BY ForceNext, StoresNext, TurnsNext, FileNext, RowNext, ReferencesNext DEF Inv
<1> QED
  BY <1>1, InitInv, PTL DEF Spec

\* The types, with the engine following the configuration.
THEOREM TypeCorrect == Spec => []TypeOK
<1>1. Inv => TypeOK
  BY DEF Inv, InForce, StoresOK, TurnsOK, Complete, TypeOK
<1> QED
  BY <1>1, InvCorrect, PTL

\* What the next start reads is what is in force, unless the last write failed.
THEOREM SurviveCorrect == Spec => []SettingsSurvive
<1>1. Inv => SettingsSurvive
  BY DEF Inv, FileAgrees, SettingsSurvive
<1> QED
  BY <1>1, InvCorrect, PTL

\* The profile shown as active is the provider in force.
THEOREM ActiveCorrect == Spec => []ActiveIsUsed
<1>1. Inv => ActiveIsUsed
  <2> SUFFICES ASSUME Inv, ~detached, Catalog.active # None
               PROVE  Catalog.profiles[Catalog.active] = FromConfig(config)
    BY DEF ActiveIsUsed
  <2>1. InForce /\ StoresOK /\ RowAgrees
    BY DEF Inv
  <2> QED
    BY <2>1, CatalogTyped DEF RowAgrees
<1> QED
  BY <1>1, InvCorrect, PTL

\* Every key referred to exists, and is of its profile's protocol.
THEOREM KeysCorrect == Spec => []KeysFit
<1>1. Inv => KeysFit
  <2> SUFFICES ASSUME Inv
               PROVE  KeysFit
    OBVIOUS
  <2>1. CatalogFits(keys, spoiled, Catalog) /\ Found(keys, Load(file, Missing)["key"])
    BY ShownFits DEF Inv, References, ConfigFits
  <2> QED
    BY <2>1 DEF KeysFit, CatalogFits, Fits, Found, KeyFound
<1> QED
  BY <1>1, InvCorrect, PTL

\* What a turn may do unasked was allowed by the mode in force when it began,
\* for any number of turns and changes of the mode, and for a turn that copied
\* a half-made change.
THEOREM ModeCorrect == Spec => []ModeIsHonoured
<1>1. ASSUME NEW old, NEW new, NEW copy \in CopiesOf(old, new),
             NEW call \in Call, RunsUnasked(copy.engine, call)
      PROVE  /\ ~call.forbidden
             /\ ~call.readOnly => "full" \in copy.modes
             /\ copy.modes = {"manual"} => call.matches /\ copy.engine.rule = "allow"
  <2> DEFINE e == copy.engine
  <2>1. /\ e \in Mixed(Engine(old), Engine(new))
        /\ copy.modes = {Mode(old), Mode(new)}
    BY DEF CopiesOf
  <2>2. /\ e.read \in Either(old["read"], new["read"])
        /\ e.full \in {Engine(old).full, Engine(new).full}
    BY <2>1 DEF Mixed, Engine
  <2>3. /\ Engine(old).full => Mode(old) = "full"
        /\ Engine(new).full => Mode(new) = "full"
    BY DEF Engine, Mode
  <2> HIDE DEF e
  <2>4. ~call.forbidden
    BY <1>1 DEF RunsUnasked, Evaluate
  <2>5. ~call.readOnly => "full" \in copy.modes
    <3>1. ~call.readOnly => e.full
      BY <1>1 DEF RunsUnasked, Asks, e
    <3> QED
      BY <2>1, <2>2, <2>3, <3>1
  <2>6. ASSUME copy.modes = {"manual"}
        PROVE  call.matches /\ e.rule = "allow"
    <3>1. Mode(old) = "manual" /\ Mode(new) = "manual"
      BY <2>1, <2>6
    <3>2. e.read = "ask"
      BY <2>2, <3>1 DEF Mode, Either
    <3>3. call.readOnly
      BY <2>5, <2>6 DEF Call
    <3> QED
      BY <1>1, <2>4, <3>2, <3>3
      DEF RunsUnasked, Asks, Evaluate, DefaultDecision, Decisions, Call, e
  <2> QED
    BY <2>4, <2>5, <2>6 DEF e
<1>2. Inv => ModeIsHonoured
  <2> SUFFICES ASSUME TurnsOK
               PROVE  ModeIsHonoured
    BY DEF Inv
  <2>1. ASSUME NEW t \in Turns, turns[t] # None
        PROVE  \E old, new : turns[t] \in CopiesOf(old, new)
    BY <2>1 DEF TurnsOK
  <2> QED
    BY <1>1, <2>1 DEF ModeIsHonoured
<1> QED
  BY <1>2, InvCorrect, PTL

=============================================================================
