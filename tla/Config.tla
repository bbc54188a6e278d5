------------------------------- MODULE Config -------------------------------
(***************************************************************************)
(* The configuration (internal/server/config and the handlers that change  *)
(* it): one row per setting in the database, the configuration the process *)
(* works with, and the copy of the last saved one that a restore uses.     *)
(*                                                                         *)
(* A request loads every row, lays its changes over them, validates the    *)
(* result, writes it back one row at a time outside any transaction, and   *)
(* only then replaces the configuration in memory.  Nothing keeps two      *)
(* requests apart.                                                         *)
(***************************************************************************)
EXTENDS Integers, FiniteSets

CONSTANTS
  Admin,            \* goroutines of the handlers that change the configuration
  Setting,          \* the settings other than the ETag; "idle" and "pool" stand
                    \* for db_min_idle_connections and db_max_pool_size
  Default,          \* DefaultConfig: a value for every setting
  Form,             \* the changes a form, an import or a theme choice can make
  CliValue,         \* settings given on the command line or in the environment
  YamlValue,        \* settings given in a YAML file
                    \* (-1, in these three, is a text the setting's field refuses)
  RestartSetting,   \* the fields marked restart
  MaxNumber,        \* the largest number of an ETag that still parses (99)
  MaxDay, MaxRequests, MaxSaveFaults, MaxRestarts   \* bounds of the model

ASSUME ConfigAssumption ==
  /\ {"idle", "pool"} \subseteq Setting /\ "etag" \notin Setting /\ RestartSetting \subseteq Setting
  /\ Default \in [Setting -> Nat] /\ Default["idle"] <= Default["pool"]
  /\ \A given \in Form \cup {CliValue, YamlValue} :
       DOMAIN given \subseteq Setting /\ given \in [DOMAIN given -> Int]
  /\ {MaxNumber, MaxDay} \subseteq Nat

VARIABLES
  stored,           \* the rows of the config table
  lastKnownGood,    \* the row LastKnownGoodConfig; no setting at first
  memory,           \* ConfigManager.Config
  running,          \* what the process was built with: the pools, the limiters, the
                    \* listener, whatever nothing applies again
  served,           \* ui.cacheVersion
  restartNeeded,    \* the flag of RuntimeManager
  request,          \* one record per handler
  today, asked, saveFaults, restarts
configVars == <<stored, lastKnownGood, memory, running, served, restartNeeded,
                request, today, asked, saveFaults, restarts>>

Tag == "etag"
ConfigKey == Setting \cup {Tag}
Quiet == [step |-> "idle", op |-> "none", old |-> <<>>, new |-> <<>>, left |-> {}]
----------------------------------------------------------------------------
(* IncrementETagVersion: a version of another day, or one whose number no
   longer has two digits, starts again at today's first. *)
IncrementETagVersion(tag) ==
  IF tag.day = today /\ tag.number <= MaxNumber
    THEN [tag EXCEPT !.number = @ + 1]
    ELSE [day |-> today, number |-> 1]

Validate(cfg) == cfg["idle"] <= cfg["pool"]

(* restartRequiredKeys: compared with the rows the request loaded, not with
   what the process runs with. *)
RestartKeys(r) == {k \in RestartSetting : r.old[k] # r.new[k]}

(* The set function of a field: parse and validate, then assign. *)
Accepts(k, v) == v >= 0
FormAccepted(form) == \A k \in DOMAIN form : Accepts(k, form[k])

(* LoadFromOptExcluding: a value its field refuses is only warned about. *)
CliKeys == {k \in DOMAIN CliValue : Accepts(k, CliValue[k])}
WithCli(cfg, exclude) ==
  [k \in ConfigKey |-> IF k \in CliKeys \ exclude THEN CliValue[k] ELSE cfg[k]]

(* MergeDefaults: a setting whose value is its type's zero gets the default. *)
MergeDefaults(cfg) ==
  [k \in ConfigKey |-> IF k # Tag /\ cfg[k] = 0 THEN Default[k] ELSE cfg[k]]

(* LoadFromYAML: the keys are applied in the order of a map, and the first
   value its field refuses ends the file; what came before stays. *)
YamlKeys == {k \in DOMAIN YamlValue : Accepts(k, YamlValue[k])}
LoadFromYAML(cfg) ==
  LET applied == IF YamlKeys = DOMAIN YamlValue THEN {YamlKeys} ELSE SUBSET YamlKeys IN
  {[k \in ConfigKey |-> IF k \in S THEN YamlValue[k] ELSE cfg[k]] : S \in applied}

(* Load at start: defaults, database, YAML files, command line. *)
StartValues(rows) ==
  {MergeDefaults(WithCli(cfg, {})) : cfg \in LoadFromYAML(MergeDefaults(rows))}

(* App.Serve lays the command line over the loaded configuration once more,
   after the handlers were built with it: a zero the merge took for a missing
   value is in memory, and what was built has the default. *)
Served(cfg) == WithCli(cfg, {})

Configuration(cfg) ==
  /\ DOMAIN cfg = ConfigKey /\ \A k \in Setting : cfg[k] \in Nat
  /\ cfg[Tag] \in [day: 0 .. MaxDay, number: 0 .. MaxNumber + 1]

Becomes(a, r) == request' = [request EXCEPT ![a] = r]
Advances(a, step) == Becomes(a, [request[a] EXCEPT !.step = step])
Ends(a) == Becomes(a, Quiet)
----------------------------------------------------------------------------
ConfigInit ==
  /\ stored = [k \in ConfigKey |->                             \* EnsureDefaults
                 IF k = Tag THEN [day |-> 0, number |-> 0] ELSE Default[k]]
  /\ lastKnownGood = <<>>
  /\ running \in StartValues(stored) /\ memory = Served(running)
  /\ served = memory[Tag]
  /\ restartNeeded = FALSE
  /\ request = [a \in Admin |-> Quiet]
  /\ today = 0 /\ asked = 0 /\ saveFaults = 0 /\ restarts = 0

(* Load, and the candidate built from it: ConfigPost, the import and the
   themes handler lay the form over what they loaded, and stop at one with a
   value its field refuses; a restore takes the last known good configuration;
   IncrementETag changes the version, in a handler or in another process
   started with -increment-etag. *)
Overlaid(form) == [k \in ConfigKey |-> IF k \in DOMAIN form THEN form[k] ELSE stored[k]]
RestoreLastKnownGood == IF lastKnownGood = <<>> THEN {} ELSE {lastKnownGood}
Candidates(op) ==
  CASE op = "post"    -> {Overlaid(form) : form \in {g \in Form : FormAccepted(g)}}
    [] op = "restore" -> RestoreLastKnownGood
    [] OTHER          -> {[stored EXCEPT ![Tag] = IncrementETagVersion(@)]}
RequestLoads(a) ==
  /\ request[a].step = "idle" /\ asked < MaxRequests
  /\ \E op \in {"post", "restore", "etag", "cli"} : \E new \in Candidates(op) :
       Becomes(a, [step |-> "built", op |-> op, old |-> stored, new |-> new, left |-> {}])
  /\ asked' = asked + 1
  /\ UNCHANGED <<stored, lastKnownGood, memory, running, served, restartNeeded,
                 today, saveFaults, restarts>>

(* Validate: an invalid candidate is refused and nothing is written. *)
RequestValidates(a) ==
  /\ request[a].step = "built"
  /\ IF Validate(request[a].new)
       THEN Becomes(a, [request[a] EXCEPT !.step = "saving", !.left = ConfigKey])
       ELSE Ends(a)
  /\ UNCHANGED <<stored, lastKnownGood, memory, running, served, restartNeeded,
                 today, asked, saveFaults, restarts>>

(* SaveToDatabase: an upsert for each setting in the order of a map; one that
   fails ends the request and leaves the rows written so far. *)
RequestSaves(a) ==
  /\ request[a].step = "saving" /\ request[a].left # {}
  /\ \/ \E k \in request[a].left :
          /\ stored' = [stored EXCEPT ![k] = request[a].new[k]]
          /\ Becomes(a, [request[a] EXCEPT !.left = @ \ {k}])
          /\ UNCHANGED saveFaults
     \/ /\ saveFaults < MaxSaveFaults /\ saveFaults' = saveFaults + 1
        /\ Ends(a) /\ UNCHANGED stored
  /\ UNCHANGED <<lastKnownGood, memory, running, served, restartNeeded,
                 today, asked, restarts>>
\* Faulty variant: the copy is read back from the rows.
RecoverySavedFromRows(a) ==
  /\ request[a].step = "saving" /\ request[a].left = {}
  /\ lastKnownGood' = stored
  /\ Advances(a, "saved")
  /\ UNCHANGED <<stored, memory, running, served, restartNeeded, today, asked,
                 saveFaults, restarts>>
(* ... and last the whole configuration under one key; a failure there is
   only logged. *)
RecoverySaved(a) ==
  /\ request[a].step = "saving" /\ request[a].left = {}
  /\ \/ lastKnownGood' = request[a].new /\ UNCHANGED saveFaults
     \/ /\ saveFaults < MaxSaveFaults /\ saveFaults' = saveFaults + 1
        /\ UNCHANGED lastKnownGood
  /\ Advances(a, "saved")
  /\ UNCHANGED <<stored, memory, running, served, restartNeeded, today, asked, restarts>>

\* Faulty variant: the command line is not laid over the update.
RequestUpdatesBare(a) ==
  /\ request[a].step = "saved" /\ request[a].op # "cli"
  /\ memory' = request[a].new
  /\ Advances(a, "updated")
  /\ UNCHANGED <<stored, lastKnownGood, running, served, restartNeeded, today,
                 asked, saveFaults, restarts>>
(* UpdateConfigWithPrecedence: the command line's values are laid over it
   again, except for restart settings this request changed; those of the YAML
   files are not.  The ETag handler loads the rows once more first.  The other
   process has no memory of this one to update. *)
RequestUpdates(a) ==
  /\ request[a].step = "saved"
  /\ LET r == request[a] IN
     CASE r.op = "cli"  -> Ends(a) /\ UNCHANGED memory
       [] r.op = "etag" -> /\ memory' = WithCli(stored, {})
                           /\ Becomes(a, [r EXCEPT !.step = "updated",
                                                   !.new = stored, !.old = stored])
       [] OTHER         -> /\ memory' = WithCli(r.new, RestartKeys(r))
                           /\ Advances(a, "updated")
  /\ UNCHANGED <<stored, lastKnownGood, running, served, restartNeeded, today,
                 asked, saveFaults, restarts>>

(* App.ApplyConfig publishes the version found in memory, the ETag handler the
   one it loaded. *)
RequestApplies(a) ==
  /\ request[a].step = "updated"
  /\ served' = IF request[a].op = "etag" THEN request[a].new[Tag] ELSE memory[Tag]
  /\ Advances(a, "applied")
  /\ UNCHANGED <<stored, lastKnownGood, memory, running, restartNeeded, today,
                 asked, saveFaults, restarts>>
\* Faulty variant: the flag forgets earlier requests.
RequestAnswersForgetting(a) ==
  /\ request[a].step = "applied"
  /\ restartNeeded' = (RestartKeys(request[a]) # {})
  /\ Ends(a)
  /\ UNCHANGED <<stored, lastKnownGood, memory, running, served, today, asked,
                 saveFaults, restarts>>
RequestAnswers(a) ==
  /\ request[a].step = "applied"
  /\ restartNeeded' = (restartNeeded \/ RestartKeys(request[a]) # {})
  /\ Ends(a)
  /\ UNCHANGED <<stored, lastKnownGood, memory, running, served, today, asked,
                 saveFaults, restarts>>

(* The process restarts (or dies and is started again), with or without
   -restore-last-known-good; requests under way go with it, half saved. *)
ConfigRestarts ==
  /\ restarts < MaxRestarts /\ restarts' = restarts + 1
  /\ \/ stored' = stored /\ running' \in StartValues(stored)
     \/ /\ lastKnownGood # <<>> /\ stored' = lastKnownGood
        /\ running' = WithCli(lastKnownGood, {})
  /\ memory' = Served(running') /\ served' = memory'[Tag]
  /\ restartNeeded' = FALSE
  /\ request' = [a \in Admin |-> Quiet]
  /\ UNCHANGED <<lastKnownGood, today, asked, saveFaults>>
DayPasses ==
  /\ today < MaxDay /\ today' = today + 1
  /\ UNCHANGED <<stored, lastKnownGood, memory, running, served, restartNeeded,
                 request, asked, saveFaults, restarts>>

ConfigNext ==
  \/ \E a \in Admin :
       \/ RequestLoads(a) \/ RequestValidates(a) \/ RequestSaves(a) \/ RecoverySaved(a)
       \/ RequestUpdates(a) \/ RequestApplies(a) \/ RequestAnswers(a)
  \/ ConfigRestarts \/ DayPasses
ConfigSpec == ConfigInit /\ [][ConfigNext]_configVars
----------------------------------------------------------------------------
ConfigTypeOK ==
  /\ Configuration(stored) /\ Configuration(memory) /\ Configuration(running)
  /\ lastKnownGood = <<>> \/ Configuration(lastKnownGood)
  /\ \A a \in Admin : request[a].left \subseteq ConfigKey
  /\ restartNeeded \in BOOLEAN

Between(a) == request[a].step \in {"updated", "applied"}

(* What a restore would bring back is a configuration that passed validation
   as a whole, although the rows it was saved with may be a mixture of two. *)
RecoveryIsValid == lastKnownGood = <<>> \/ Validate(lastKnownGood)

(* A value given on the command line stays in force until a request changed
   that very setting, a restart is needed for it and the user has been told. *)
CliStaysInForce ==
  \A k \in CliKeys : memory[k] # CliValue[k] =>
     k \in RestartSetting /\ (restartNeeded \/ \E a \in Admin : Between(a))

(* As long as every save succeeded, and once no request is under way, a
   setting that is read only at start and now differs from the one the process
   runs with has raised the flag, whatever two requests overwrote of each
   other's.  Left out are settings of a YAML file, whose value the first save
   drops without a word (YamlOverridesDatabase), and zeros, which the start
   replaces by the default and the first save brings back. *)
ReplacedAtStart(k) ==
  k \in YamlKeys \/ stored[k] = 0 \/ (k \in CliKeys /\ CliValue[k] = 0)
RestartIsAnnounced ==
  (\A a \in Admin : request[a] = Quiet) /\ saveFaults = 0 =>
     \A k \in RestartSetting : memory[k] # running[k] => restartNeeded \/ ReplacedAtStart(k)

(* What the recovery restores is valid, the command line stays in force, and a
   change that waits for a restart is announced (ConfigManager). *)
ConfigSafety == RecoveryIsValid /\ CliStaysInForce /\ RestartIsAnnounced

(* ENV_CONFIGURATION.md:232 of SEPG_LOGIN_RATE_LIMIT_PER_IP: "this env var
   overrides the database value on startup", and its value 0 "disables IP rate
   limiting" (:230).  MergeDefaults takes that zero for a missing value, and
   the login's limiter is built with the default: Serve puts the zero into the
   configuration later, but nothing applies it before the next save does. *)
CliOverridesAtStart == \A k \in CliKeys : running[k] = CliValue[k]

(* What the README says of precedence (README.md:308): a YAML file overrides
   the database.  Any save drops it until the next start. *)
YamlOverridesDatabase ==
  \A k \in DOMAIN YamlValue \ DOMAIN CliValue : memory[k] = YamlValue[k]

(* The rows always form a configuration that would pass validation; a failed
   save, two saves at a time or a restart in the middle of one break it. *)
StoredIsValid == Validate(stored)
=============================================================================
