----------------------------- MODULE MCRequests -----------------------------
(* The components that requests reach, each on a small instance, and the    *)
(* ones that keep what they write: the pages, the configuration, the login, *)
(* the log, the databases, the catalogue and the dashboard's screen.  As in *)
(* MCBackground one behaviour is about one component, the one in focus, and *)
(* the others stay where they start.                                        *)
EXTENDS HttpCache, BodyCodec, Config, Login, LogFiles, Databases, Catalogue, Dashboard

CONSTANTS c1, c2, a1, a2

VARIABLE focus

requestsVars == <<cacheVars, bodyCodecVars, configVars, loginVars, logVars,
                  databasesVars, catalogueVars, dashboardVars, focus>>

\* Pages of two sizes, one above MinCompressBytes and one at it.
PageSize == [p \in Body |-> IF p = "gallery" THEN 4 ELSE 2]
PackedPage == [p \in Body |-> 1]

\* The settings' defaults, the forms of a save (one changes two settings, one
\* sets a minimum above the pool, one has a text that is no number), and what
\* the command line and the YAML file say; "limit" is applied without a restart.
Ones == [k \in Setting |-> 1]
Forms == {[k \in {"pool", "idle"} |-> 2], "limit" :> 2, "idle" :> 2, "idle" :> 0 @@ "limit" :> -1}
CommandLine == "limit" :> 1 @@ "idle" :> 1
YamlFile == "pool" :> 2 @@ "idle" :> -1

OneAddress == [c \in Client |-> "a"]

\* One image below a folder and one in the root folder, whose first version
\* fails to decode.
Chains == [f \in Image |-> IF f = "f" THEN <<"", "d">> ELSE <<"">>]
Broken == {<<"g", 1>>}

Component == {"cache", "bodies", "config", "login", "log", "databases", "catalogue", "dashboard"}
In(c) == focus = c

RequestsInit ==
    /\ focus \in Component
    /\ HttpCacheInit /\ BodyCodecInit /\ ConfigInit /\ LoginInit
    /\ LogInit /\ DatabasesInit /\ CatalogueInit /\ DashboardInit
    /\ In("cache") \/ cacheRows = {}
    /\ In("config") \/ running = CHOOSE cfg \in StartValues(stored) : TRUE
    /\ In("login") \/ limiter.max = 0
    /\ In("databases") \/ readOnly
    /\ In("dashboard") \/ commands[c1].kind = "prompt"

RequestsNext ==
    \/ In("cache") /\ HttpCacheNext
       /\ UNCHANGED <<bodyCodecVars, configVars, loginVars, logVars,
                       databasesVars, catalogueVars, dashboardVars, focus>>
    \/ In("bodies") /\ BodyCodecNext
       /\ UNCHANGED <<cacheVars, configVars, loginVars, logVars,
                       databasesVars, catalogueVars, dashboardVars, focus>>
    \/ In("config") /\ ConfigNext
       /\ UNCHANGED <<cacheVars, bodyCodecVars, loginVars, logVars,
                       databasesVars, catalogueVars, dashboardVars, focus>>
    \/ In("login") /\ LoginNext
       /\ UNCHANGED <<cacheVars, bodyCodecVars, configVars, logVars,
                       databasesVars, catalogueVars, dashboardVars, focus>>
    \/ In("log") /\ LogNext
       /\ UNCHANGED <<cacheVars, bodyCodecVars, configVars, loginVars,
                       databasesVars, catalogueVars, dashboardVars, focus>>
    \/ In("databases") /\ DatabasesNext
       /\ UNCHANGED <<cacheVars, bodyCodecVars, configVars, loginVars,
                       logVars, catalogueVars, dashboardVars, focus>>
    \/ In("catalogue") /\ CatalogueNext
       /\ UNCHANGED <<cacheVars, bodyCodecVars, configVars, loginVars,
                       logVars, databasesVars, dashboardVars, focus>>
    \/ In("dashboard") /\ DashboardNext
       /\ UNCHANGED <<cacheVars, bodyCodecVars, configVars, loginVars,
                       logVars, databasesVars, catalogueVars, focus>>

RequestsSpec == RequestsInit /\ [][RequestsNext]_requestsVars

-----------------------------------------------------------------------------
(* Types of the eight components' states.                                  *)
RequestsTypeOK ==
    /\ HttpCacheTypeOK /\ BodyCodecTypeOK /\ ConfigTypeOK /\ LoginTypeOK
    /\ LogTypeOK /\ DatabasesTypeOK /\ CatalogueTypeOK /\ DashboardTypeOK
=============================================================================
