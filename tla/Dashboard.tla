----------------------------- MODULE Dashboard -----------------------------
(***************************************************************************)
(* The terminal dashboard (cmd/sfpg-go-dashboard) and what it talks to:    *)
(* DashboardHandlers.DashboardGet, the metrics Collector and the session   *)
(* cookie.                                                                 *)
(*                                                                         *)
(* Update is called with one message at a time; the commands it returns    *)
(* run concurrently, share the client's cookie jar, and come back as       *)
(* messages in any order.                                                  *)
(***************************************************************************)
EXTENDS Naturals, FiniteSets

CONSTANTS
  Command,         \* commands that run at the same time
  AutoRefresh,     \* not -no-refresh
  MaxCommands, MaxExpiries, MaxFlushed     \* bounds of the model

ASSUME DashboardAssumption == AutoRefresh \in BOOLEAN /\ MaxFlushed \in Nat \ {0}

VARIABLES
  screen,          \* the Model: state of the login, metrics shown, flags
  ticks,           \* timers under way
  commands,        \* what each command does and has
  jar,             \* the session cookie: 0 none or cleared, else its secret's number
  secret,          \* the server's session secret
  flushed, pending,\* two of the server's counters
  issued           \* commands given so far
dashboardVars == <<screen, ticks, commands, jar, secret, flushed, pending, issued>>

NoCommand == [kind |-> "none", pc |-> "idle", right |-> FALSE, cookie |-> 0,
              reply |-> "none", flushed |-> 0, total |-> 0]
Free == {c \in Command : commands[c].kind = "none"}
InFlight(kinds) == {c \in Command : commands[c].kind \in kinds}
ServerStays == UNCHANGED <<secret, flushed, pending>>

(* The new commands: cmd is run by a goroutine of its own. *)
Runs(kind, right) == \E c \in Free :
  /\ issued < MaxCommands /\ issued' = issued + 1
  /\ commands' = [commands EXCEPT ![c] = [NoCommand EXCEPT !.kind = kind, !.right = right, !.pc = "sends"]]
RunsNothing == UNCHANGED <<commands, issued>>
tickCmd(n) == n + 1

Prompting == [screen EXCEPT !.auth = "prompting"]
loginCmd(right) == Runs("login", right)
fetchMetricsCmd == Runs("fetch", TRUE)
----------------------------------------------------------------------------
initialModel == [auth |-> "none", loading |-> FALSE, paused |-> FALSE, shown |-> 0,
                 failed |-> FALSE, quitting |-> FALSE]
DashboardInit ==
  /\ screen = initialModel /\ ticks = tickCmd(0) /\ issued = 1
  /\ \E c \in Command, right, onCommandLine \in BOOLEAN :
        commands = [d \in Command |-> IF d # c THEN NoCommand ELSE
                      IF onCommandLine
                      THEN [NoCommand EXCEPT !.kind = "login", !.right = right, !.pc = "sends"]
                      ELSE [NoCommand EXCEPT !.kind = "prompt", !.pc = "message"]]
  /\ jar = 0 /\ secret = 1 /\ flushed = 1 /\ pending = MaxFlushed - 1

Tick ==
  /\ ~screen.quitting /\ ticks > 0 /\ ticks' = tickCmd(ticks - 1)
  /\ IF ~screen.paused /\ AutoRefresh /\ screen.auth = "authenticated"
     THEN fetchMetricsCmd ELSE RunsNothing
  /\ UNCHANGED <<screen, jar>> /\ ServerStays

(* Keys: refresh, pause, quit; and enter in the login form. *)
KeyRefresh ==
  /\ ~screen.quitting /\ screen.auth = "authenticated"
  /\ screen' = [screen EXCEPT !.loading = TRUE] /\ fetchMetricsCmd
  /\ UNCHANGED <<ticks, jar>> /\ ServerStays
KeyPause ==
  /\ ~screen.quitting /\ screen.auth # "prompting"
  /\ screen' = [screen EXCEPT !.paused = ~@]
  /\ UNCHANGED <<ticks, jar>> /\ RunsNothing /\ ServerStays
KeyQuit ==
  /\ ~screen.quitting /\ screen' = [screen EXCEPT !.quitting = TRUE]
  /\ UNCHANGED <<ticks, jar>> /\ RunsNothing /\ ServerStays
handleCredentialInput(right) ==
  /\ ~screen.quitting /\ screen.auth = "prompting" /\ issued < MaxCommands /\ issued' = issued + 1
  /\ \E c \in Free : commands' = [commands EXCEPT ![c] =
                       [NoCommand EXCEPT !.kind = "submitted", !.right = right, !.pc = "message"]]
  /\ UNCHANGED <<screen, ticks, jar>> /\ ServerStays
----------------------------------------------------------------------------
(* Client.Login and Client.FetchDashboard: the cookie is read from the jar
   when the request is made and stored when the answer arrives. *)
Requests(c) ==
  /\ commands[c].pc = "sends"
  /\ commands' = [commands EXCEPT ![c].pc = "serving", ![c].cookie = jar]
  /\ UNCHANGED <<screen, ticks, jar, issued>> /\ ServerStays
NetworkFails(c) ==
  /\ commands[c].pc \in {"sends", "serving", "collects"}
  /\ commands' = [commands EXCEPT ![c].pc = "message", ![c].reply = "failed"]
  /\ UNCHANGED <<screen, ticks, jar, issued>> /\ ServerStays

(* Manager.IsAuthenticated; a cookie it cannot read is cleared. *)
IsAuthenticated(cookie) == cookie = secret
ClearSessionCookie == jar' = 0
Answers(c, reply) == commands' = [commands EXCEPT ![c].pc = "message", ![c].reply = reply]
LoginServed(c) ==
  /\ commands[c].kind = "login" /\ commands[c].pc = "serving"
  /\ IF commands[c].right THEN jar' = secret /\ Answers(c, "ok")
                          ELSE UNCHANGED jar /\ Answers(c, "unauthorized")
  /\ UNCHANGED <<screen, ticks, issued>> /\ ServerStays
DashboardRefused(c) ==
  /\ commands[c].kind = "fetch" /\ commands[c].pc = "serving" /\ ~IsAuthenticated(commands[c].cookie)
  /\ IF commands[c].cookie = 0 THEN UNCHANGED jar ELSE ClearSessionCookie
  /\ Answers(c, "unauthorized") /\ UNCHANGED <<screen, ticks, issued>> /\ ServerStays

(* Collect: each source is asked at a moment of its own; the batcher's
   statistics come before its backlog. *)
DashboardGet(c) ==
  /\ commands[c].kind = "fetch" /\ commands[c].pc = "serving" /\ IsAuthenticated(commands[c].cookie)
  /\ commands' = [commands EXCEPT ![c].pc = "collects", ![c].flushed = flushed]
  /\ UNCHANGED <<screen, ticks, jar, issued>> /\ ServerStays
Collect(c) ==
  /\ commands[c].pc = "collects"
  /\ commands' = [commands EXCEPT ![c].pc = "message", ![c].total = @ + commands[c].flushed + pending,
                                  ![c].reply = "ok"]
  /\ UNCHANGED <<screen, ticks, jar, issued>> /\ ServerStays
(* A page without the dashboard's element. *)
ParseDashboard(c) ==
  /\ commands[c].pc = "message" /\ commands[c].kind = "fetch" /\ commands[c].reply = "ok"
  /\ commands' = [commands EXCEPT ![c].reply = "failed"]
  /\ UNCHANGED <<screen, ticks, jar, issued>> /\ ServerStays

(* The batcher flushes; the server gets another session secret. *)
Flushed ==
  /\ pending > 0 /\ pending' = pending - 1 /\ flushed' = flushed + 1
  /\ UNCHANGED <<screen, ticks, commands, jar, secret, issued>>
SecretChanges ==
  /\ secret <= MaxExpiries /\ secret' = secret + 1
  /\ UNCHANGED <<screen, ticks, commands, jar, flushed, pending, issued>>
----------------------------------------------------------------------------
(* Update, by kind of message.  One that returns a command lets this one's
   goroutine end first. *)
ReplyArrives(c, kind) == ~screen.quitting /\ commands[c].kind = kind /\ commands[c].pc = "message"
CommandEnds(c) == commands' = [commands EXCEPT ![c] = NoCommand] /\ UNCHANGED issued
ScreenBecomes(c, kind, right) ==
  /\ issued' = issued + 1
  /\ commands' = [commands EXCEPT ![c] = [NoCommand EXCEPT !.kind = kind, !.right = right, !.pc = "sends"]]

PromptArrives(c) ==
  /\ ReplyArrives(c, "prompt") /\ screen' = Prompting /\ CommandEnds(c)
  /\ UNCHANGED <<ticks, jar>> /\ ServerStays
SubmittedArrives(c) ==
  /\ ReplyArrives(c, "submitted") /\ ScreenBecomes(c, "login", commands[c].right)
  /\ screen' = [screen EXCEPT !.auth = "authenticating", !.loading = TRUE, !.failed = FALSE]
  /\ UNCHANGED <<ticks, jar>> /\ ServerStays
LoginSucceeds(c) ==
  /\ ReplyArrives(c, "login") /\ commands[c].reply = "ok" /\ ScreenBecomes(c, "fetch", TRUE)
  /\ screen' = [screen EXCEPT !.auth = "authenticated", !.loading = FALSE, !.failed = FALSE]
  /\ UNCHANGED <<ticks, jar>> /\ ServerStays
\* Faulty variant: the spinner goes on after a refusal.
LoginFailsLoading(c) ==
  /\ ReplyArrives(c, "login") /\ commands[c].reply # "ok" /\ CommandEnds(c)
  /\ screen' = [Prompting EXCEPT !.failed = TRUE]
  /\ UNCHANGED <<ticks, jar>> /\ ServerStays
LoginRefused(c) ==
  /\ ReplyArrives(c, "login") /\ commands[c].reply # "ok" /\ CommandEnds(c)
  /\ screen' = [Prompting EXCEPT !.failed = TRUE, !.loading = FALSE]
  /\ UNCHANGED <<ticks, jar>> /\ ServerStays
MetricsArrive(c) ==
  /\ ReplyArrives(c, "fetch") /\ CommandEnds(c)
  /\ screen' = IF commands[c].reply = "ok"
               THEN [screen EXCEPT !.loading = FALSE, !.failed = FALSE, !.shown = commands[c].flushed]
               ELSE [screen EXCEPT !.loading = FALSE, !.failed = TRUE,
                                   !.auth = IF commands[c].reply = "unauthorized" THEN "prompting" ELSE @]
  /\ UNCHANGED <<ticks, jar>> /\ ServerStays
Update(c) ==
  \/ PromptArrives(c) \/ SubmittedArrives(c) \/ LoginSucceeds(c) \/ LoginRefused(c) \/ MetricsArrive(c)

DashboardNext ==
  \/ Tick \/ KeyRefresh \/ KeyPause \/ KeyQuit \/ Flushed \/ SecretChanges
  \/ \E right \in BOOLEAN : handleCredentialInput(right)
  \/ \E c \in Command : \/ Requests(c) \/ NetworkFails(c) \/ LoginServed(c) \/ DashboardRefused(c)
                        \/ DashboardGet(c) \/ Collect(c) \/ ParseDashboard(c) \/ Update(c)
DashboardSpec == DashboardInit /\ [][DashboardNext]_dashboardVars
----------------------------------------------------------------------------
(* View: what is on the screen. *)
View ==
  IF screen.quitting THEN "goodbye"
  ELSE IF screen.auth \in {"prompting", "authenticating"} THEN "login"
  ELSE IF screen.shown # 0 THEN "dashboard"
  ELSE IF screen.loading THEN "connecting" ELSE "loading"

DashboardTypeOK ==
  /\ ticks \in Nat /\ jar \in 0..secret /\ screen.shown \in 0..flushed
  /\ View \in {"goodbye", "login", "dashboard", "connecting", "loading"}

(* However answers overtake each other, the dashboard is never left waiting
   for nothing: one timer runs, a spinner has a command behind it, and a
   screen that is neither the login form nor logged in has a login or a
   prompt under way (Init, Update). *)
NeverStuck ==
  ~screen.quitting =>
    /\ ticks = 1
    /\ screen.loading => InFlight({"login", "fetch"}) # {}
    /\ screen.auth = "none" => InFlight({"login", "prompt"}) # {}
    /\ screen.auth = "authenticating" => InFlight({"login"}) # {}

(* What is shown does not go back in time: broken by two fetches that return
   in the other order. *)
ShownAdvances == [][screen'.shown >= screen.shown]_dashboardVars
(* A login that succeeded stays: broken by the answer to an older request. *)
LoginStays == screen.auth = "prompting" /\ ~screen.quitting => jar # secret
(* "Loading dashboard..." means that it is being loaded: broken by a first
   fetch that failed, whose error is not shown. *)
LoadingLoads == View = "loading" => InFlight({"login", "prompt", "fetch"}) # {}
(* Writes flushed and writes pending of one snapshot are all the writes. *)
SnapshotAddsUp == \A c \in Command : commands[c].total \in {0, MaxFlushed}
(* One goroutine at a time uses the cookie jar, a plain map. *)
JarUnshared == Cardinality({c \in Command : commands[c].pc \in {"sends", "serving", "collects"}}) <= 1
=============================================================================
