--------------------------- MODULE RequestsProofs ---------------------------
(***************************************************************************)
(* What requests reach, for any number of them: the databases, the         *)
(* dashboard, the configuration, the login and the log files, each with    *)
(* the invariant its properties rest on, and the eight of MCRequests       *)
(* together.                                                               *)
(*                                                                         *)
(* None of the properties follows from itself.                             *)
(*   Databases: that no second ATTACH is tried on a kept driver connection *)
(*     rests on who holds it since it was looked at; that all statements   *)
(*     are there, on the count kept at every step of their preparation;    *)
(*     that a start has its pools, on what each stage before it has left.  *)
(*   Dashboard: a screen that waits names the kind of command it waits     *)
(*     for, and only Update takes a command away.                          *)
(*   Config: a setting that no request has touched since the start is the  *)
(*     same in memory, in force and in the rows - unless the start itself  *)
(*     replaced it.                                                        *)
(*   Login: an attempt let through that a window still holds at the latest *)
(*     time the limiter's list was pruned by is in that list, and a count  *)
(*     read before other failures is backed by as many passwords as it     *)
(*     says and as many again as are failing.                              *)
(*   LogFiles: in each directory the names ascend in the order in which    *)
(*     the files are written to, so that the oldest ones are not the       *)
(*     logger's.                                                           *)
(***************************************************************************)
EXTENDS MCRequests, PagesProofs

(* The databases.                                                          *)

DriverState == [state : {"new", "free", "taken"}, attached : BOOLEAN, tuned : BOOLEAN,
                open : Nat, leaked : Nat]
ConnState == [pc : {"none", "pings", "checks", "attaches", "tunes", "prepares", "ready"},
              d : Driver \cup {NoDriver}, n : 0..AllStatements]

(* What holds between a connection and its driver connection.              *)
Held(c, drv) ==
  /\ c \in ConnState /\ c.pc # "none" /\ c.d \in Driver
  /\ drv \in DriverState /\ drv.state = "taken" /\ drv.open = drv.leaked + c.n
  /\ c.pc = "ready" <=> c.n = AllStatements
  /\ c.pc \in {"pings", "checks", "attaches", "tunes"} => c.n = 0
  /\ c.pc = "attaches" => ~drv.attached
  /\ c.pc \in {"tunes", "prepares", "ready"} => drv.attached

(* A driver connection has one holder, or it waits with no statement but   *)
(* the leaked ones.                                                        *)
OpeningInv ==
  /\ opening \in [Opener -> ConnState] /\ drivers \in [Driver -> DriverState]
  /\ \A o \in Opener : IF opening[o].pc = "none" THEN opening[o].d = NoDriver
                       ELSE Held(opening[o], drivers[opening[o].d])
  /\ \A o, q \in Opener : opening[o].d = opening[q].d => o = q \/ opening[o].d = NoDriver
  /\ \A d \in Driver : drivers[d].state # "taken" => drivers[d].open = drivers[d].leaked

WithoutPools == {"directories", "main", "thumbs", "rw"}
WithPools == {"optimize", "root", "compare", "up"}

(* What each stage of the start has left: pools, migrated files, the root. *)
SetupInv ==
  /\ setup \in [pc : WithoutPools \cup WithPools \cup {"ro", "rw again", "ro again", "failed"},
                rw : {"none", "open", "closed"}, ro : {"none", "open", "closed"},
                applied : BOOLEAN]
  /\ schema \in [main : {"old", "current", "dirty"}, thumbs : {"old", "current", "dirty"},
                 root : BOOLEAN]
  /\ setup.pc \in WithoutPools => setup.rw = "none" /\ setup.ro = "none"
  /\ setup.pc = "ro" => setup.rw = "open" /\ setup.ro = "none"
  /\ setup.pc = "rw again" => setup.rw = "closed" /\ setup.ro = "closed"
  /\ setup.pc = "ro again" => setup.rw = "open" /\ setup.ro = "closed"
  /\ setup.pc \in WithPools => setup.rw = "open" /\ setup.ro = "open"
  /\ setup.pc = "failed" => setup.rw # "open" /\ setup.ro # "open"
  /\ setup.pc \notin {"directories", "main", "failed"} => schema.main = "current"
  /\ setup.pc \notin WithoutPools \cup {"failed"} \/ setup.pc = "rw" => schema.thumbs = "current"
  /\ setup.pc \in {"compare", "rw again", "ro again", "up"} => schema.root

DatabasesInv == OpeningInv /\ SetupInv

-----------------------------------------------------------------------------
(* At least two statements; their numbers add up in the naturals.          *)
LEMMA StatementNumbers ==
  /\ Statements \in Nat /\ CustomStatements \in Nat /\ AllStatements \in Nat
  /\ AllStatements > 1
BY DatabasesAssumption DEF AllStatements

(* A holder moves on, or takes a driver connection nobody holds.           *)
LEMMA HolderMoves ==
  ASSUME OpeningInv, NEW o \in Opener, NEW c, NEW drv,
         Held(c, drv), c.d = opening[o].d \/ drivers[c.d].state # "taken",
         opening' = [opening EXCEPT ![o] = c],
         drivers' = [drivers EXCEPT ![c.d] = drv]
  PROVE  OpeningInv'
<1>1. c \in ConnState /\ drv \in DriverState /\ c.d \in Driver /\ c.pc # "none"
  BY DEF Held
<1>2. /\ opening' \in [Opener -> ConnState] /\ drivers' \in [Driver -> DriverState]
      /\ opening'[o] = c /\ drivers'[c.d] = drv
      /\ \A q \in Opener \ {o} : opening'[q] = opening[q]
      /\ \A d \in Driver \ {c.d} : drivers'[d] = drivers[d]
  BY <1>1 DEF OpeningInv
<1>3. \A q \in Opener \ {o} : opening[q].d # c.d
  <2> SUFFICES ASSUME NEW q \in Opener \ {o}, opening[q].d = c.d PROVE FALSE OBVIOUS
  <2>1. opening[q].pc # "none" BY <1>1, DatabasesAssumption DEF OpeningInv
  <2>2. drivers[c.d].state = "taken" BY <2>1 DEF OpeningInv, Held
  <2>3. opening[o].d = opening[q].d BY <2>2
  <2> QED BY <2>3, <1>1, DatabasesAssumption DEF OpeningInv
<1>4. ASSUME NEW q \in Opener
      PROVE  IF opening'[q].pc = "none" THEN opening'[q].d = NoDriver
             ELSE Held(opening'[q], drivers'[opening'[q].d])
  <2>1. CASE q = o BY <1>1, <1>2, <2>1
  <2>2. CASE q # o /\ opening[q].pc = "none" BY <1>2, <2>2 DEF OpeningInv
  <2>3. CASE q # o /\ opening[q].pc # "none"
    <3>1. Held(opening[q], drivers[opening[q].d]) BY <2>3 DEF OpeningInv
    <3>2. opening[q].d \in Driver BY <3>1 DEF Held
    <3> QED BY <1>2, <1>3, <2>3, <3>1, <3>2
  <2> QED BY <2>1, <2>2, <2>3
<1>5. \A p, q \in Opener : opening'[p].d = opening'[q].d => p = q \/ opening'[p].d = NoDriver
  BY <1>2, <1>3 DEF OpeningInv
<1>6. \A d \in Driver : drivers'[d].state # "taken" => drivers'[d].open = drivers'[d].leaked
  <2>1. drv.state = "taken" BY DEF Held
  <2> QED BY <1>2, <2>1 DEF OpeningInv
<1> QED BY <1>2, <1>4, <1>5, <1>6 DEF OpeningInv

(* A holder gives its driver connection back, which is kept or closed.     *)
LEMMA HolderLeaves ==
  ASSUME OpeningInv, NEW o \in Opener, NEW statements \in Nat, GivesBack(o, statements),
         opening[o].pc # "none"
  PROVE  OpeningInv'
<1> DEFINE d == opening[o].d
           kept == [drivers[d] EXCEPT !.state = "free", !.open = statements, !.leaked = statements]
<1>1. Held(opening[o], drivers[d]) BY DEF OpeningInv
<1>2. d \in Driver /\ drivers[d] \in DriverState BY <1>1 DEF Held
<1>3. PICK drv \in {kept, Unopened} : drivers' = [drivers EXCEPT ![d] = drv]
  BY DEF GivesBack
<1>4. drv \in DriverState /\ drv.state # "taken" /\ drv.open = drv.leaked
  <2>1. CASE drv = kept BY <2>1, <1>2 DEF DriverState
  <2>2. CASE drv = Unopened BY <2>2 DEF DriverState, Unopened
  <2> QED BY <2>1, <2>2
<1>5. /\ NoConn \in ConnState /\ NoConn.pc = "none" /\ NoConn.d = NoDriver
  BY StatementNumbers DEF NoConn, ConnState
<1>6. opening' = [opening EXCEPT ![o] = NoConn] BY DEF GivesBack
<1> HIDE DEF d, kept
<1>7. /\ opening' \in [Opener -> ConnState] /\ drivers' \in [Driver -> DriverState]
      /\ opening'[o] = NoConn /\ drivers'[d] = drv
      /\ \A q \in Opener \ {o} : opening'[q] = opening[q]
      /\ \A e \in Driver \ {d} : drivers'[e] = drivers[e]
  BY <1>2, <1>3, <1>4, <1>5, <1>6 DEF OpeningInv
<1>8. \A q \in Opener \ {o} : opening[q].d # d
  BY <1>2, DatabasesAssumption DEF OpeningInv, d
<1>9. ASSUME NEW q \in Opener
      PROVE  IF opening'[q].pc = "none" THEN opening'[q].d = NoDriver
             ELSE Held(opening'[q], drivers'[opening'[q].d])
  <2>1. CASE q = o BY <1>5, <1>7, <2>1
  <2>2. CASE q # o /\ opening[q].pc = "none" BY <1>7, <2>2 DEF OpeningInv
  <2>3. CASE q # o /\ opening[q].pc # "none"
    <3>1. Held(opening[q], drivers[opening[q].d]) BY <2>3 DEF OpeningInv
    <3>2. opening[q].d \in Driver BY <3>1 DEF Held
    <3> QED BY <1>7, <1>8, <2>3, <3>1, <3>2
  <2> QED BY <2>1, <2>2, <2>3
<1>10. \A p, q \in Opener : opening'[p].d = opening'[q].d => p = q \/ opening'[p].d = NoDriver
  BY <1>5, <1>7 DEF OpeningInv
<1>11. \A e \in Driver : drivers'[e].state # "taken" => drivers'[e].open = drivers'[e].leaked
  BY <1>4, <1>7 DEF OpeningInv
<1> QED BY <1>7, <1>9, <1>10, <1>11 DEF OpeningInv

(* newCpConn, step by step: each is a move of the holder.                  *)
LEMMA MakingKeeps ==
  ASSUME OpeningInv, NEW o \in Opener,
         \/ TakesDriver(o) \/ Pings(o) \/ ChecksAttached(o) \/ Attaches(o)
         \/ TunesThumbs(o) \/ Prepare(o) \/ PrepareCustomQueries(o)
  PROVE  OpeningInv'
<1> DEFINE x == opening[o]
           drv == drivers[x.d]
<1>0. x \in ConnState BY DEF OpeningInv
<1>h. ASSUME x.pc # "none" PROVE Held(x, drv) BY <1>h DEF OpeningInv
<1>1. CASE TakesDriver(o)
  <2>1. PICK d \in Driver :
          /\ drivers[d].state \in {"free", "new"}
          /\ drivers' = [drivers EXCEPT ![d] = [drivers[d] EXCEPT !.state = "taken"]]
          /\ opening' = [opening EXCEPT ![o] = [pc |-> "pings", d |-> d, n |-> 0]]
    BY <1>1 DEF TakesDriver
  <2> DEFINE c == [pc |-> "pings", d |-> d, n |-> 0]
             new == [drivers[d] EXCEPT !.state = "taken"]
  <2>2. drivers[d] \in DriverState /\ drivers[d].open = drivers[d].leaked
    BY <2>1 DEF OpeningInv
  <2>3. new \in DriverState /\ new.state = "taken" /\ new.open = new.leaked + 0
    BY <2>2 DEF DriverState
  <2>4. c \in ConnState /\ c.pc = "pings" /\ c.d = d /\ c.n = 0
    BY StatementNumbers DEF ConnState
  <2>5. Held(c, new) BY <2>3, <2>4, StatementNumbers DEF Held
  <2> HIDE DEF c, new
  <2>6. drivers' = [drivers EXCEPT ![c.d] = new] /\ opening' = [opening EXCEPT ![o] = c]
    BY <2>1, <2>4 DEF c, new
  <2> QED BY <2>1, <2>4, <2>5, <2>6, HolderMoves
(* Steps that change the connection alone.                                 *)
<1>a. ASSUME NEW pc \in {"checks", "attaches", "tunes", "prepares"}, x.pc # "none",
             opening' = [opening EXCEPT ![o].pc = pc], UNCHANGED drivers,
             Held([x EXCEPT !.pc = pc], drv)
      PROVE  OpeningInv'
  <2> DEFINE c == [x EXCEPT !.pc = pc]
  <2>1. c.d = x.d BY <1>0 DEF ConnState
  <2>2. opening' = [opening EXCEPT ![o] = c] BY <1>a
  <2>3. drv \in DriverState /\ c.d \in Driver BY <1>a DEF Held
  <2>4. drivers' = [drivers EXCEPT ![c.d] = drv] BY <1>a, <2>1, <2>3 DEF OpeningInv
  <2> HIDE DEF c
  <2> QED BY <1>a, <2>1, <2>2, <2>4, HolderMoves DEF c
<1>2. CASE Pings(o)
  <2>1. Held([x EXCEPT !.pc = "checks"], drv)
    BY <1>2, <1>h, StatementNumbers DEF Pings, Held, ConnState
  <2> QED BY <1>2, <1>a, <2>1 DEF Pings, ConnGoes
<1>3. CASE ChecksAttached(o)
  <2>1. CASE drv.attached
    <3>1. Held([x EXCEPT !.pc = "prepares"], drv)
      BY <1>3, <1>h, <2>1, StatementNumbers DEF ChecksAttached, Held, ConnState
    <3> QED BY <1>3, <1>a, <2>1, <3>1 DEF ChecksAttached, ConnGoes, DriverOf
  <2>2. CASE ~drv.attached
    <3>1. Held([x EXCEPT !.pc = "attaches"], drv)
      BY <1>3, <1>h, <2>2, StatementNumbers DEF ChecksAttached, Held, ConnState
    <3> QED BY <1>3, <1>a, <2>2, <3>1 DEF ChecksAttached, ConnGoes, DriverOf
  <2> QED BY <2>1, <2>2
(* Steps that change both.                                                 *)
<1>b. ASSUME NEW c, NEW new, x.pc # "none", c.d = x.d, Held(c, new),
             opening' = [opening EXCEPT ![o] = c], drivers' = [drivers EXCEPT ![x.d] = new]
      PROVE  OpeningInv'
  BY <1>b, HolderMoves
<1>4. CASE Attaches(o)
  <2> DEFINE pc == IF readOnly THEN "prepares" ELSE "tunes"
             c == [x EXCEPT !.pc = pc]
             new == [drv EXCEPT !.attached = TRUE]
  <2>1. Held(x, drv) /\ x.pc = "attaches" BY <1>4, <1>h DEF Attaches
  <2>2. pc \in {"prepares", "tunes"} OBVIOUS
  <2>3. c.d = x.d /\ c.n = 0 /\ c.pc = pc /\ c \in ConnState
    BY <2>1, <2>2 DEF Held, ConnState
  <2>4. /\ new \in DriverState /\ new.state = "taken" /\ new.open = new.leaked + 0
        /\ new.attached
    BY <2>1 DEF Held, DriverState
  <2>5. Held(c, new) BY <2>1, <2>2, <2>3, <2>4, StatementNumbers DEF Held
  <2>6. opening' = [opening EXCEPT ![o] = c] /\ drivers' = [drivers EXCEPT ![x.d] = new]
    BY <1>4 DEF Attaches, ConnGoes
  <2> HIDE DEF c, new
  <2> QED BY <1>b, <2>1, <2>3, <2>5, <2>6
<1>5. CASE TunesThumbs(o)
  <2> DEFINE c == [x EXCEPT !.pc = "prepares"]
             new == [drv EXCEPT !.tuned = TRUE]
  <2>1. Held(x, drv) /\ x.pc = "tunes" BY <1>5, <1>h DEF TunesThumbs
  <2>2. c.d = x.d /\ c.n = 0 /\ c.pc = "prepares" /\ c \in ConnState
    BY <2>1 DEF Held, ConnState
  <2>3. /\ new \in DriverState /\ new.state = "taken" /\ new.open = new.leaked + 0
        /\ new.attached
    BY <2>1 DEF Held, DriverState
  <2>4. Held(c, new) BY <2>1, <2>2, <2>3, StatementNumbers DEF Held
  <2>5. opening' = [opening EXCEPT ![o] = c] /\ drivers' = [drivers EXCEPT ![x.d] = new]
    BY <1>5 DEF TunesThumbs, ConnGoes
  <2> HIDE DEF c, new
  <2> QED BY <1>b, <2>1, <2>2, <2>4, <2>5
<1>6. CASE Prepare(o) \/ PrepareCustomQueries(o)
  <2> DEFINE pc == IF x.n + 1 = AllStatements THEN "ready" ELSE "prepares"
             c == [x EXCEPT !.n = x.n + 1, !.pc = pc]
             new == [drv EXCEPT !.open = drv.open + 1]
  <2>0. Prepares(o) BY <1>6 DEF Prepare, PrepareCustomQueries
  <2>1. Held(x, drv) /\ x.pc = "prepares" BY <2>0, <1>h DEF Prepares
  <2>2. x.n \in 0..AllStatements /\ x.n # AllStatements BY <2>1 DEF Held, ConnState
  <2>f. pc \in {"prepares", "ready"} /\ x.n + 1 \in 0..AllStatements
    BY <2>2, StatementNumbers
  <2>3. c.d = x.d /\ c.n = x.n + 1 /\ c.pc = pc /\ c \in ConnState
    <3> HIDE DEF pc
    <3> QED BY <1>0, <2>f DEF ConnState
  <2>4. /\ new \in DriverState /\ new.state = "taken" /\ new.open = new.leaked + (x.n + 1)
        /\ new.attached
    BY <2>1, <2>2, StatementNumbers DEF Held, DriverState
  <2>5. Held(c, new) BY <2>1, <2>2, <2>3, <2>4, StatementNumbers DEF Held
  <2>a. opening' = [opening EXCEPT ![o].n = @ + 1,
                      ![o].pc = IF opening[o].n + 1 = AllStatements THEN "ready" ELSE @]
    BY <2>0 DEF Prepares
  <2>b. c = [x EXCEPT !.n = x.n + 1,
                      !.pc = IF x.n + 1 = AllStatements THEN "ready" ELSE x.pc]
    BY <2>1
  <2>c. opening \in [Opener -> ConnState] BY DEF OpeningInv
  <2>d. opening' = [opening EXCEPT ![o] = c] BY <2>a, <2>b, <2>c
  <2>e. drivers' = [drivers EXCEPT ![x.d] = new] BY <2>0 DEF Prepares
  <2> HIDE DEF c, new
  <2> QED BY <1>b, <2>1, <2>3, <2>5, <2>d, <2>e
<1> QED BY <1>1, <1>2, <1>3, <1>4, <1>5, <1>6

(* A step of newCpConn fails, or CpConn.Close closes the statements.       *)
LEMMA ReturningKeeps ==
  ASSUME OpeningInv, NEW o \in Opener, MakingFails(o) \/ CpConnCloses(o)
  PROVE  OpeningInv'
<1>1. opening[o].pc # "none" BY DEF MakingFails, CpConnCloses, Making
<1>2. Held(opening[o], DriverOf(o)) BY <1>1 DEF OpeningInv, DriverOf
<1>3. DriverOf(o).open \in Nat BY <1>2 DEF Held, DriverState
<1>4. CASE MakingFails(o) BY <1>1, <1>3, <1>4, HolderLeaves DEF MakingFails
<1>5. CASE CpConnCloses(o)
  <2>1. QueriesClosed(CustomQueriesClosed(DriverOf(o).open)) = DriverOf(o).leaked
    BY <1>2, <1>5, StatementNumbers
       DEF CpConnCloses, Held, DriverState, QueriesClosed, CustomQueriesClosed, AllStatements
  <2>2. DriverOf(o).leaked \in Nat BY <1>2 DEF Held, DriverState
  <2>3. GivesBack(o, DriverOf(o).leaked) BY <1>5, <2>1 DEF CpConnCloses
  <2> QED BY <1>1, <2>2, <2>3, HolderLeaves
<1> QED BY <1>4, <1>5

-----------------------------------------------------------------------------
(* The start: each stage leaves what the next one counts on.               *)
LEMMA SetupKeeps ==
  ASSUME SetupInv, Setup \/ ReconfigurePools
  PROVE  SetupInv'
<1> USE DEF SetupInv, WithoutPools, WithPools, SetupGoes, BothClosed
<1>1. CASE MakesDirectories BY <1>1 DEF MakesDirectories
<1>2. CASE Migrates("main", "thumbs") BY <1>2 DEF Migrates
<1>3. CASE Migrates("thumbs", "rw") BY <1>3 DEF Migrates
<1>4. CASE OpensRw("rw", "ro") BY <1>4 DEF OpensRw
<1>5. CASE OpensRo("ro", "optimize") BY <1>5 DEF OpensRo
<1>6. CASE Optimizes BY <1>6 DEF Optimizes
<1>7. CASE ChecksRoot BY <1>7 DEF ChecksRoot
<1>8. CASE Reconfigures BY <1>8 DEF Reconfigures
<1>9. CASE OpensRw("rw again", "ro again") BY <1>9 DEF OpensRw
<1>10. CASE OpensRo("ro again", "up") BY <1>10 DEF OpensRo
<1> QED BY <1>1, <1>2, <1>3, <1>4, <1>5, <1>6, <1>7, <1>8, <1>9, <1>10
        DEF Setup, migrateDB, migrateBlobsDB, createDatabasePools, ReconfigurePools,
            RecreatePoolsWithConfig

(* Nothing is open in a new process, whatever is in the files.             *)
LEMMA StartKeeps ==
  ASSUME setup = NoPools, drivers = [d \in Driver |-> Unopened],
         opening = [o \in Opener |-> NoConn],
         schema \in [main : {"old", "current", "dirty"}, thumbs : {"old", "current", "dirty"},
                     root : BOOLEAN]
  PROVE  DatabasesInv
<1>1. NoConn \in ConnState /\ NoConn.pc = "none" /\ NoConn.d = NoDriver
  BY StatementNumbers DEF NoConn, ConnState
<1>2. Unopened \in DriverState /\ Unopened.open = Unopened.leaked BY DEF Unopened, DriverState
<1>3. OpeningInv BY <1>1, <1>2 DEF OpeningInv
<1>4. SetupInv BY DEF SetupInv, NoPools, WithoutPools, WithPools
<1> QED BY <1>3, <1>4 DEF DatabasesInv

\* A start that is cut short leaves no pool and no connection in use.
LEMMA CrashKeeps ==
  ASSUME DatabasesInv, SetupCrashes
  PROVE  DatabasesInv'
<1>1. schema' \in [main : {"old", "current", "dirty"}, thumbs : {"old", "current", "dirty"},
                   root : BOOLEAN]
  BY ZenonT(30) DEF DatabasesInv, SetupInv, SetupCrashes
<1>2. /\ setup' = NoPools /\ drivers' = [d \in Driver |-> Unopened]
      /\ opening' = [o \in Opener |-> NoConn]
  BY DEF SetupCrashes
<1>3. NoConn \in ConnState /\ NoConn.pc = "none" /\ NoConn.d = NoDriver
  BY StatementNumbers DEF NoConn, ConnState
<1>4. Unopened \in DriverState /\ Unopened.open = Unopened.leaked BY DEF Unopened, DriverState
<1>5. OpeningInv' BY <1>2, <1>3, <1>4 DEF OpeningInv
<1>6. SetupInv' BY <1>1, <1>2 DEF SetupInv, NoPools, WithoutPools, WithPools
<1> QED BY <1>5, <1>6 DEF DatabasesInv

\* Every step of the start and of the goroutines keeps the invariant.
LEMMA DatabasesStep ==
  ASSUME DatabasesInv, [DatabasesNext]_databasesVars
  PROVE  DatabasesInv'
<1>1. CASE Setup \/ ReconfigurePools
  <2>1. UNCHANGED <<drivers, opening>>
    BY <1>1 DEF Setup, ReconfigurePools, MakesDirectories, migrateDB, migrateBlobsDB, Migrates,
                createDatabasePools, OpensRw, OpensRo, Optimizes, ChecksRoot, Reconfigures,
                RecreatePoolsWithConfig, SetupGoes
  <2>2. OpeningInv' BY <2>1 DEF DatabasesInv, OpeningInv
  <2> QED BY <1>1, <2>2, SetupKeeps DEF DatabasesInv
<1>2. CASE SetupCrashes BY <1>2, CrashKeeps
<1>3. ASSUME NEW o \in Opener,
             \/ TakesDriver(o) \/ Pings(o) \/ ChecksAttached(o) \/ Attaches(o)
             \/ TunesThumbs(o) \/ Prepare(o) \/ PrepareCustomQueries(o)
             \/ MakingFails(o) \/ CpConnCloses(o)
      PROVE  DatabasesInv'
  <2>1. OpeningInv' BY <1>3, MakingKeeps, ReturningKeeps DEF DatabasesInv
  <2>2. UNCHANGED <<setup, schema>>
    BY <1>3 DEF TakesDriver, Pings, ChecksAttached, Attaches, TunesThumbs, Prepare,
                PrepareCustomQueries, Prepares, MakingFails, CpConnCloses
  <2>3. SetupInv' BY <2>2 DEF DatabasesInv, SetupInv
  <2> QED BY <2>1, <2>3 DEF DatabasesInv
<1>4. CASE UNCHANGED databasesVars
  BY <1>4 DEF databasesVars, DatabasesInv, OpeningInv, SetupInv
<1> QED BY <1>1, <1>2, <1>3, <1>4 DEF DatabasesNext

\* The invariant implies what is promised of connections and of a start.
LEMMA DatabasesInvIsSafe == DatabasesInv => DatabasesSafety
<1> SUFFICES ASSUME DatabasesInv PROVE DatabasesSafety OBVIOUS
<1>1. ConnectionsAreWhole
  <2>1. ASSUME NEW o \in Opener, opening[o].pc # "none"
        PROVE  Held(opening[o], DriverOf(o))
    BY <2>1 DEF DatabasesInv, OpeningInv, DriverOf
  <2>2. ASSUME NEW o \in Opener, opening[o].pc = "attaches" PROVE ~DriverOf(o).attached
    BY <2>1, <2>2 DEF Held
  <2>3. ASSUME NEW o \in Opener, opening[o].pc = "ready"
        PROVE  /\ DriverOf(o).attached /\ opening[o].n = AllStatements
               /\ DriverOf(o).open = DriverOf(o).leaked + AllStatements
    BY <2>1, <2>3 DEF Held
  <2> QED BY <2>2, <2>3 DEF ConnectionsAreWhole, DatabasesInv, OpeningInv
<1>2. PoolsTogether
  BY DEF DatabasesInv, SetupInv, PoolsTogether, WithoutPools, WithPools
<1> QED BY <1>1, <1>2 DEF DatabasesSafety

(* A connection that is handed out is whole, and a start that ends has     *)
(* both pools or none (newCpConn, CpConn.Close, Setup), for any number of  *)
(* goroutines, driver connections, statements, failures and crashes.       *)
THEOREM DatabasesAreSafe == DatabasesSpec => [](DatabasesTypeOK /\ DatabasesSafety)
<1>1. DatabasesInit => DatabasesInv
  <2> SUFFICES ASSUME DatabasesInit PROVE DatabasesInv OBVIOUS
  <2>1. schema \in [main : {"old", "current", "dirty"}, thumbs : {"old", "current", "dirty"},
                    root : BOOLEAN]
    BY DEF DatabasesInit
  <2> QED BY <2>1, StartKeeps DEF DatabasesInit
<1>2. DatabasesInv /\ [DatabasesNext]_databasesVars => DatabasesInv' BY DatabasesStep
<1>3. DatabasesInv => DatabasesSafety BY DatabasesInvIsSafe
<1>4. DatabasesInv => DatabasesTypeOK
  BY DEF DatabasesInv, OpeningInv, ConnState, DriverState, DatabasesTypeOK
<1> QED BY <1>1, <1>2, <1>3, <1>4, PTL DEF DatabasesSpec

-----------------------------------------------------------------------------
(* The dashboard.                                                          *)

Kinds == {"none", "login", "prompt", "fetch", "submitted"}
CommandState ==
  [kind : Kinds, pc : {"idle", "sends", "serving", "collects", "message"}, right : BOOLEAN,
   cookie : Nat, reply : {"none", "ok", "unauthorized", "failed"}, flushed : Nat, total : Nat]
ScreenState ==
  [auth : {"none", "prompting", "authenticating", "authenticated"}, loading : BOOLEAN,
   paused : BOOLEAN, shown : Nat, failed : BOOLEAN, quitting : BOOLEAN]

DashboardShapes ==
  /\ commands \in [Command -> CommandState] /\ screen \in ScreenState
  /\ jar \in Nat /\ secret \in Nat /\ flushed \in Nat /\ pending \in Nat

(* NeverStuck without its set comprehensions, also while quitting.         *)
Waits(kinds) == \E c \in Command : commands[c].kind \in kinds
WaitsForSomething ==
  /\ ticks = 1
  /\ screen.loading => Waits({"login", "fetch"})
  /\ screen.auth = "none" => Waits({"login", "prompt"})
  /\ screen.auth = "authenticating" => Waits({"login"})

DashboardInv == DashboardShapes /\ WaitsForSomething

-----------------------------------------------------------------------------
\* A goroutine without a command has the shape of one.
LEMMA NoCommandShape == NoCommand \in CommandState /\ NoCommand.kind = "none"
BY DEF NoCommand, CommandState, Kinds

(* A command that starts: the one that ran on its goroutine had no kind.   *)
LEMMA RunsKeeps ==
  ASSUME DashboardShapes, NEW kind \in Kinds, NEW right \in BOOLEAN, Runs(kind, right)
  PROVE  /\ commands' \in [Command -> CommandState]
         /\ \A d \in Command : commands[d].kind # "none" => commands'[d] = commands[d]
<1>1. PICK c \in Free :
        commands' = [commands EXCEPT ![c] =
          [NoCommand EXCEPT !.kind = kind, !.right = right, !.pc = "sends"]]
  BY DEF Runs
<1> DEFINE new == [NoCommand EXCEPT !.kind = kind, !.right = right, !.pc = "sends"]
<1>2. new \in CommandState BY NoCommandShape DEF CommandState
<1>3. c \in Command /\ commands[c].kind = "none" BY DEF Free
<1> HIDE DEF new
<1>4. commands' = [commands EXCEPT ![c] = new] BY <1>1 DEF new
<1> QED BY <1>2, <1>3, <1>4 DEF DashboardShapes

(* A screen that stays as it is, or waits for no more than before, over    *)
(* commands that keep their kinds.                                         *)
LEMMA SameKinds ==
  ASSUME DashboardInv,
         \A d \in Command : commands[d].kind # "none" => commands'[d].kind = commands[d].kind,
         screen'.loading => screen.loading, screen'.auth = screen.auth, ticks' = ticks
  PROVE  WaitsForSomething'
<1>1. \A kinds \in SUBSET (Kinds \ {"none"}) : Waits(kinds) => Waits(kinds)'
  BY DEF Waits
<1>2. {"login", "fetch"} \in SUBSET (Kinds \ {"none"}) BY DEF Kinds
<1>3. {"login", "prompt"} \in SUBSET (Kinds \ {"none"}) BY DEF Kinds
<1>4. {"login"} \in SUBSET (Kinds \ {"none"}) BY DEF Kinds
<1> QED BY <1>1, <1>2, <1>3, <1>4 DEF DashboardInv, WaitsForSomething

\* The dashboard starts with the one command it waits for.
LEMMA DashboardBegins == DashboardInit => DashboardInv
<1> SUFFICES ASSUME DashboardInit PROVE DashboardInv OBVIOUS
<1>1. PICK c \in Command, right \in BOOLEAN, onCommandLine \in BOOLEAN :
        commands = [d \in Command |-> IF d # c THEN NoCommand ELSE
                      IF onCommandLine
                      THEN [NoCommand EXCEPT !.kind = "login", !.right = right, !.pc = "sends"]
                      ELSE [NoCommand EXCEPT !.kind = "prompt", !.pc = "message"]]
  BY DEF DashboardInit
<1>2. /\ [NoCommand EXCEPT !.kind = "login", !.right = right, !.pc = "sends"] \in CommandState
      /\ [NoCommand EXCEPT !.kind = "prompt", !.pc = "message"] \in CommandState
  BY NoCommandShape DEF CommandState, Kinds
<1>3. commands \in [Command -> CommandState] /\ commands[c].kind \in {"login", "prompt"}
  BY <1>1, <1>2, NoCommandShape DEF CommandState
<1>4. screen \in ScreenState /\ ~screen.loading /\ screen.auth = "none"
  BY DEF DashboardInit, initialModel, ScreenState
<1>5. DashboardShapes BY <1>3, <1>4, DashboardAssumption DEF DashboardInit, DashboardShapes
<1>6. ticks = 1 BY DEF DashboardInit, tickCmd
<1> QED BY <1>3, <1>4, <1>5, <1>6 DEF DashboardInv, WaitsForSomething, Waits

(* Requests and answers: each is a change of one command that keeps its    *)
(* kind.                                                                   *)
LEMMA ExchangeKeeps ==
  ASSUME DashboardInv, NEW c \in Command,
         \/ Requests(c) \/ NetworkFails(c) \/ LoginServed(c) \/ DashboardRefused(c)
         \/ DashboardGet(c) \/ Collect(c) \/ ParseDashboard(c)
  PROVE  DashboardInv'
<1> USE DEF ServerStays, Answers
<1>1. ASSUME NEW new \in CommandState, new.kind = commands[c].kind,
             commands' = [commands EXCEPT ![c] = new],
             jar' \in Nat, UNCHANGED <<screen, ticks, secret, flushed, pending>>
      PROVE  DashboardInv'
  <2>1. DashboardShapes' BY <1>1 DEF DashboardInv, DashboardShapes
  <2>2. \A d \in Command : commands'[d].kind = commands[d].kind
    BY <1>1 DEF DashboardInv, DashboardShapes
  <2>3. WaitsForSomething' BY <1>1, <2>2, SameKinds
  <2> QED BY <2>1, <2>3 DEF DashboardInv
<1>0. commands \in [Command -> CommandState] /\ commands[c] \in CommandState
      /\ jar \in Nat /\ secret \in Nat /\ flushed \in Nat /\ pending \in Nat
  BY DEF DashboardInv, DashboardShapes
<1>2. CASE Requests(c)
  <2> DEFINE new == [commands[c] EXCEPT !.pc = "serving", !.cookie = jar]
  <2>1. new \in CommandState /\ new.kind = commands[c].kind BY <1>0 DEF CommandState
  <2>2. commands' = [commands EXCEPT ![c] = new] BY <1>0, <1>2 DEF Requests
  <2> HIDE DEF new
  <2> QED BY <1>0, <1>1, <1>2, <2>1, <2>2 DEF Requests
<1>a. ASSUME NEW reply \in {"ok", "unauthorized", "failed"}, jar' \in Nat,
             commands' = [commands EXCEPT ![c].pc = "message", ![c].reply = reply],
             UNCHANGED <<screen, ticks, secret, flushed, pending>>
      PROVE  DashboardInv'
  <2> DEFINE new == [commands[c] EXCEPT !.pc = "message", !.reply = reply]
  <2>1. new \in CommandState /\ new.kind = commands[c].kind BY <1>0 DEF CommandState
  <2>2. commands' = [commands EXCEPT ![c] = new] BY <1>0, <1>a
  <2> HIDE DEF new
  <2> QED BY <1>1, <1>a, <2>1, <2>2
<1>3. CASE NetworkFails(c) BY <1>0, <1>3, <1>a DEF NetworkFails
<1>4. CASE LoginServed(c) BY <1>0, <1>4, <1>a DEF LoginServed
<1>5. CASE DashboardRefused(c) BY <1>0, <1>5, <1>a DEF DashboardRefused, ClearSessionCookie
<1>6. CASE DashboardGet(c)
  <2> DEFINE new == [commands[c] EXCEPT !.pc = "collects", !.flushed = flushed]
  <2>1. new \in CommandState /\ new.kind = commands[c].kind BY <1>0 DEF CommandState
  <2>2. commands' = [commands EXCEPT ![c] = new] BY <1>0, <1>6 DEF DashboardGet
  <2> HIDE DEF new
  <2> QED BY <1>0, <1>1, <1>6, <2>1, <2>2 DEF DashboardGet
<1>7. CASE Collect(c)
  <2> DEFINE all == commands[c].total + commands[c].flushed + pending
             new == [commands[c] EXCEPT !.pc = "message", !.total = all, !.reply = "ok"]
  <2>1. all \in Nat BY <1>0 DEF CommandState
  <2>2. commands' = [commands EXCEPT ![c] = new] BY <1>0, <1>7 DEF Collect
  <2>3. new \in CommandState /\ new.kind = commands[c].kind
    <3> HIDE DEF all
    <3> QED BY <1>0, <2>1 DEF CommandState
  <2> HIDE DEF new
  <2> QED BY <1>0, <1>1, <1>7, <2>2, <2>3 DEF Collect
<1>8. CASE ParseDashboard(c)
  <2> DEFINE new == [commands[c] EXCEPT !.reply = "failed"]
  <2>1. new \in CommandState /\ new.kind = commands[c].kind BY <1>0 DEF CommandState
  <2>2. commands' = [commands EXCEPT ![c] = new] BY <1>0, <1>8 DEF ParseDashboard
  <2> HIDE DEF new
  <2> QED BY <1>0, <1>1, <1>8, <2>1, <2>2 DEF ParseDashboard
<1> QED BY <1>2, <1>3, <1>4, <1>5, <1>6, <1>7, <1>8

(* Messages: Update takes one command away and settles what waited for it. *)
LEMMA UpdateKeeps ==
  ASSUME DashboardInv, NEW c \in Command, Update(c)
  PROVE  DashboardInv'
<1> USE DEF ServerStays, ReplyArrives
<1>0. /\ commands \in [Command -> CommandState] /\ commands[c] \in CommandState
      /\ screen \in ScreenState
  BY DEF DashboardInv, DashboardShapes
<1>1. ASSUME screen' \in ScreenState, commands' \in [Command -> CommandState],
             UNCHANGED <<jar, secret, flushed, pending>>
      PROVE  DashboardShapes'
  BY <1>1 DEF DashboardInv, DashboardShapes
<1>2. CASE PromptArrives(c) \/ LoginRefused(c) \/ MetricsArrive(c)
  <2>1. commands' = [commands EXCEPT ![c] = NoCommand]
    BY <1>2 DEF PromptArrives, LoginRefused, MetricsArrive, CommandEnds
  <2>2. commands' \in [Command -> CommandState] BY <1>0, <2>1, NoCommandShape
  <2>3. \A d \in Command \ {c} : commands'[d] = commands[d] BY <1>0, <2>1
  <2>4. screen' \in ScreenState
    <3>1. CASE PromptArrives(c) BY <1>0, <3>1 DEF PromptArrives, Prompting, ScreenState
    <3>2. CASE LoginRefused(c) BY <1>0, <3>2 DEF LoginRefused, Prompting, ScreenState
    <3>3. CASE MetricsArrive(c)
      <4>1. commands[c].flushed \in Nat BY <1>0 DEF CommandState
      <4>2. CASE commands[c].reply = "ok"
        BY <1>0, <3>3, <4>1, <4>2 DEF MetricsArrive, ScreenState
      <4>3. CASE commands[c].reply = "unauthorized"
        BY <1>0, <3>3, <4>3 DEF MetricsArrive, ScreenState
      <4>4. CASE commands[c].reply \notin {"ok", "unauthorized"}
        BY <1>0, <3>3, <4>4 DEF MetricsArrive, ScreenState
      <4> QED BY <4>2, <4>3, <4>4
    <3> QED BY <1>2, <3>1, <3>2, <3>3
  <2>5. DashboardShapes'
    BY <1>1, <1>2, <2>2, <2>4 DEF PromptArrives, LoginRefused, MetricsArrive
  <2>6. ticks' = 1
    BY <1>2 DEF DashboardInv, WaitsForSomething, PromptArrives, LoginRefused, MetricsArrive
  <2>7. CASE PromptArrives(c)
    <3>1. screen'.auth = "prompting" /\ screen'.loading = screen.loading
      BY <1>0, <2>7 DEF PromptArrives, Prompting, ScreenState
    <3>2. commands[c].kind = "prompt" BY <2>7 DEF PromptArrives
    <3> QED BY <2>3, <2>5, <2>6, <3>1, <3>2 DEF DashboardInv, WaitsForSomething, Waits
  <2>8. CASE LoginRefused(c)
    <3>1. screen'.auth = "prompting" /\ ~screen'.loading
      BY <1>0, <2>8 DEF LoginRefused, Prompting, ScreenState
    <3> QED BY <2>5, <2>6, <3>1 DEF DashboardInv, WaitsForSomething
  <2>9. CASE MetricsArrive(c)
    <3>1. ~screen'.loading /\ (screen'.auth = screen.auth \/ screen'.auth = "prompting")
      BY <1>0, <2>9 DEF MetricsArrive, ScreenState
    <3>2. commands[c].kind = "fetch" BY <2>9 DEF MetricsArrive
    <3> QED BY <2>3, <2>5, <2>6, <3>1, <3>2 DEF DashboardInv, WaitsForSomething, Waits
  <2> QED BY <1>2, <2>7, <2>8, <2>9
<1>3. CASE SubmittedArrives(c)
  <2> DEFINE new == [NoCommand EXCEPT !.kind = "login", !.right = commands[c].right, !.pc = "sends"]
  <2>1. new \in CommandState /\ new.kind = "login"
    BY <1>0, NoCommandShape DEF CommandState, Kinds
  <2>2. commands' = [commands EXCEPT ![c] = new] BY <1>3 DEF SubmittedArrives, ScreenBecomes
  <2> HIDE DEF new
  <2>3. commands' \in [Command -> CommandState] /\ commands'[c].kind = "login"
    BY <1>0, <2>1, <2>2
  <2>4. screen' \in ScreenState /\ screen'.auth = "authenticating"
    BY <1>0, <1>3 DEF SubmittedArrives, ScreenState
  <2>5. DashboardShapes' BY <1>1, <1>3, <2>3, <2>4 DEF SubmittedArrives
  <2>6. ticks' = 1 BY <1>3 DEF DashboardInv, WaitsForSomething, SubmittedArrives
  <2> QED BY <2>3, <2>4, <2>5, <2>6 DEF DashboardInv, WaitsForSomething, Waits
<1>4. CASE LoginSucceeds(c)
  <2> DEFINE new == [NoCommand EXCEPT !.kind = "fetch", !.right = TRUE, !.pc = "sends"]
  <2>1. new \in CommandState BY NoCommandShape DEF CommandState, Kinds
  <2>2. commands' = [commands EXCEPT ![c] = new] BY <1>4 DEF LoginSucceeds, ScreenBecomes
  <2> HIDE DEF new
  <2>3. commands' \in [Command -> CommandState] BY <1>0, <2>1, <2>2
  <2>4. screen' \in ScreenState /\ screen'.auth = "authenticated" /\ ~screen'.loading
    BY <1>0, <1>4 DEF LoginSucceeds, ScreenState
  <2>5. DashboardShapes' BY <1>1, <1>4, <2>3, <2>4 DEF LoginSucceeds
  <2>6. ticks' = 1 BY <1>4 DEF DashboardInv, WaitsForSomething, LoginSucceeds
  <2> QED BY <2>4, <2>5, <2>6 DEF DashboardInv, WaitsForSomething
<1> QED BY <1>2, <1>3, <1>4 DEF Update

(* The timer, the keys, and what happens on the server.                    *)
LEMMA OthersKeep ==
  ASSUME DashboardInv,
         \/ Tick \/ KeyRefresh \/ KeyPause \/ KeyQuit \/ Flushed \/ SecretChanges
         \/ \E right \in BOOLEAN : handleCredentialInput(right)
  PROVE  DashboardInv'
<1> USE DEF ServerStays
<1>0. /\ commands \in [Command -> CommandState] /\ screen \in ScreenState /\ ticks = 1
      /\ jar \in Nat /\ secret \in Nat /\ flushed \in Nat /\ pending \in Nat
  BY DEF DashboardInv, DashboardShapes, WaitsForSomething
(* The same commands, or one more.                                         *)
<1>1. ASSUME commands' \in [Command -> CommandState],
             \A d \in Command : commands[d].kind # "none" => commands'[d] = commands[d],
             screen' \in ScreenState, screen'.loading => screen.loading,
             screen'.auth = screen.auth, ticks' = ticks,
             jar' \in Nat, secret' \in Nat, flushed' \in Nat, pending' \in Nat
      PROVE  DashboardInv'
  <2>1. WaitsForSomething' BY <1>1, SameKinds
  <2> QED BY <1>1, <2>1 DEF DashboardInv, DashboardShapes
<1>2. ASSUME fetchMetricsCmd
      PROVE  /\ commands' \in [Command -> CommandState]
             /\ \A d \in Command : commands[d].kind # "none" => commands'[d] = commands[d]
             /\ \E c \in Command : commands'[c].kind = "fetch"
  <2>1. "fetch" \in Kinds /\ TRUE \in BOOLEAN /\ DashboardShapes BY DEF Kinds, DashboardInv
  <2>2. Runs("fetch", TRUE) BY <1>2 DEF fetchMetricsCmd
  <2>3. PICK c \in Command :
          commands' = [commands EXCEPT ![c] =
            [NoCommand EXCEPT !.kind = "fetch", !.right = TRUE, !.pc = "sends"]]
    BY <2>2 DEF Runs, Free
  <2>4. commands'[c].kind = "fetch" BY <1>0, <2>3, NoCommandShape DEF CommandState
  <2> QED BY <2>1, <2>2, <2>4, RunsKeeps
<1>3. CASE Tick
  <2>1. ticks' = ticks BY <1>0, <1>3 DEF Tick, tickCmd
  <2>2. /\ commands' \in [Command -> CommandState]
        /\ \A d \in Command : commands[d].kind # "none" => commands'[d] = commands[d]
    BY <1>0, <1>2, <1>3 DEF Tick, RunsNothing
  <2> QED BY <1>0, <1>1, <1>3, <2>1, <2>2 DEF Tick
<1>4. CASE KeyRefresh
  <2>1. fetchMetricsCmd BY <1>4 DEF KeyRefresh
  <2>2. screen' \in ScreenState /\ screen'.auth = "authenticated"
    BY <1>0, <1>4 DEF KeyRefresh, ScreenState
  <2>3. DashboardShapes' BY <1>2, <1>4, <2>1, <2>2 DEF KeyRefresh, DashboardInv, DashboardShapes
  <2>4. ticks' = 1 BY <1>0, <1>4 DEF KeyRefresh
  <2> QED BY <1>2, <2>1, <2>2, <2>3, <2>4 DEF DashboardInv, WaitsForSomething, Waits
<1>5. CASE KeyPause
  <2>1. screen' \in ScreenState /\ screen'.loading = screen.loading /\ screen'.auth = screen.auth
    BY <1>0, <1>5 DEF KeyPause, ScreenState
  <2> QED BY <1>0, <1>1, <1>5, <2>1 DEF KeyPause, RunsNothing
<1>6. CASE KeyQuit
  <2>1. screen' \in ScreenState /\ screen'.loading = screen.loading /\ screen'.auth = screen.auth
    BY <1>0, <1>6 DEF KeyQuit, ScreenState
  <2> QED BY <1>0, <1>1, <1>6, <2>1 DEF KeyQuit, RunsNothing
<1>7. CASE Flushed \/ SecretChanges
  BY <1>0, <1>1, <1>7 DEF Flushed, SecretChanges
<1>8. ASSUME NEW right \in BOOLEAN, handleCredentialInput(right) PROVE DashboardInv'
  <2> DEFINE new == [NoCommand EXCEPT !.kind = "submitted", !.right = right, !.pc = "message"]
  <2>1. new \in CommandState BY NoCommandShape DEF CommandState, Kinds
  <2>2. PICK c \in Free : commands' = [commands EXCEPT ![c] = new]
    BY <1>8 DEF handleCredentialInput
  <2> HIDE DEF new
  <2>3. /\ commands' \in [Command -> CommandState]
        /\ \A d \in Command : commands[d].kind # "none" => commands'[d] = commands[d]
    BY <1>0, <2>1, <2>2 DEF Free
  <2> QED BY <1>0, <1>1, <1>8, <2>3 DEF handleCredentialInput
<1> QED BY <1>3, <1>4, <1>5, <1>6, <1>7, <1>8

(* What no order of the answers can bring: a cookie of a secret that is    *)
(* still to come, or a count the server has not reached.                   *)
FromThePast ==
  /\ jar <= secret /\ screen.shown <= flushed
  /\ \A c \in Command : commands[c].flushed <= flushed

\* No step shows, keeps or hands on what the server has not been at.
LEMMA PastKept ==
  ASSUME DashboardInv, FromThePast, DashboardNext
  PROVE  FromThePast'
<1> USE DEF ServerStays
<1>0. /\ commands \in [Command -> CommandState] /\ screen \in ScreenState
      /\ jar \in Nat /\ secret \in Nat /\ flushed \in Nat
      /\ \A d \in Command : commands[d] \in CommandState
  BY DEF DashboardInv, DashboardShapes
<1>1. ASSUME jar' \in {jar, secret, 0}, secret' \in {secret, secret + 1}, flushed' \in {flushed, flushed + 1},
             screen'.shown = screen.shown \/ \E d \in Command : screen'.shown = commands[d].flushed,
             \A d \in Command : commands'[d].flushed \in {commands[d].flushed, flushed, 0}
      PROVE  FromThePast'
  <2>1. \A d \in Command : commands[d].flushed \in Nat
    BY <1>0 DEF CommandState
  <2>2. jar' <= secret'
    BY <1>0, <1>1 DEF FromThePast
  <2>3. screen'.shown <= flushed'
    <3>1. screen.shown \in Nat
      BY <1>0 DEF ScreenState
    <3>2. screen'.shown <= flushed /\ screen'.shown \in Nat
      BY <1>1, <2>1, <3>1 DEF FromThePast
    <3> QED BY <1>0, <1>1, <3>2
  <2>4. ASSUME NEW d \in Command PROVE commands'[d].flushed <= flushed'
    <3>1. commands'[d].flushed <= flushed /\ commands'[d].flushed \in Nat
      BY <1>0, <1>1, <2>1 DEF FromThePast
    <3> QED BY <1>0, <1>1, <3>1
  <2> QED BY <2>2, <2>3, <2>4 DEF FromThePast
<1>2. ASSUME NEW c \in Command, NEW new, commands' = [commands EXCEPT ![c] = new],
             new.flushed \in {commands[c].flushed, flushed, 0}
      PROVE  \A d \in Command : commands'[d].flushed \in {commands[d].flushed, flushed, 0}
  BY <1>0, <1>2
<1>3. NoCommand.flushed = 0
  BY DEF NoCommand
<1>4. ASSUME NEW kind, NEW right, Runs(kind, right)
      PROVE  \A d \in Command : commands'[d].flushed \in {commands[d].flushed, flushed, 0}
  <2>1. PICK c \in Command :
          commands' = [commands EXCEPT ![c] = [NoCommand EXCEPT !.kind = kind, !.right = right, !.pc = "sends"]]
    BY <1>4 DEF Runs, Free
  <2>2. [NoCommand EXCEPT !.kind = kind, !.right = right, !.pc = "sends"].flushed = 0
    BY DEF NoCommand
  <2> QED BY <1>2, <2>1, <2>2
<1>5. ASSUME UNCHANGED commands
      PROVE  \A d \in Command : commands'[d].flushed \in {commands[d].flushed, flushed, 0}
  BY <1>5
<1>6. CASE Tick
  BY <1>1, <1>4, <1>5, <1>6 DEF Tick, fetchMetricsCmd, RunsNothing
<1>7. CASE KeyRefresh
  <2>1. screen'.shown = screen.shown
    BY <1>0, <1>7 DEF KeyRefresh, ScreenState
  <2> QED BY <1>1, <1>4, <1>7, <2>1 DEF KeyRefresh, fetchMetricsCmd
<1>8. CASE KeyPause \/ KeyQuit
  <2>1. screen'.shown = screen.shown
    BY <1>0, <1>8 DEF KeyPause, KeyQuit, ScreenState
  <2> QED BY <1>1, <1>5, <1>8, <2>1 DEF KeyPause, KeyQuit, RunsNothing
<1>9. CASE Flushed \/ SecretChanges
  BY <1>1, <1>5, <1>9 DEF Flushed, SecretChanges
<1>10. ASSUME NEW right \in BOOLEAN, handleCredentialInput(right) PROVE FromThePast'
  <2>1. PICK c \in Command :
          commands' = [commands EXCEPT ![c] = [NoCommand EXCEPT !.kind = "submitted", !.right = right, !.pc = "message"]]
    BY <1>10 DEF handleCredentialInput, Free
  <2>2. [NoCommand EXCEPT !.kind = "submitted", !.right = right, !.pc = "message"].flushed = 0
    BY DEF NoCommand
  <2>3. \A d \in Command : commands'[d].flushed \in {commands[d].flushed, flushed, 0}
    BY <1>2, <2>1, <2>2
  <2> QED BY <1>1, <1>10, <2>3 DEF handleCredentialInput
<1>11. ASSUME NEW c \in Command,
              \/ Requests(c) \/ NetworkFails(c) \/ LoginServed(c) \/ DashboardRefused(c)
              \/ DashboardGet(c) \/ Collect(c) \/ ParseDashboard(c)
       PROVE  FromThePast'
  <2>1. jar' \in {jar, secret, 0} /\ UNCHANGED <<screen, secret, flushed>>
    BY <1>11 DEF Requests, NetworkFails, LoginServed, DashboardRefused, DashboardGet, Collect,
                 ParseDashboard, ClearSessionCookie
  <2>2. \A d \in Command : commands'[d].flushed \in {commands[d].flushed, flushed, 0}
    <3>1. CASE Requests(c)
      BY <1>0, <3>1 DEF Requests, CommandState
    <3>2. CASE NetworkFails(c) \/ ParseDashboard(c)
      BY <1>0, <3>2 DEF NetworkFails, ParseDashboard, CommandState
    <3>3. CASE LoginServed(c) \/ DashboardRefused(c)
      BY <1>0, <3>3 DEF LoginServed, DashboardRefused, Answers, CommandState
    <3>4. CASE DashboardGet(c)
      BY <1>0, <3>4 DEF DashboardGet, CommandState
    <3>5. CASE Collect(c)
      BY <1>0, <3>5 DEF Collect, CommandState
    <3> QED BY <1>11, <3>1, <3>2, <3>3, <3>4, <3>5
  <2> QED BY <1>1, <2>1, <2>2
<1>12. ASSUME NEW c \in Command, Update(c) PROVE FromThePast'
  <2>1. UNCHANGED <<jar, secret, flushed>>
    BY <1>12 DEF Update, PromptArrives, SubmittedArrives, LoginSucceeds, LoginRefused, MetricsArrive
  <2>2. screen'.shown = screen.shown \/ screen'.shown = commands[c].flushed
    <3>1. CASE PromptArrives(c) \/ LoginRefused(c)
      BY <1>0, <3>1 DEF PromptArrives, LoginRefused, Prompting, ScreenState
    <3>2. CASE SubmittedArrives(c) \/ LoginSucceeds(c)
      BY <1>0, <3>2 DEF SubmittedArrives, LoginSucceeds, ScreenState
    <3>3. CASE MetricsArrive(c)
      <4>1. CASE commands[c].reply = "ok"
        BY <1>0, <3>3, <4>1 DEF MetricsArrive, ScreenState
      <4>2. CASE commands[c].reply # "ok"
        BY <1>0, <3>3, <4>2 DEF MetricsArrive, ScreenState
      <4> QED BY <4>1, <4>2
    <3> QED BY <1>12, <3>1, <3>2, <3>3 DEF Update
  <2>3. \A d \in Command : commands'[d].flushed \in {commands[d].flushed, flushed, 0}
    <3>1. CASE PromptArrives(c) \/ LoginRefused(c) \/ MetricsArrive(c)
      <4>1. commands' = [commands EXCEPT ![c] = NoCommand]
        BY <3>1 DEF PromptArrives, LoginRefused, MetricsArrive, CommandEnds
      <4> QED BY <1>2, <1>3, <4>1
    <3>2. ASSUME NEW kind, NEW right, ScreenBecomes(c, kind, right)
          PROVE  \A d \in Command : commands'[d].flushed \in {commands[d].flushed, flushed, 0}
      <4>1. commands' = [commands EXCEPT ![c] = [NoCommand EXCEPT !.kind = kind, !.right = right, !.pc = "sends"]]
        BY <3>2 DEF ScreenBecomes
      <4>2. [NoCommand EXCEPT !.kind = kind, !.right = right, !.pc = "sends"].flushed = 0
        BY DEF NoCommand
      <4> QED BY <1>2, <4>1, <4>2
    <3>3. CASE SubmittedArrives(c)
      BY <3>2, <3>3 DEF SubmittedArrives
    <3>4. CASE LoginSucceeds(c)
      BY <3>2, <3>4 DEF LoginSucceeds
    <3> QED BY <1>12, <3>1, <3>3, <3>4 DEF Update
  <2> QED BY <1>1, <2>1, <2>2, <2>3
<1> QED BY <1>6, <1>7, <1>8, <1>9, <1>10, <1>11, <1>12 DEF DashboardNext

(* Whatever a screen of the dashboard waits for is under way (Init,        *)
(* Update), for every number of commands and every order of the answers,   *)
(* and it shows nothing that the server has not counted yet.               *)
THEOREM DashboardNeverStuck == DashboardSpec => [](DashboardTypeOK /\ NeverStuck)
<1>1. DashboardInit => DashboardInv BY DashboardBegins
<1>2. DashboardInv /\ [DashboardNext]_dashboardVars => DashboardInv'
  <2> SUFFICES ASSUME DashboardInv, [DashboardNext]_dashboardVars PROVE DashboardInv' OBVIOUS
  <2>1. CASE DashboardNext BY <2>1, OthersKeep, ExchangeKeeps, UpdateKeeps DEF DashboardNext
  <2>2. CASE UNCHANGED dashboardVars
    BY <2>2 DEF dashboardVars, DashboardInv, DashboardShapes, WaitsForSomething, Waits
  <2> QED BY <2>1, <2>2
<1>3. DashboardInv => NeverStuck
  <2>1. \A kinds : Waits(kinds) => InFlight(kinds) # {} BY DEF Waits, InFlight
  <2> QED BY <2>1 DEF DashboardInv, WaitsForSomething, NeverStuck
<1>4. DashboardInit => FromThePast
  <2> SUFFICES ASSUME DashboardInit PROVE FromThePast OBVIOUS
  <2>1. jar = 0 /\ secret = 1 /\ flushed = 1 /\ screen.shown = 0
    BY DEF DashboardInit, initialModel
  <2>2. \A d \in Command : commands[d].flushed = 0
    <3>1. /\ NoCommand.flushed = 0
          /\ [NoCommand EXCEPT !.kind = "prompt", !.pc = "message"].flushed = 0
          /\ \A right : [NoCommand EXCEPT !.kind = "login", !.right = right, !.pc = "sends"].flushed = 0
      BY DEF NoCommand
    <3> QED BY <3>1 DEF DashboardInit
  <2> QED BY <2>1, <2>2 DEF FromThePast
<1>5. DashboardInv /\ FromThePast /\ [DashboardNext]_dashboardVars => FromThePast'
  <2>1. ASSUME FromThePast, UNCHANGED dashboardVars PROVE FromThePast'
    BY <2>1 DEF dashboardVars, FromThePast
  <2> QED BY <2>1, PastKept
<1>6. DashboardInv /\ FromThePast => DashboardTypeOK
  <2> SUFFICES ASSUME DashboardInv, FromThePast PROVE DashboardTypeOK OBVIOUS
  <2>1. ticks = 1 /\ jar \in Nat /\ secret \in Nat /\ flushed \in Nat /\ screen.shown \in Nat
    BY DEF DashboardInv, DashboardShapes, WaitsForSomething, ScreenState
  <2>2. ticks \in Nat /\ jar \in 0..secret /\ screen.shown \in 0..flushed
    BY <2>1 DEF FromThePast
  <2>3. View \in {"goodbye", "login", "dashboard", "connecting", "loading"}
    BY DEF View
  <2> QED BY <2>2, <2>3 DEF DashboardTypeOK
<1> QED BY <1>1, <1>2, <1>3, <1>4, <1>5, <1>6, PTL DEF DashboardSpec

-----------------------------------------------------------------------------
(* The configuration.                                                      *)

IsConfig(cfg) == cfg = [k \in ConfigKey |-> cfg[k]] /\ Configuration(cfg)
WritingSteps == {"saving", "saved", "updated", "applied"}
IsUnderway(r) ==
  /\ r \in [step : {"built"} \cup WritingSteps, op : {"post", "restore", "etag", "cli"},
            old : {r.old}, new : {r.new}, left : SUBSET ConfigKey]
  /\ IsConfig(r.old) /\ IsConfig(r.new)

ConfigShapes ==
  /\ IsConfig(stored) /\ IsConfig(memory) /\ IsConfig(running)
  /\ lastKnownGood = <<>> \/ IsConfig(lastKnownGood)
  /\ request = [a \in Admin |-> request[a]]
  /\ \A a \in Admin : request[a] = Quiet \/ IsUnderway(request[a])
  /\ restartNeeded \in BOOLEAN /\ today \in 0..MaxDay /\ saveFaults \in Nat

(* What is written is valid. *)
ValidIsWritten ==
  /\ RecoveryIsValid
  /\ \A a \in Admin : request[a].step = "saving" => Validate(request[a].new)

(* The command line: who may have put it aside. *)
Announces(a) == Between(a) /\ RestartKeys(request[a]) # {}
CliIsKept ==
  \A k \in CliKeys : memory[k] # CliValue[k] =>
     k \in RestartSetting /\ (restartNeeded \/ \E a \in Admin : Announces(a))

(* A change of the version touches nothing else. *)
OnlyTheTag ==
  \A a \in Admin : request[a].op \in {"etag", "cli"} =>
     \A k \in RestartSetting : request[a].old[k] = request[a].new[k]

(* A setting that no request has touched since the start. *)
Alters(a, k) == /\ request[a].step \in WritingSteps
                /\ request[a].old[k] # request[a].new[k]
Touched(k) == restartNeeded \/ saveFaults # 0 \/ \E a \in Admin : Alters(a, k)
AsStarted(k) ==
  /\ memory[k] = running[k]
  /\ running[k] = (IF k \in CliKeys THEN CliValue[k] ELSE stored[k])
UntouchedStays ==
  \A k \in RestartSetting : Touched(k) \/
     /\ \A a \in Admin : request[a] # Quiet => request[a].old[k] = stored[k]
     /\ ReplacedAtStart(k) \/ AsStarted(k)

ConfigInv == ConfigShapes /\ ValidIsWritten /\ CliIsKept /\ OnlyTheTag /\ UntouchedStays

-----------------------------------------------------------------------------
\* The version is a key of its own beside the settings.
LEMMA TagIsNoSetting ==
  /\ Tag \notin Setting /\ Tag \in ConfigKey /\ Setting \subseteq ConfigKey
  /\ CliKeys \subseteq Setting /\ YamlKeys \subseteq Setting /\ RestartSetting \subseteq Setting
  /\ "idle" \in Setting /\ "pool" \in Setting
  /\ \A k \in CliKeys : CliValue[k] \in Nat
  /\ \A k \in YamlKeys : YamlValue[k] \in Nat
BY ConfigAssumption DEF Tag, ConfigKey, CliKeys, YamlKeys, Accepts

\* What the command line, MergeDefaults, a YAML file, the start and the
\* defaults make of a configuration, setting by setting.
LEMMA CliConfig ==
  ASSUME NEW cfg, IsConfig(cfg), NEW X
  PROVE  /\ IsConfig(WithCli(cfg, X))
         /\ \A k \in ConfigKey :
              WithCli(cfg, X)[k] = (IF k \in CliKeys \ X THEN CliValue[k] ELSE cfg[k])
BY TagIsNoSetting DEF IsConfig, Configuration, WithCli

\* A zero is a missing value to MergeDefaults.
LEMMA MergedConfig ==
  ASSUME NEW cfg, IsConfig(cfg)
  PROVE  /\ IsConfig(MergeDefaults(cfg))
         /\ \A k \in Setting : MergeDefaults(cfg)[k] = (IF cfg[k] = 0 THEN Default[k] ELSE cfg[k])
BY TagIsNoSetting, ConfigAssumption DEF IsConfig, Configuration, MergeDefaults

\* LoadFromYAML changes only the file's keys.
LEMMA YamlConfig ==
  ASSUME NEW cfg, IsConfig(cfg), NEW y \in LoadFromYAML(cfg)
  PROVE  /\ IsConfig(y)
         /\ \A k \in Setting \ YamlKeys : y[k] = cfg[k]
<1>1. PICK S \in SUBSET YamlKeys : y = [k \in ConfigKey |-> IF k \in S THEN YamlValue[k] ELSE cfg[k]]
  BY DEF LoadFromYAML
<1> QED BY <1>1, TagIsNoSetting DEF IsConfig, Configuration

\* A start keeps every value that is not zero and that nothing overrides.
LEMMA StartConfig ==
  ASSUME NEW rows, IsConfig(rows), NEW m \in StartValues(rows)
  PROVE  /\ IsConfig(m)
         /\ IsConfig(Served(m))
         /\ \A k \in CliKeys : Served(m)[k] = CliValue[k]
         /\ \A k \in Setting \ YamlKeys : rows[k] # 0 /\ (k \in CliKeys => CliValue[k] # 0) =>
              /\ m[k] = (IF k \in CliKeys THEN CliValue[k] ELSE rows[k])
              /\ Served(m)[k] = m[k]
<1>1. IsConfig(MergeDefaults(rows))
  BY MergedConfig
<1>2. PICK y \in LoadFromYAML(MergeDefaults(rows)) : m = MergeDefaults(WithCli(y, {}))
  BY DEF StartValues
<1>3. IsConfig(y) /\ \A k \in Setting \ YamlKeys : y[k] = MergeDefaults(rows)[k]
  BY <1>1, YamlConfig
<1>4. /\ IsConfig(WithCli(y, {}))
      /\ \A k \in ConfigKey : WithCli(y, {})[k] = (IF k \in CliKeys THEN CliValue[k] ELSE y[k])
  BY <1>3, CliConfig
<1>5. /\ IsConfig(m)
      /\ \A k \in Setting : m[k] = (IF WithCli(y, {})[k] = 0 THEN Default[k] ELSE WithCli(y, {})[k])
  BY <1>2, <1>4, MergedConfig
<1>6. \A k \in Setting : MergeDefaults(rows)[k] = (IF rows[k] = 0 THEN Default[k] ELSE rows[k])
  BY MergedConfig
<1>7. \A k \in Setting \ YamlKeys : rows[k] # 0 /\ (k \in CliKeys => CliValue[k] # 0)
        => m[k] = (IF k \in CliKeys THEN CliValue[k] ELSE rows[k])
  BY <1>3, <1>4, <1>5, <1>6, TagIsNoSetting
<1>8. /\ IsConfig(Served(m))
      /\ \A k \in ConfigKey : Served(m)[k] = (IF k \in CliKeys THEN CliValue[k] ELSE m[k])
  BY <1>5, CliConfig DEF Served
<1> QED BY <1>5, <1>7, <1>8, TagIsNoSetting

\* The defaults are a configuration.
LEMMA DefaultConfig ==
  /\ IsConfig([k \in ConfigKey |-> IF k = Tag THEN [day |-> 0, number |-> 0] ELSE Default[k]])
BY TagIsNoSetting, ConfigAssumption DEF IsConfig, Configuration, ConfigKey

\* A new version is a version, and nothing else changes.
LEMMA VersionIncrements ==
  ASSUME NEW cfg, IsConfig(cfg), today \in 0..MaxDay
  PROVE  /\ IsConfig([cfg EXCEPT ![Tag] = IncrementETagVersion(cfg[Tag])])
         /\ \A k \in Setting : [cfg EXCEPT ![Tag] = IncrementETagVersion(cfg[Tag])][k] = cfg[k]
<1>1. IncrementETagVersion(cfg[Tag]) \in [day: 0 .. MaxDay, number: 0 .. MaxNumber + 1]
  BY ConfigAssumption DEF IsConfig, Configuration, IncrementETagVersion
<1> QED BY <1>1, TagIsNoSetting DEF IsConfig, Configuration

\* The state after a start.
LEMMA ConfigBegins == ConfigInit => ConfigInv
<1> SUFFICES ASSUME ConfigInit PROVE ConfigInv
  OBVIOUS
<1>1. IsConfig(stored)
  BY DefaultConfig DEF ConfigInit
<1>2. running \in StartValues(stored) /\ memory = Served(running)
  BY DEF ConfigInit
<1>3. /\ IsConfig(running) /\ IsConfig(memory)
      /\ \A k \in CliKeys : memory[k] = CliValue[k]
      /\ \A k \in Setting \ YamlKeys : stored[k] # 0 /\ (k \in CliKeys => CliValue[k] # 0) =>
           /\ running[k] = (IF k \in CliKeys THEN CliValue[k] ELSE stored[k])
           /\ memory[k] = running[k]
  BY <1>1, <1>2, StartConfig
<1>4. ConfigShapes
  <2>1. today \in 0..MaxDay
    BY ConfigAssumption DEF ConfigInit
  <2> QED BY <1>1, <1>2, <1>3, <2>1 DEF ConfigShapes, ConfigInit
<1>5. ValidIsWritten
  BY DEF ValidIsWritten, RecoveryIsValid, ConfigInit, Quiet
<1>6. CliIsKept
  BY <1>3 DEF CliIsKept
<1>7. OnlyTheTag
  BY DEF OnlyTheTag, ConfigInit, Quiet
<1>8. UntouchedStays
  BY <1>2, <1>3, TagIsNoSetting DEF UntouchedStays, ConfigInit, ReplacedAtStart, AsStarted, Quiet
<1> QED BY <1>4, <1>5, <1>6, <1>7, <1>8 DEF ConfigInv

\* A candidate is a configuration, and one of the version changes only that.
LEMMA CandidatesFit ==
  ASSUME ConfigShapes, NEW op \in {"post", "restore", "etag", "cli"}, NEW new \in Candidates(op)
  PROVE  /\ IsConfig(new)
         /\ op \in {"etag", "cli"} => \A k \in Setting : new[k] = stored[k]
<1> USE DEF ConfigShapes
<1>1. CASE op = "post"
  <2>1. PICK form \in Form : FormAccepted(form) /\ new = Overlaid(form)
    BY <1>1 DEF Candidates
  <2>2. \A k \in DOMAIN form : k \in Setting /\ form[k] \in Nat
    BY <2>1, ConfigAssumption DEF FormAccepted, Accepts
  <2>3. IsConfig(new)
    <3>1. new = [k \in ConfigKey |-> IF k \in DOMAIN form THEN form[k] ELSE stored[k]]
      BY <2>1 DEF Overlaid
    <3>2. new[Tag] = stored[Tag]
      BY <2>2, <3>1, TagIsNoSetting
    <3>3. \A k \in Setting : new[k] \in Nat
      BY <2>2, <3>1, TagIsNoSetting DEF IsConfig, Configuration
    <3> QED BY <3>1, <3>2, <3>3 DEF IsConfig, Configuration
  <2> QED BY <1>1, <2>3
<1>2. CASE op = "restore"
  BY <1>2 DEF Candidates, RestoreLastKnownGood
<1>3. CASE op \in {"etag", "cli"}
  <2>1. new = [stored EXCEPT ![Tag] = IncrementETagVersion(stored[Tag])]
    BY <1>3 DEF Candidates
  <2> QED BY <2>1, VersionIncrements
<1> QED BY <1>1, <1>2, <1>3

\* Every step keeps the shapes of the state.
LEMMA ShapesKept == ConfigShapes /\ [ConfigNext]_configVars => ConfigShapes'
<1> SUFFICES ASSUME ConfigShapes, [ConfigNext]_configVars PROVE ConfigShapes'
  OBVIOUS
<1> USE DEF ConfigShapes
<1>0. \A cfg : IsConfig(cfg)' <=> IsConfig(cfg)
  BY DEF IsConfig, Configuration
<1>a. \A a \in Admin : request[a] # Quiet => IsUnderway(request[a])
  OBVIOUS
<1>b. ASSUME NEW a \in Admin, NEW r, request' = [request EXCEPT ![a] = r], r = Quiet \/ IsUnderway(r)
      PROVE  /\ request' = [c \in Admin |-> request'[c]]
             /\ \A c \in Admin : request'[c] = Quiet \/ IsUnderway(request'[c])
  BY <1>b
<1>c. ASSUME NEW r, IsUnderway(r), NEW step \in {"built"} \cup WritingSteps
      PROVE  IsUnderway([r EXCEPT !.step = step])
  BY <1>c DEF IsUnderway
<1>1. ASSUME NEW a \in Admin, RequestLoads(a) PROVE ConfigShapes'
  <2>1. PICK op \in {"post", "restore", "etag", "cli"} : \E new \in Candidates(op) :
          request' = [request EXCEPT ![a] = [step |-> "built", op |-> op, old |-> stored,
                                             new |-> new, left |-> {}]]
    BY <1>1 DEF RequestLoads, Becomes
  <2>4. PICK new \in Candidates(op) :
          request' = [request EXCEPT ![a] = [step |-> "built", op |-> op, old |-> stored,
                                             new |-> new, left |-> {}]]
    BY <2>1
  <2>2. IsConfig(new)
    BY CandidatesFit
  <2>3. IsUnderway([step |-> "built", op |-> op, old |-> stored, new |-> new, left |-> {}])
    BY <2>2 DEF IsUnderway
  <2> QED BY <1>1, <1>b, <2>4, <2>3 DEF RequestLoads
<1>2. ASSUME NEW a \in Admin, RequestValidates(a) PROVE ConfigShapes'
  <2>1. IsUnderway(request[a])
    BY <1>2, <1>a DEF RequestValidates, Quiet
  <2>2. IsUnderway([request[a] EXCEPT !.step = "saving", !.left = ConfigKey])
    BY <2>1 DEF IsUnderway, WritingSteps
  <2> QED BY <1>2, <1>b, <2>2 DEF RequestValidates, Becomes, Ends
<1>3. ASSUME NEW a \in Admin, RequestSaves(a) PROVE ConfigShapes'
  <2>1. IsUnderway(request[a])
    BY <1>3, <1>a DEF RequestSaves, Quiet
  <2>2. CASE \E k \in request[a].left :
          /\ stored' = [stored EXCEPT ![k] = request[a].new[k]]
          /\ Becomes(a, [request[a] EXCEPT !.left = @ \ {k}])
          /\ UNCHANGED saveFaults
    <3>1. PICK k \in request[a].left :
          /\ stored' = [stored EXCEPT ![k] = request[a].new[k]]
          /\ request' = [request EXCEPT ![a] = [request[a] EXCEPT !.left = @ \ {k}]]
      BY <2>2 DEF Becomes
    <3>2. IsUnderway([request[a] EXCEPT !.left = @ \ {k}])
      BY <2>1 DEF IsUnderway
    <3>3. IsConfig(stored')
      <4>1. k \in ConfigKey /\ IsConfig(request[a].new)
        BY <2>1 DEF IsUnderway
      <4>2. stored' = [j \in ConfigKey |-> IF j = k THEN request[a].new[k] ELSE stored[j]]
        BY <3>1, <4>1 DEF IsConfig
      <4> QED BY <4>1, <4>2, TagIsNoSetting DEF IsConfig, Configuration
    <3> QED BY <1>3, <1>b, <2>2, <3>1, <3>2, <3>3 DEF RequestSaves
  <2>3. CASE Ends(a) /\ UNCHANGED stored /\ saveFaults' = saveFaults + 1
    BY <1>3, <1>b, <2>3 DEF RequestSaves, Ends, Becomes
  <2> QED BY <1>3, <2>2, <2>3 DEF RequestSaves
<1>4. ASSUME NEW a \in Admin, RecoverySaved(a) PROVE ConfigShapes'
  <2>1. IsUnderway(request[a])
    BY <1>4, <1>a DEF RecoverySaved, Quiet
  <2>2. IsUnderway([request[a] EXCEPT !.step = "saved"])
    BY <2>1, <1>c DEF WritingSteps
  <2>3. lastKnownGood' = lastKnownGood \/ IsConfig(lastKnownGood')
    BY <1>4, <2>1 DEF RecoverySaved, IsUnderway
  <2>4. saveFaults' \in Nat
    BY <1>4 DEF RecoverySaved
  <2> QED BY <1>4, <1>b, <2>2, <2>3, <2>4 DEF RecoverySaved, Advances, Becomes
<1>5. ASSUME NEW a \in Admin, RequestUpdates(a) PROVE ConfigShapes'
  <2> DEFINE r == request[a]
  <2>1. IsUnderway(r)
    BY <1>5, <1>a DEF RequestUpdates, Quiet
  <2>2. CASE r.op = "cli"
    BY <1>5, <1>b, <2>2 DEF RequestUpdates, Ends, Becomes
  <2>3. CASE r.op = "etag"
    <3>1. IsUnderway([r EXCEPT !.step = "updated", !.new = stored, !.old = stored])
      BY <2>1 DEF IsUnderway, WritingSteps
    <3>2. IsConfig(memory')
      BY <1>5, <2>3, CliConfig DEF RequestUpdates
    <3> QED BY <1>5, <1>b, <2>3, <3>1, <3>2 DEF RequestUpdates, Becomes
  <2>4. CASE r.op \notin {"cli", "etag"}
    <3>1. IsUnderway([r EXCEPT !.step = "updated"])
      BY <2>1, <1>c DEF WritingSteps
    <3>2. IsConfig(r.new)
      BY <2>1 DEF IsUnderway
    <3>3. IsConfig(memory')
      BY <1>5, <2>4, <3>2, CliConfig DEF RequestUpdates
    <3> QED BY <1>5, <1>b, <2>4, <3>1, <3>3 DEF RequestUpdates, Advances, Becomes
  <2> QED BY <2>2, <2>3, <2>4
<1>6. ASSUME NEW a \in Admin, RequestApplies(a) PROVE ConfigShapes'
  <2>1. IsUnderway(request[a])
    BY <1>6, <1>a DEF RequestApplies, Quiet
  <2>2. IsUnderway([request[a] EXCEPT !.step = "applied"])
    BY <2>1, <1>c DEF WritingSteps
  <2> QED BY <1>6, <1>b, <2>2 DEF RequestApplies, Advances, Becomes
<1>7. ASSUME NEW a \in Admin, RequestAnswers(a) PROVE ConfigShapes'
  BY <1>7, <1>b DEF RequestAnswers, Ends, Becomes
<1>8. CASE ConfigRestarts
  <2>1. IsConfig(stored') /\ IsConfig(running')
    BY <1>8, StartConfig, CliConfig DEF ConfigRestarts
  <2>2. IsConfig(memory')
    BY <1>8, <2>1, CliConfig DEF ConfigRestarts, Served
  <2> QED BY <1>8, <2>1, <2>2 DEF ConfigRestarts
<1>9. CASE DayPasses
  BY <1>9, ConfigAssumption DEF DayPasses
<1>10. CASE UNCHANGED configVars
  BY <1>10 DEF configVars
<1> QED BY <1>1, <1>2, <1>3, <1>4, <1>5, <1>6, <1>7, <1>8, <1>9, <1>10 DEF ConfigNext

(* What a handler does to its own record: it is over, or it goes on with   *)
(* the change it has.                                                      *)
Goes(a, step) ==
  /\ request'[a].step = step /\ request'[a].op = request[a].op
  /\ request'[a].old = request[a].old /\ request'[a].new = request[a].new
  /\ request'[a] # Quiet
Reloads(a) ==
  /\ request'[a].step = "updated" /\ request'[a].op = request[a].op
  /\ request'[a].old = stored /\ request'[a].new = stored
  /\ request'[a] # Quiet

\* One request moves at a time.
LEMMA RequestMoves ==
  ASSUME ConfigShapes, NEW a \in Admin, NEW r, Becomes(a, r)
  PROVE  request'[a] = r /\ \A c \in Admin : c # a => request'[c] = request[c]
BY DEF ConfigShapes, Becomes

\* What a request carries from one of its steps to the next.
LEMMA RequestGoes ==
  ASSUME ConfigShapes, NEW a \in Admin, IsUnderway(request[a])
  PROVE  /\ \A step \in WritingSteps : Advances(a, step) => Goes(a, step)
         /\ \A l : Becomes(a, [request[a] EXCEPT !.step = "saving", !.left = l]) => Goes(a, "saving")
         /\ \A l : Becomes(a, [request[a] EXCEPT !.left = l]) => Goes(a, request[a].step)
         /\ Becomes(a, [request[a] EXCEPT !.step = "updated", !.new = stored, !.old = stored])
              => Reloads(a)
<1>1. request[a] \in [step : {"built"} \cup WritingSteps, op : {"post", "restore", "etag", "cli"},
            old : {request[a].old}, new : {request[a].new}, left : SUBSET ConfigKey]
  BY DEF IsUnderway
<1>2. "idle" \notin {"built"} \cup WritingSteps
  BY DEF WritingSteps
<1>3. ASSUME NEW step \in WritingSteps, Advances(a, step) PROVE Goes(a, step)
  <2>1. request'[a] = [request[a] EXCEPT !.step = step]
    BY <1>3, RequestMoves DEF Advances
  <2> QED BY <1>1, <1>2, <2>1 DEF Goes, Quiet
<1>4. ASSUME NEW l, Becomes(a, [request[a] EXCEPT !.step = "saving", !.left = l])
      PROVE  Goes(a, "saving")
  <2>1. request'[a] = [request[a] EXCEPT !.step = "saving", !.left = l]
    BY <1>4, RequestMoves
  <2>2. request'[a] = [step |-> "saving", op |-> request[a].op, old |-> request[a].old,
                       new |-> request[a].new, left |-> l]
    BY <1>1, <2>1
  <2> QED BY <2>2 DEF Goes, Quiet
<1>5. ASSUME NEW l, Becomes(a, [request[a] EXCEPT !.left = l])
      PROVE  Goes(a, request[a].step)
  <2>1. request'[a] = [request[a] EXCEPT !.left = l]
    BY <1>5, RequestMoves
  <2> QED BY <1>1, <1>2, <2>1 DEF Goes, Quiet
<1>6. ASSUME Becomes(a, [request[a] EXCEPT !.step = "updated", !.new = stored, !.old = stored])
      PROVE  Reloads(a)
  <2>1. request'[a] = [request[a] EXCEPT !.step = "updated", !.new = stored, !.old = stored]
    BY <1>6, RequestMoves
  <2>2. request'[a] = [step |-> "updated", op |-> request[a].op, old |-> stored,
                       new |-> stored, left |-> request[a].left]
    BY <1>1, <2>1
  <2> QED BY <2>2 DEF Reloads, Quiet
<1> QED BY <1>3, <1>4, <1>5, <1>6

OthersStay(a) == \A c \in Admin : c # a => request'[c] = request[c]
IsOver(a) == request'[a] = Quiet

\* The effect of each step of a request on itself and the others.
LEMMA RequestSteps ==
  ASSUME ConfigShapes, NEW a \in Admin
  PROVE  /\ RequestLoads(a) => OthersStay(a) /\ request[a] = Quiet
         /\ RequestValidates(a) =>
              OthersStay(a) /\ (IsOver(a) \/ (Validate(request[a].new) /\ Goes(a, "saving")))
         /\ RequestSaves(a) => OthersStay(a) /\ (IsOver(a) \/ Goes(a, "saving"))
         /\ RecoverySaved(a) => OthersStay(a) /\ Goes(a, "saved")
         /\ RequestUpdates(a) => OthersStay(a) /\
              \/ request[a].op = "cli" /\ IsOver(a) /\ memory' = memory
              \/ request[a].op = "etag" /\ Reloads(a) /\ memory' = WithCli(stored, {})
              \/ /\ request[a].op \notin {"cli", "etag"} /\ Goes(a, "updated")
                 /\ memory' = WithCli(request[a].new, RestartKeys(request[a]))
         /\ RequestApplies(a) => OthersStay(a) /\ Goes(a, "applied")
         /\ RequestAnswers(a) => OthersStay(a) /\ IsOver(a)
<1>u. request[a].step # "idle" => IsUnderway(request[a])
  BY DEF ConfigShapes, Quiet
<1>w. {"saving", "saved", "updated", "applied"} = WritingSteps
  BY DEF WritingSteps
<1>1. ASSUME RequestLoads(a) PROVE OthersStay(a) /\ request[a] = Quiet
  <2>1. request[a] = Quiet
    BY <1>1, <1>w DEF ConfigShapes, IsUnderway, RequestLoads, WritingSteps
  <2> QED BY <1>1, <2>1, RequestMoves DEF RequestLoads, OthersStay
<1>2. ASSUME RequestValidates(a)
      PROVE  OthersStay(a) /\ (IsOver(a) \/ (Validate(request[a].new) /\ Goes(a, "saving")))
  BY <1>2, <1>u, RequestMoves, RequestGoes DEF RequestValidates, Ends, OthersStay, IsOver
<1>3. ASSUME RequestSaves(a) PROVE OthersStay(a) /\ (IsOver(a) \/ Goes(a, "saving"))
  <2>1. CASE Ends(a)
    BY <2>1, RequestMoves DEF Ends, OthersStay, IsOver
  <2>2. CASE \E k \in request[a].left : Becomes(a, [request[a] EXCEPT !.left = request[a].left \ {k}])
    BY <1>3, <1>u, <2>2, RequestMoves, RequestGoes DEF RequestSaves, OthersStay
  <2> QED BY <1>3, <2>1, <2>2 DEF RequestSaves
<1>4. ASSUME RecoverySaved(a) PROVE OthersStay(a) /\ Goes(a, "saved")
  <2>1. Advances(a, "saved")
    BY <1>4 DEF RecoverySaved
  <2>2. Goes(a, "saved")
    BY <1>4, <1>u, <1>w, <2>1, RequestGoes DEF RecoverySaved
  <2> QED BY <2>1, <2>2, RequestMoves DEF Advances, OthersStay
<1>5. ASSUME RequestUpdates(a)
      PROVE  OthersStay(a) /\
              \/ request[a].op = "cli" /\ IsOver(a) /\ memory' = memory
              \/ request[a].op = "etag" /\ Reloads(a) /\ memory' = WithCli(stored, {})
              \/ /\ request[a].op \notin {"cli", "etag"} /\ Goes(a, "updated")
                 /\ memory' = WithCli(request[a].new, RestartKeys(request[a]))
  <2>1. IsUnderway(request[a])
    BY <1>5, <1>u DEF RequestUpdates
  <2>2. CASE request[a].op = "cli"
    BY <1>5, <2>2, RequestMoves DEF RequestUpdates, Ends, OthersStay, IsOver
  <2>3. CASE request[a].op = "etag"
    <3>1. /\ memory' = WithCli(stored, {})
          /\ Becomes(a, [request[a] EXCEPT !.step = "updated", !.new = stored, !.old = stored])
      BY <1>5, <2>3 DEF RequestUpdates
    <3> QED BY <2>1, <2>3, <3>1, RequestMoves, RequestGoes DEF OthersStay
  <2>4. CASE request[a].op \notin {"cli", "etag"}
    <3>1. memory' = WithCli(request[a].new, RestartKeys(request[a])) /\ Advances(a, "updated")
      BY <1>5, <2>4 DEF RequestUpdates
    <3>2. Goes(a, "updated")
      BY <1>w, <2>1, <3>1, RequestGoes
    <3> QED BY <2>4, <3>1, <3>2, RequestMoves DEF Advances, OthersStay
  <2> QED BY <2>2, <2>3, <2>4
<1>6. ASSUME RequestApplies(a) PROVE OthersStay(a) /\ Goes(a, "applied")
  <2>1. Advances(a, "applied")
    BY <1>6 DEF RequestApplies
  <2>2. Goes(a, "applied")
    BY <1>6, <1>u, <1>w, <2>1, RequestGoes DEF RequestApplies
  <2> QED BY <2>1, <2>2, RequestMoves DEF Advances, OthersStay
<1>7. ASSUME RequestAnswers(a) PROVE OthersStay(a) /\ IsOver(a)
  BY <1>7, RequestMoves DEF RequestAnswers, Ends, OthersStay, IsOver
<1> QED BY <1>1, <1>2, <1>3, <1>4, <1>5, <1>6, <1>7

\* What is saved has passed Validate, and so has what a recovery restores.
LEMMA ValidKept == ConfigShapes /\ ValidIsWritten /\ [ConfigNext]_configVars => ValidIsWritten'
<1> SUFFICES ASSUME ConfigShapes, ValidIsWritten, [ConfigNext]_configVars PROVE ValidIsWritten'
  OBVIOUS
<1> USE DEF ValidIsWritten, RecoveryIsValid
<1>0. \A cfg : Validate(cfg)' <=> Validate(cfg)
  BY DEF Validate
<1>1. ASSUME NEW a \in Admin, RequestLoads(a) PROVE ValidIsWritten'
  BY <1>0, <1>1, RequestMoves DEF RequestLoads
<1>2. ASSUME NEW a \in Admin, RequestValidates(a) PROVE ValidIsWritten'
  <2>1. /\ \A c \in Admin : c # a => request'[c] = request[c]
        /\ request'[a].step = "saving" => Validate(request'[a].new)
    BY <1>2, RequestSteps DEF OthersStay, IsOver, Goes, Quiet
  <2> QED BY <1>0, <1>2, <2>1 DEF RequestValidates
<1>3. ASSUME NEW a \in Admin, RequestSaves(a) PROVE ValidIsWritten'
  BY SMTT(30), <1>0, <1>3, RequestSteps DEF RequestSaves, OthersStay, IsOver, Goes, Quiet
<1>4. ASSUME NEW a \in Admin, RecoverySaved(a) PROVE ValidIsWritten'
  BY <1>0, <1>4, RequestSteps DEF RecoverySaved, OthersStay, Goes
<1>5. ASSUME NEW a \in Admin, RequestUpdates(a) PROVE ValidIsWritten'
  <2>1. OthersStay(a) /\ request'[a].step # "saving"
    BY <1>5, RequestSteps DEF IsOver, Goes, Reloads, Quiet
  <2> QED BY <1>0, <1>5, <2>1 DEF RequestUpdates, OthersStay
<1>6. ASSUME NEW a \in Admin, RequestApplies(a) \/ RequestAnswers(a) PROVE ValidIsWritten'
  <2>1. OthersStay(a) /\ request'[a].step # "saving"
    BY <1>6, RequestSteps DEF IsOver, Goes, Quiet
  <2> QED BY <1>0, <1>6, <2>1 DEF RequestApplies, RequestAnswers, OthersStay
<1>7. CASE ConfigRestarts \/ DayPasses \/ UNCHANGED configVars
  BY <1>0, <1>7 DEF ConfigRestarts, DayPasses, configVars, Quiet
<1> QED BY <1>1, <1>2, <1>3, <1>4, <1>5, <1>6, <1>7 DEF ConfigNext

\* Only a save that announces a restart puts a command line value aside.
LEMMA CliKept ==
  ConfigShapes /\ CliIsKept /\ [ConfigNext]_configVars => CliIsKept'
<1> SUFFICES ASSUME ConfigShapes, CliIsKept, [ConfigNext]_configVars PROVE CliIsKept'
  OBVIOUS
<1>s. restartNeeded \in BOOLEAN /\ IsConfig(stored)
  BY DEF ConfigShapes
<1>u. \A a \in Admin : request[a].step # "idle" => IsConfig(request[a].new)
  BY DEF ConfigShapes, Quiet, IsUnderway
<1>k. \A k \in CliKeys : k \in ConfigKey
  BY TagIsNoSetting
\* What keeps the memory, the flag and those who announce keeps the rest.
<1>0. ASSUME \A k \in CliKeys : memory'[k] # CliValue[k]
                 => memory'[k] = memory[k] \/ (k \in RestartSetting /\ \E a \in Admin : Announces(a)'),
             restartNeeded => restartNeeded',
             \A a \in Admin : Announces(a) => Announces(a)' \/ restartNeeded'
      PROVE  CliIsKept'
  BY <1>0 DEF CliIsKept
<1>1. ASSUME NEW a \in Admin, RequestLoads(a) \/ RequestValidates(a) \/ RequestSaves(a) \/ RecoverySaved(a)
      PROVE CliIsKept'
  <2>1. OthersStay(a) /\ ~Between(a)
    BY <1>1, RequestSteps DEF Between, RequestLoads, RequestValidates, RequestSaves, RecoverySaved
  <2>2. memory' = memory /\ restartNeeded' = restartNeeded
    BY <1>1 DEF RequestLoads, RequestValidates, RequestSaves, RecoverySaved
  <2>3. \A c \in Admin : Announces(c) => Announces(c)'
    BY <2>1 DEF Announces, Between, OthersStay, RestartKeys
  <2> QED BY <1>0, <2>2, <2>3
<1>2. ASSUME NEW a \in Admin, RequestUpdates(a) PROVE CliIsKept'
  <2>1. OthersStay(a) /\ ~Between(a) /\ restartNeeded' = restartNeeded
    BY <1>2, RequestSteps DEF Between, RequestUpdates
  <2>2. \A c \in Admin : Announces(c) => Announces(c)'
    BY <2>1 DEF Announces, Between, OthersStay, RestartKeys
  <2>3. CASE request[a].op = "cli"
    BY <1>0, <1>2, <2>1, <2>2, <2>3, RequestSteps
  <2>4. CASE memory' = WithCli(stored, {})
    BY <1>0, <1>s, <1>k, <2>1, <2>2, <2>4, CliConfig
  <2>5. CASE Goes(a, "updated") /\ memory' = WithCli(request[a].new, RestartKeys(request[a]))
    <3>1. IsConfig(request[a].new)
      BY <1>2, <1>u DEF RequestUpdates
    <3>2. \A k \in CliKeys : memory'[k] # CliValue[k] => k \in RestartKeys(request[a])
      BY <1>k, <2>5, <3>1, CliConfig
    <3>3. RestartKeys(request[a]) # {} => Announces(a)'
      BY <2>5 DEF Goes, Announces, Between, RestartKeys
    <3>4. RestartKeys(request[a]) \subseteq RestartSetting
      BY DEF RestartKeys
    <3> QED BY <1>0, <2>1, <2>2, <3>2, <3>3, <3>4
  <2> QED BY <1>2, <2>3, <2>4, <2>5, RequestSteps
<1>3. ASSUME NEW a \in Admin, RequestApplies(a) PROVE CliIsKept'
  <2>1. OthersStay(a) /\ Goes(a, "applied") /\ restartNeeded' = restartNeeded /\ memory' = memory
    BY <1>3, RequestSteps DEF RequestApplies
  <2>2. \A c \in Admin : Announces(c) => Announces(c)'
    BY <2>1 DEF Announces, Between, OthersStay, Goes, RestartKeys
  <2> QED BY <1>0, <2>1, <2>2
<1>4. ASSUME NEW a \in Admin, RequestAnswers(a) PROVE CliIsKept'
  <2>1. /\ OthersStay(a) /\ memory' = memory
        /\ restartNeeded' = (restartNeeded \/ RestartKeys(request[a]) # {})
    BY <1>4, RequestSteps DEF RequestAnswers
  <2>2. \A c \in Admin : Announces(c) => Announces(c)' \/ restartNeeded'
    BY <2>1 DEF Announces, Between, OthersStay, RestartKeys
  <2> QED BY <1>0, <2>1, <2>2
<1>5. CASE ConfigRestarts
  <2>1. IsConfig(running')
    BY <1>5, <1>s, StartConfig, CliConfig DEF ConfigRestarts, ConfigShapes
  <2>2. \A k \in CliKeys : memory'[k] = CliValue[k]
    BY <1>5, <1>k, <2>1, CliConfig DEF ConfigRestarts, Served
  <2> QED BY <2>2 DEF CliIsKept
<1>6. CASE DayPasses \/ UNCHANGED configVars
  BY <1>0, <1>6 DEF DayPasses, configVars, Announces, Between, RestartKeys
<1> QED BY <1>1, <1>2, <1>3, <1>4, <1>5, <1>6 DEF ConfigNext

\* A request for the version alone changes no setting that needs a restart.
LEMMA TagKept == ConfigShapes /\ OnlyTheTag /\ [ConfigNext]_configVars => OnlyTheTag'
<1> SUFFICES ASSUME ConfigShapes, OnlyTheTag, [ConfigNext]_configVars PROVE OnlyTheTag'
  OBVIOUS
<1>1. ASSUME NEW a \in Admin, RequestLoads(a) PROVE OnlyTheTag'
  <2>1. PICK op \in {"post", "restore", "etag", "cli"} : \E new \in Candidates(op) :
          Becomes(a, [step |-> "built", op |-> op, old |-> stored, new |-> new, left |-> {}])
    BY <1>1 DEF RequestLoads
  <2>2. PICK new \in Candidates(op) :
          Becomes(a, [step |-> "built", op |-> op, old |-> stored, new |-> new, left |-> {}])
    BY <2>1
  <2>3. op \in {"etag", "cli"} => \A k \in RestartSetting : new[k] = stored[k]
    BY CandidatesFit, TagIsNoSetting
  <2>4. request'[a].op = op /\ request'[a].old = stored /\ request'[a].new = new
    BY <2>2, RequestMoves
  <2> QED BY <2>2, <2>3, <2>4, RequestMoves DEF OnlyTheTag
<1>2. ASSUME NEW a \in Admin, OthersStay(a),
             IsOver(a) \/ Reloads(a) \/ (\E step \in WritingSteps : Goes(a, step))
      PROVE  OnlyTheTag'
  BY <1>2 DEF OnlyTheTag, OthersStay, IsOver, Reloads, Goes, Quiet
<1>3. ASSUME NEW a \in Admin,
             \/ RequestValidates(a) \/ RequestSaves(a) \/ RecoverySaved(a)
             \/ RequestUpdates(a) \/ RequestApplies(a) \/ RequestAnswers(a)
      PROVE  OnlyTheTag'
  <2>1. OthersStay(a) /\ (IsOver(a) \/ Reloads(a) \/ (\E step \in WritingSteps : Goes(a, step)))
    BY <1>3, RequestSteps DEF WritingSteps
  <2> QED BY <1>2, <2>1
<1>4. CASE ConfigRestarts \/ DayPasses \/ UNCHANGED configVars
  BY <1>4 DEF ConfigRestarts, DayPasses, configVars, OnlyTheTag, Quiet
<1> QED BY <1>1, <1>3, <1>4 DEF ConfigNext

\* A setting no request has touched is as it was at the start.
LEMMA UntouchedKept ==
  ConfigShapes /\ OnlyTheTag /\ UntouchedStays /\ [ConfigNext]_configVars => UntouchedStays'
<1> SUFFICES ASSUME ConfigShapes, OnlyTheTag, UntouchedStays, [ConfigNext]_configVars,
                    NEW k \in RestartSetting, ~Touched(k)'
             PROVE  /\ \A a \in Admin : request'[a] # Quiet => request'[a].old[k] = stored'[k]
                    /\ ReplacedAtStart(k)' \/ AsStarted(k)'
  BY DEF UntouchedStays
<1> DEFINE Stays == /\ \A a \in Admin : request[a] # Quiet => request[a].old[k] = stored[k]
                    /\ ReplacedAtStart(k) \/ AsStarted(k)
<1>s. IsConfig(stored) /\ saveFaults \in Nat /\ restartNeeded \in BOOLEAN /\ k \in ConfigKey /\ k \in Setting
  BY TagIsNoSetting DEF ConfigShapes
<1>u. \A a \in Admin : request[a] # Quiet => IsConfig(request[a].new) /\ request[a].step # "idle"
  BY DEF ConfigShapes, IsUnderway, WritingSteps
<1>t. ~restartNeeded' /\ saveFaults' = 0 /\ \A a \in Admin : ~Alters(a, k)'
  BY DEF Touched
<1>y. ASSUME ~restartNeeded, saveFaults = 0, \A a \in Admin : ~Alters(a, k) PROVE Stays
  BY <1>y DEF UntouchedStays, Touched
<1>o. ASSUME NEW a \in Admin, OthersStay(a), ~restartNeeded, saveFaults = 0, ~Alters(a, k)
      PROVE  Stays
  <2>1. \A c \in Admin : c # a => ~Alters(c, k)
    BY <1>t, <1>o DEF OthersStay, Alters
  <2> QED BY <1>o, <1>y, <2>1
\* Whoever goes on has neither changed the setting nor forgotten what it was.
<1>g. ASSUME NEW a \in Admin, NEW step \in WritingSteps, Goes(a, step)
      PROVE  /\ ~Alters(a, k) /\ request[a].old[k] = request[a].new[k]
             /\ request'[a].old = request[a].old
  BY <1>g, <1>t DEF Goes, Alters
<1>1. ASSUME NEW a \in Admin, RequestLoads(a) PROVE Stays'
  <2>1. OthersStay(a) /\ request[a] = Quiet
    BY <1>1, RequestSteps
  <2>2. Stays
    BY <1>1, <1>o, <1>t, <2>1 DEF RequestLoads, Alters, Quiet, WritingSteps
  <2>3. request'[a].old = stored
    BY <1>1, RequestMoves DEF RequestLoads
  <2> QED BY <1>1, <2>1, <2>2, <2>3 DEF RequestLoads, OthersStay, ReplacedAtStart, AsStarted
<1>2. ASSUME NEW a \in Admin, RequestValidates(a) \/ RecoverySaved(a) \/ RequestApplies(a) PROVE Stays'
  <2>1. OthersStay(a) /\ (IsOver(a) \/ \E step \in WritingSteps : Goes(a, step))
    BY <1>2, RequestSteps DEF WritingSteps
  <2>2. request[a] # Quiet
    BY <1>2 DEF RequestValidates, RecoverySaved, RequestApplies, Quiet
  <2>3. ~Alters(a, k)
    <3>1. CASE RequestValidates(a)
      BY <3>1 DEF RequestValidates, Alters, WritingSteps
    <3>2. CASE RecoverySaved(a) \/ RequestApplies(a)
      BY <1>g, <3>2, RequestSteps DEF WritingSteps
    <3> QED BY <1>2, <3>1, <3>2
  <2>4. ~restartNeeded /\ saveFaults = 0
    BY <1>2, <1>s, <1>t DEF RequestValidates, RecoverySaved, RequestApplies
  <2>5. Stays
    BY <1>o, <2>1, <2>3, <2>4
  <2>6. stored' = stored /\ memory' = memory /\ running' = running
    BY <1>2 DEF RequestValidates, RecoverySaved, RequestApplies
  <2>7. request'[a] # Quiet => request'[a].old = request[a].old
    BY <2>1 DEF IsOver, Goes
  <2> QED BY <2>1, <2>2, <2>5, <2>6, <2>7 DEF OthersStay, ReplacedAtStart, AsStarted
<1>3. ASSUME NEW a \in Admin, RequestSaves(a) PROVE Stays'
  <2>1. OthersStay(a) /\ request[a] # Quiet
    BY <1>3, RequestSteps DEF RequestSaves, Quiet
  <2>2. PICK j \in request[a].left :
          /\ stored' = [stored EXCEPT ![j] = request[a].new[j]]
          /\ Becomes(a, [request[a] EXCEPT !.left = @ \ {j}])
          /\ saveFaults' = saveFaults
    BY <1>3, <1>s, <1>t DEF RequestSaves
  <2>3. Goes(a, "saving")
    <3>1. IsUnderway(request[a])
      BY <2>1 DEF ConfigShapes
    <3> QED BY <1>3, <2>2, <3>1, RequestGoes DEF RequestSaves
  <2>4. ~Alters(a, k) /\ request[a].old[k] = request[a].new[k] /\ request'[a].old = request[a].old
    BY <1>g, <2>3 DEF WritingSteps
  <2>5. Stays
    BY <1>3, <1>o, <1>t, <2>1, <2>2, <2>4 DEF RequestSaves
  <2>6. stored'[k] = stored[k]
    BY <1>s, <2>1, <2>2, <2>4, <2>5 DEF IsConfig
  <2>7. memory' = memory /\ running' = running
    BY <1>3 DEF RequestSaves
  <2> QED BY <2>1, <2>4, <2>5, <2>6, <2>7 DEF OthersStay, ReplacedAtStart, AsStarted
<1>4. ASSUME NEW a \in Admin, RequestUpdates(a) PROVE Stays'
  <2>0. request[a].step = "saved"
    BY <1>4 DEF RequestUpdates
  <2>1. OthersStay(a) /\ request[a] # Quiet
    BY <1>4, <2>0, RequestSteps DEF Quiet
  <2>2. stored' = stored /\ running' = running /\ ~restartNeeded /\ saveFaults = 0
    BY <1>4, <1>t DEF RequestUpdates
  <2>3. CASE request[a].op = "cli" /\ IsOver(a) /\ memory' = memory
    <3>1. ~Alters(a, k)
      BY <2>3 DEF OnlyTheTag, Alters
    <3>2. Stays
      BY <1>o, <2>1, <2>2, <3>1
    <3> QED BY <2>1, <2>2, <2>3, <3>2 DEF OthersStay, IsOver, ReplacedAtStart, AsStarted
  <2>4. CASE request[a].op = "etag" /\ Reloads(a) /\ memory' = WithCli(stored, {})
    <3>1. ~Alters(a, k)
      BY <2>4 DEF OnlyTheTag, Alters
    <3>2. Stays
      BY <1>o, <2>1, <2>2, <3>1
    <3>3. memory'[k] = (IF k \in CliKeys THEN CliValue[k] ELSE stored[k])
      BY <1>s, <2>4, CliConfig
    <3>4. request'[a].old = stored
      BY <2>4 DEF Reloads
    <3> QED BY <2>1, <2>2, <3>2, <3>3, <3>4 DEF OthersStay, ReplacedAtStart, AsStarted
  <2>5. CASE /\ request[a].op \notin {"cli", "etag"} /\ Goes(a, "updated")
             /\ memory' = WithCli(request[a].new, RestartKeys(request[a]))
    <3>1. /\ ~Alters(a, k) /\ request[a].old[k] = request[a].new[k]
          /\ request'[a].old = request[a].old
      BY <1>g, <2>5 DEF WritingSteps
    <3>2. Stays
      BY <1>o, <2>1, <2>2, <3>1
    <3>3. k \notin RestartKeys(request[a])
      BY <3>1 DEF RestartKeys
    <3>4. memory'[k] = (IF k \in CliKeys THEN CliValue[k] ELSE request[a].new[k])
      BY <1>s, <1>u, <2>1, <2>5, <3>3, CliConfig
    <3>5. request[a].new[k] = stored[k]
      BY <2>1, <3>1, <3>2
    <3> QED BY <2>1, <2>2, <3>1, <3>2, <3>4, <3>5 DEF OthersStay, ReplacedAtStart, AsStarted
  <2> QED BY <1>4, <2>3, <2>4, <2>5, RequestSteps
<1>5. ASSUME NEW a \in Admin, RequestAnswers(a) PROVE Stays'
  <2>1. OthersStay(a) /\ IsOver(a)
    BY <1>5, RequestSteps
  <2>2. ~restartNeeded /\ saveFaults = 0 /\ RestartKeys(request[a]) = {}
    BY <1>5, <1>t DEF RequestAnswers
  <2>3. ~Alters(a, k)
    BY <2>2 DEF Alters, RestartKeys
  <2>4. Stays
    BY <1>o, <2>1, <2>2, <2>3
  <2> QED BY <1>5, <2>1, <2>4 DEF RequestAnswers, OthersStay, IsOver, ReplacedAtStart, AsStarted
<1>6. CASE ConfigRestarts
  <2>1. \A a \in Admin : request'[a] = Quiet
    BY <1>6 DEF ConfigRestarts
  <2>2. memory' = Served(running')
    BY <1>6 DEF ConfigRestarts
  <2>3. CASE stored' = stored /\ running' \in StartValues(stored)
    BY <1>s, <2>1, <2>2, <2>3, StartConfig DEF ReplacedAtStart, AsStarted
  <2>4. CASE lastKnownGood # <<>> /\ stored' = lastKnownGood /\ running' = WithCli(lastKnownGood, {})
    <3>1. IsConfig(running') /\ running'[k] = (IF k \in CliKeys THEN CliValue[k] ELSE stored'[k])
      BY <1>s, <2>4, CliConfig DEF ConfigShapes
    <3>2. memory'[k] = (IF k \in CliKeys THEN CliValue[k] ELSE running'[k])
      BY <1>s, <2>2, <3>1, CliConfig DEF Served
    <3> QED BY <2>1, <3>1, <3>2 DEF AsStarted
  <2> QED BY <1>6, <2>3, <2>4 DEF ConfigRestarts
<1>7. CASE DayPasses \/ UNCHANGED configVars
  <2>1. UNCHANGED <<stored, memory, running, restartNeeded, request, saveFaults>>
    BY <1>7 DEF DayPasses, configVars
  <2>2. Stays
    BY <1>t, <1>y, <2>1 DEF Alters
  <2> QED BY <2>1, <2>2 DEF ReplacedAtStart, AsStarted
<1> QED BY <1>1, <1>2, <1>3, <1>4, <1>5, <1>6, <1>7 DEF ConfigNext

\* With every request over, what was touched has been announced.
LEMMA ConfigInvGivesSafety == ConfigInv => ConfigTypeOK /\ ConfigSafety
<1> SUFFICES ASSUME ConfigInv PROVE ConfigTypeOK /\ ConfigSafety
  OBVIOUS
<1> USE DEF ConfigInv
<1>1. ConfigTypeOK
  <2>1. \A a \in Admin : request[a].left \subseteq ConfigKey
    BY DEF ConfigShapes, IsUnderway, Quiet
  <2> QED BY <2>1 DEF ConfigTypeOK, ConfigShapes, IsConfig
<1>2. RecoveryIsValid
  BY DEF ValidIsWritten
<1>3. CliStaysInForce
  BY DEF CliIsKept, CliStaysInForce, Announces
<1>4. RestartIsAnnounced
  <2> SUFFICES ASSUME \A a \in Admin : request[a] = Quiet, saveFaults = 0,
                      NEW k \in RestartSetting, memory[k] # running[k]
               PROVE  restartNeeded \/ ReplacedAtStart(k)
    BY DEF RestartIsAnnounced
  <2>1. \A a \in Admin : ~Alters(a, k)
    BY DEF Alters, WritingSteps, Quiet
  <2> QED BY <2>1 DEF UntouchedStays, Touched, AsStarted
<1> QED BY <1>1, <1>2, <1>3, <1>4 DEF ConfigSafety

(* What the recovery restores is valid, the command line stays in force until
   a restart is announced, and a change that waits for a restart is announced,
   for any number of settings, of requests at a time, of failed saves and of
   restarts (ConfigSafety). *)
THEOREM ConfigIsSafe == ConfigSpec => [](ConfigTypeOK /\ ConfigSafety)
<1>1. ConfigInv /\ [ConfigNext]_configVars => ConfigInv'
  BY ShapesKept, ValidKept, CliKept, TagKept, UntouchedKept DEF ConfigInv
<1> QED BY <1>1, ConfigBegins, ConfigInvGivesSafety, PTL DEF ConfigSpec

-----------------------------------------------------------------------------
(* The login.                                                              *)

Attempt == [n : Nat, at : Nat, late : BOOLEAN]
LoginStates == [pc : {"away", "times", "waits", "checks", "clears expired", "verifies", "succeeds", "fails",
                      "records", "signs in"}, n : Nat, at : Nat]
LoginShapes ==
  /\ clock \in Nat /\ syncing \in BOOLEAN /\ failures \in Nat
  /\ limiter \in [max : RateMax, seen : [Address -> SUBSET Attempt], calls : Nat]
  /\ admitted \in [Address -> SUBSET Attempt] /\ pruned \in [Address -> Nat]
  /\ account \in [failed : Nat, until : Nat]
  /\ logins \in [Client -> LoginStates]
  /\ logged \in [asked : Nat, faults : Nat]

(* Attempts are of the past, and few at a time.                            *)
AttemptsArePast ==
  /\ \A c \in Client : logins[c].at <= clock
  /\ \A a \in Address :
       /\ IsFiniteSet(limiter.seen[a]) /\ IsFiniteSet(admitted[a])
       /\ \A x \in limiter.seen[a] \cup admitted[a] : x.at <= clock

(* A window in force knows of every attempt it let through that is inside  *)
(* as of the latest time it was pruned by, so that no second has seen more *)
(* than the limit but for the overtaken ones.                              *)
InTime(attempts, t) == {x \in InWindow(attempts, t) : ~x.late}
WindowsAreKept ==
  InForce => \A a \in Address :
    /\ \A x \in admitted[a] : x.at + RateWindow > pruned[a] => x \in limiter.seen[a]
    /\ \A t \in Nat : Cardinality(InTime(admitted[a], t)) <= limiter.max

(* A count read or written, and the failures not yet read on top of it.    *)
Failing == {c \in Client : logins[c].pc = "fails"}
CountsAreBacked ==
  /\ account.failed + Cardinality(Failing) <= failures
  /\ \A c \in Client : logins[c].pc = "records" => logins[c].n + Cardinality(Failing) <= failures
  /\ account.until # 0 => failures >= LockoutThreshold

LoginInv == LoginShapes /\ AttemptsArePast /\ WindowsAreKept /\ CountsAreBacked

-----------------------------------------------------------------------------
\* Nobody has tried, and no window knows of anybody.
LEMMA LoginBegins == LoginInit => LoginInv
<1> SUFFICES ASSUME LoginInit PROVE LoginInv
  OBVIOUS
<1>1. limiter.max \in RateMax /\ limiter.seen = [a \in Address |-> {}]
  BY DEF LoginInit
<1>2. LoginShapes
  <2>1. limiter \in [max : RateMax, seen : [Address -> SUBSET Attempt], calls : Nat]
    BY DEF LoginInit
  <2>2. account \in [failed : Nat, until : Nat]
    BY DEF LoginInit, NoAccountRow
  <2>3. logins \in [Client -> LoginStates]
    BY DEF LoginInit, NoLogin, LoginStates
  <2> QED BY <2>1, <2>2, <2>3 DEF LoginInit, LoginShapes
<1>3. AttemptsArePast
  BY <1>1, FS_EmptySet DEF LoginInit, NoLogin, AttemptsArePast
<1>4. WindowsAreKept
  <2>1. \A a \in Address, t \in Nat : InTime(admitted[a], t) = {}
    BY DEF LoginInit, InTime, InWindow
  <2>2. limiter.max \in Nat
    BY <1>1, LoginAssumption
  <2>3. Cardinality({}) = 0 /\ 0 <= limiter.max
    BY <2>2, FS_EmptySet
  <2>4. \A a \in Address : admitted[a] = {}
    BY DEF LoginInit
  <2> QED BY <2>1, <2>3, <2>4 DEF WindowsAreKept
<1>5. CountsAreBacked
  <2>1. Failing = {}
    BY DEF Failing, LoginInit, NoLogin
  <2> QED BY <2>1, FS_EmptySet DEF CountsAreBacked, LoginInit, NoAccountRow, NoLogin
<1> QED BY <1>2, <1>3, <1>4, <1>5 DEF LoginInv

\* What Allow leaves behind.
LEMMA AllowsLeaves ==
  ASSUME LoginShapes, NEW c \in Client, Allows(c),
         IsFiniteSet(limiter.seen[AddressOf[c]])
  PROVE  LET a == AddressOf[c]
             now == logins[c].at
             attempt == [n |-> limiter.calls, at |-> now, late |-> now < pruned[a]]
             valid == Prune(limiter.seen[a], now)
         IN
         /\ a \in Address /\ now \in Nat /\ attempt \in Attempt /\ Cardinality(valid) \in Nat
         /\ limiter' \in [max : {limiter.max}, seen : [Address -> SUBSET Attempt], calls : Nat]
         /\ \A b \in Address : limiter'.seen[b] \subseteq limiter.seen[b] \cup {attempt}
         /\ pruned' \in [Address -> Nat] /\ \A b \in Address : pruned'[b] >= pruned[b]
         /\ \A b \in Address : \A x \in limiter.seen[b] :
              x.at + RateWindow > pruned'[b] => x \in limiter'.seen[b]
         /\ \/ admitted' = admitted
            \/ /\ Cardinality(valid) < limiter.max /\ attempt \in limiter'.seen[a]
               /\ admitted' = [admitted EXCEPT ![a] = admitted[a] \cup {attempt}]
<1> DEFINE a == AddressOf[c]
           now == logins[c].at
           attempt == [n |-> limiter.calls, at |-> now, late |-> now < pruned[a]]
           valid == Prune(limiter.seen[a], now)
           room == Cardinality(valid) < limiter.max
           kept == valid \cup {x \in {attempt} : room}
           calls == limiter.calls + 1
           e == [limiter.seen EXCEPT ![a] = kept]
<1>1. /\ a \in Address /\ limiter.max \in Nat /\ calls \in Nat /\ now \in Nat /\ RateWindow \in Nat
      /\ RateWindow > 0 /\ attempt \in Attempt
  <2>1. /\ a \in Address /\ limiter.max \in Nat /\ limiter.calls \in Nat /\ logins[c] \in LoginStates
        /\ RateWindow \in Nat /\ RateWindow > 0
    <3>1. limiter.max \in RateMax /\ limiter.calls \in Nat /\ logins \in [Client -> LoginStates]
      BY DEF LoginShapes
    <3>2. a \in Address /\ RateWindow \in Nat /\ RateWindow > 0
      BY LoginAssumption
    <3>3. limiter.max \in Nat
      BY <3>1, LoginAssumption
    <3>4. logins[c] \in LoginStates
      BY <3>1
    <3> QED BY <3>1, <3>2, <3>3, <3>4
  <2>2. now \in Nat
    BY <2>1 DEF LoginStates
  <2>3. calls \in Nat
    BY <2>1
  <2>4. attempt \in Attempt
    BY <2>1, <2>2 DEF Attempt
  <2> QED BY <2>1, <2>2, <2>3, <2>4
<1>2. Cardinality(valid) \in Nat
  <2>1. valid \subseteq limiter.seen[a]
    BY DEF Prune
  <2> QED BY <2>1, FS_Subset, FS_CardinalityType
<1>3. /\ limiter' = [limiter EXCEPT !.seen = Swept(e, calls, now), !.calls = calls]
      /\ admitted' = IF room THEN [admitted EXCEPT ![a] = admitted[a] \cup {attempt}] ELSE admitted
      /\ pruned' = [b \in Address |-> IF (b = a \/ Sweeps(calls)) /\ pruned[b] < now THEN now ELSE pruned[b]]
  BY DEF Allows
<1>4. /\ e \in [Address -> SUBSET Attempt] /\ e[a] = kept
      /\ \A b \in Address : b # a => e[b] = limiter.seen[b]
  BY <1>1 DEF LoginShapes, Prune
<1>5. /\ Swept(e, calls, now) \in [Address -> SUBSET Attempt]
      /\ \A b \in Address : Swept(e, calls, now)[b] \in {e[b], {}}
      /\ \A b \in Address : Prune(e[b], now) # {} \/ ~Sweeps(calls) => Swept(e, calls, now)[b] = e[b]
  <2>1. CASE ~Sweeps(calls)
    BY <1>4, <2>1 DEF Swept
  <2>2. CASE Sweeps(calls)
    BY <1>4, <2>2 DEF Swept
  <2> QED BY <2>1, <2>2
<1>6. /\ pruned' \in [Address -> Nat] /\ \A b \in Address : pruned'[b] >= pruned[b]
      /\ \A b \in Address : b = a \/ Sweeps(calls) => pruned'[b] >= now
  BY <1>1, <1>3 DEF LoginShapes
<1> HIDE DEF e, calls, room
<1>7. limiter'.seen = Swept(e, calls, now) /\ limiter'.max = limiter.max
  BY <1>3 DEF LoginShapes
<1>8. limiter' \in [max : {limiter.max}, seen : [Address -> SUBSET Attempt], calls : Nat]
  BY <1>1, <1>3, <1>5 DEF LoginShapes
<1>9. \A b \in Address : limiter'.seen[b] \subseteq limiter.seen[b] \cup {attempt}
  BY <1>4, <1>5, <1>7 DEF Prune
<1>10. \A b \in Address : \A x \in e[b] : x.at + RateWindow > now => x \in limiter'.seen[b]
  BY <1>5, <1>7 DEF Prune
<1>11. ASSUME NEW b \in Address, NEW x \in limiter.seen[b], x.at + RateWindow > pruned'[b]
       PROVE  x \in limiter'.seen[b]
  <2>1. CASE b # a /\ ~Sweeps(calls)
    BY <1>4, <1>5, <1>7, <2>1
  <2>2. CASE b = a \/ Sweeps(calls)
    <3>1. x.at \in Nat /\ pruned'[b] \in Nat /\ pruned'[b] >= now
      BY <1>6, <2>2 DEF LoginShapes, Attempt
    <3>2. x.at + RateWindow > now
      BY <1>1, <1>11, <3>1
    <3>3. x \in e[b]
      BY <1>4, <3>2 DEF Prune
    <3> QED BY <1>10, <3>2, <3>3
  <2> QED BY <2>1, <2>2
<1>12. room => attempt \in limiter'.seen[a]
  <2>1. attempt.at + RateWindow > now
    BY <1>1
  <2> QED BY <1>1, <1>4, <1>10, <2>1
<1> QED BY <1>1, <1>2, <1>3, <1>6, <1>8, <1>9, <1>11, <1>12 DEF room

\* The moves of a request that leave the limiter alone.
LoginMoves(c) ==
  \/ AsksLimiter(c) \/ TakesTime(c)
  \/ ChecksLockout(c) \/ ClearsExpired(c) \/ Verifies(c) \/ FailureRead(c)
  \/ FailureRecorded(c) \/ SuccessClears(c) \/ SetAuthenticated(c) \/ LoginFails(c)
RowMoves == UnlockRuns \/ UnlockAccount

\* Where a request is next, and what it has read.
LEMMA LoginsMove ==
  ASSUME LoginShapes, NEW c \in Client, Allows(c) \/ LoginMoves(c)
  PROVE  \E e \in LoginStates :
           /\ logins' = [logins EXCEPT ![c] = e] \/ logins' = logins
           /\ e.pc = "fails" => Verifies(c) /\ failures' = failures + 1
           /\ e.pc = "records" => FailureRead(c) /\ e.n = account.failed + 1
<1>1. logins[c] \in LoginStates /\ account.failed + 1 \in Nat /\ clock \in Nat
  BY DEF LoginShapes
<1>2. \A pc : At(c, pc) => logins' = [logins EXCEPT ![c] = [logins[c] EXCEPT !.pc = pc]]
  BY DEF At
<1>3. \A pc \in {"checks", "clears expired", "verifies", "succeeds", "fails", "signs in"} :
        [logins[c] EXCEPT !.pc = pc] \in LoginStates /\ [logins[c] EXCEPT !.pc = pc].pc = pc
  BY <1>1 DEF LoginStates
<1>4. NoLogin \in LoginStates /\ NoLogin.pc = "away"
  BY DEF NoLogin, LoginStates
<1>5. CASE Allows(c)
  <2>1. logins' = [logins EXCEPT ![c] = [NoLogin EXCEPT !.pc = "checks"]]
        \/ logins' = [logins EXCEPT ![c] = NoLogin]
    BY <1>5 DEF Allows
  <2>2. [NoLogin EXCEPT !.pc = "checks"] \in LoginStates /\ [NoLogin EXCEPT !.pc = "checks"].pc = "checks"
    BY DEF NoLogin, LoginStates
  <2> QED BY <1>4, <2>1, <2>2
<1>13. CASE AsksLimiter(c)
  <2> DEFINE e == [logins[c] EXCEPT !.pc = IF limiter.max = 0 THEN "checks" ELSE "times"]
  <2>1. logins' = [logins EXCEPT ![c] = e]
    BY <1>1, <1>13 DEF AsksLimiter, LoginStates, LoginShapes
  <2>2. e \in LoginStates /\ e.pc \in {"checks", "times"}
    BY <1>1 DEF LoginStates, LoginShapes
  <2> QED BY <2>1, <2>2
<1>14. CASE TakesTime(c)
  <2> DEFINE e == [logins[c] EXCEPT !.pc = "waits", !.at = clock]
  <2>1. logins' = [logins EXCEPT ![c] = e]
    BY <1>1, <1>14 DEF TakesTime, LoginStates, LoginShapes
  <2>2. e \in LoginStates /\ e.pc = "waits"
    BY <1>1 DEF LoginStates
  <2> QED BY <2>1, <2>2
<1>6. CASE ChecksLockout(c)
  <2>1. At(c, "verifies") \/ At(c, "clears expired") \/ logins' = [logins EXCEPT ![c] = NoLogin]
    BY <1>6 DEF ChecksLockout
  <2> QED BY <1>2, <1>3, <1>4, <2>1
<1>7. CASE ClearsExpired(c)
  <2>1. At(c, "verifies")
    BY <1>7 DEF ClearsExpired
  <2> QED BY <1>2, <1>3, <2>1
<1>8. CASE Verifies(c)
  <2>1. \/ At(c, "succeeds")
        \/ At(c, "fails") /\ failures' = failures + 1
        \/ logins' = [logins EXCEPT ![c] = NoLogin]
    BY <1>8 DEF Verifies
  <2> QED BY <1>2, <1>3, <1>4, <1>8, <2>1
<1>9. CASE FailureRead(c)
  <2>1. logins' = [logins EXCEPT ![c] = [pc |-> "records", n |-> account.failed + 1, at |-> clock]]
    BY <1>9 DEF FailureRead
  <2>2. PICK n \in Nat : n = account.failed + 1
    BY <1>1
  <2>3. [pc |-> "records", n |-> n, at |-> clock] \in LoginStates
    BY <1>1 DEF LoginStates
  <2> QED BY <1>9, <2>1, <2>2, <2>3
<1>10. CASE FailureRecorded(c) \/ LoginFails(c)
  <2>1. logins' = [logins EXCEPT ![c] = NoLogin]
    BY <1>10 DEF FailureRecorded, LoginFails
  <2> QED BY <1>4, <2>1
<1>11. CASE SuccessClears(c)
  <2>1. At(c, "signs in")
    BY <1>11 DEF SuccessClears
  <2> QED BY <1>2, <1>3, <2>1
<1>12. CASE SetAuthenticated(c)
  <2>1. logins' = [logins EXCEPT ![c] = NoLogin] \/ logins' = logins
    BY <1>12 DEF SetAuthenticated
  <2> QED BY <1>4, <2>1
<1> QED BY <1>5, <1>6, <1>7, <1>8, <1>9, <1>10, <1>11, <1>12, <1>13, <1>14 DEF LoginMoves

\* What such a move, or a statement on the row alone, does to the rest.
LEMMA MovesLeave ==
  ASSUME LoginShapes, (\E c \in Client : LoginMoves(c)) \/ RowMoves
  PROVE  /\ UNCHANGED <<clock, limiter, syncing, admitted, pruned>>
         /\ logged' \in [asked : Nat, faults : Nat]
         /\ failures' \in {failures, failures + 1}
         /\ account' \in {account, NoAccountRow} \/ \E c \in Client : FailureRecorded(c)
<1>1. logged \in [asked : Nat, faults : Nat]
  BY DEF LoginShapes
<1>2. PICK n, m \in Nat : n = logged.faults + 1 /\ m = logged.asked + 1
  BY <1>1
<1>3. logged' \in {logged, [logged EXCEPT !.faults = n], [logged EXCEPT !.asked = m]}
  BY <1>2 DEF LoginMoves, AsksLimiter, TakesTime, ChecksLockout, ClearsExpired, Verifies, FailureRead,
         FailureRecorded, SuccessClears, SetAuthenticated, LoginFails, RowMoves, UnlockRuns, UnlockAccount
<1>4. logged' \in [asked : Nat, faults : Nat]
  BY <1>1, <1>2, <1>3
<1>5. /\ UNCHANGED <<clock, limiter, syncing, admitted, pruned>>
      /\ failures' \in {failures, failures + 1}
      /\ account' \in {account, NoAccountRow} \/ \E c \in Client : FailureRecorded(c)
  BY DEF LoginMoves, AsksLimiter, TakesTime, ChecksLockout, ClearsExpired, Verifies, FailureRead,
         SuccessClears, SetAuthenticated, LoginFails, RowMoves, UnlockRuns, UnlockAccount,
         FailureRecorded
<1> QED BY <1>4, <1>5

\* Every step keeps the shapes of the state.
LEMMA LoginShapesKept ==
  ASSUME LoginShapes, AttemptsArePast, [LoginNext]_loginVars
  PROVE  LoginShapes'
<1>1. ASSUME NEW c \in Client, Allows(c) \/ LoginMoves(c) PROVE logins' \in [Client -> LoginStates]
  BY <1>1, LoginsMove DEF LoginShapes
<1>2. CASE \E c \in Client : Allows(c)
  <2> PICK c \in Client : Allows(c)
    BY <1>2
  <2>1. IsFiniteSet(limiter.seen[AddressOf[c]]) /\ AddressOf[c] \in Address
    BY LoginAssumption DEF AttemptsArePast
  <2> DEFINE a == AddressOf[c]
             attempt == [n |-> limiter.calls, at |-> logins[c].at, late |-> logins[c].at < pruned[a]]
  <2>2. /\ attempt \in Attempt /\ pruned' \in [Address -> Nat]
        /\ limiter' \in [max : {limiter.max}, seen : [Address -> SUBSET Attempt], calls : Nat]
        /\ admitted' = admitted \/ admitted' = [admitted EXCEPT ![a] = admitted[a] \cup {attempt}]
    BY <2>1, AllowsLeaves
  <2> HIDE DEF attempt
  <2>4. admitted' \in [Address -> SUBSET Attempt]
    BY <2>1, <2>2 DEF LoginShapes
  <2>5. limiter' \in [max : RateMax, seen : [Address -> SUBSET Attempt], calls : Nat]
    BY <2>2 DEF LoginShapes
  <2>6. UNCHANGED <<clock, syncing, account, logged, failures>>
    BY DEF Allows
  <2> QED BY <1>1, <2>2, <2>4, <2>5, <2>6 DEF LoginShapes
<1>3. CASE (\E c \in Client : LoginMoves(c)) \/ RowMoves
  <2>1. /\ UNCHANGED <<clock, limiter, syncing, admitted, pruned>>
        /\ logged' \in [asked : Nat, faults : Nat]
        /\ failures' \in {failures, failures + 1}
        /\ account' \in {account, NoAccountRow} \/ \E c \in Client : FailureRecorded(c)
    BY <1>3, MovesLeave
  <2>2. account' \in [failed : Nat, until : Nat]
    <3>1. CASE account' \in {account, NoAccountRow}
      BY <3>1 DEF LoginShapes, NoAccountRow
    <3>2. ASSUME NEW c \in Client, FailureRecorded(c) PROVE account' \in [failed : Nat, until : Nat]
      <4>1. logins[c].n \in Nat /\ logins[c].at \in Nat
        BY DEF LoginShapes, LoginStates
      <4>2. CalculateLockout(logins[c].n, logins[c].at) \in Nat
        BY <4>1, LoginAssumption DEF CalculateLockout
      <4> HIDE DEF CalculateLockout
      <4> QED BY <3>2, <4>1, <4>2 DEF FailureRecorded
    <3> QED BY <2>1, <3>1, <3>2
  <2>3. logged' \in [asked : Nat, faults : Nat] /\ failures' \in Nat
    BY <2>1 DEF LoginShapes
  <2>4. logins' \in [Client -> LoginStates]
    BY <1>1, <1>3 DEF RowMoves, UnlockRuns, UnlockAccount, LoginShapes
  <2> QED BY <2>1, <2>2, <2>3, <2>4 DEF LoginShapes
<1>4. CASE SetsMax
  <2>1. limiter' \in [max : RateMax, seen : [Address -> SUBSET Attempt], calls : Nat]
    BY <1>4 DEF SetsMax, LoginShapes
  <2> QED BY <1>4, <2>1 DEF SetsMax, LoginShapes
<1>5. CASE ClearsLimiter \/ LoginRestarts
  <2>1. limiter' \in [max : RateMax, seen : [Address -> SUBSET Attempt], calls : Nat]
    <3>1. limiter' = [limiter EXCEPT !.seen = [a \in Address |-> {}], !.calls = 0]
      BY <1>5 DEF ClearsLimiter, LoginRestarts
    <3> QED BY <3>1 DEF LoginShapes
  <2>2. /\ admitted' = [a \in Address |-> {}] /\ pruned' = [a \in Address |-> 0]
        /\ UNCHANGED <<clock, account, failures>>
        /\ syncing' = FALSE /\ logins' \in {logins, [c \in Client |-> NoLogin]}
    <3>1. CASE ClearsLimiter
      BY <3>1 DEF ClearsLimiter
    <3>2. CASE LoginRestarts
      BY <3>2 DEF LoginRestarts
    <3> QED BY <1>5, <3>1, <3>2
  <2>3. logged' \in [asked : Nat, faults : Nat]
    <3>1. PICK n \in Nat : n = logged.faults + 1
      BY DEF LoginShapes
    <3>2. logged' = logged \/ logged' = [logged EXCEPT !.faults = n]
      BY <1>5, <3>1 DEF ClearsLimiter, LoginRestarts
    <3> QED BY <3>2 DEF LoginShapes
  <2>4. logins' \in [Client -> LoginStates]
    <3>1. NoLogin \in LoginStates
      BY DEF NoLogin, LoginStates
    <3> QED BY <2>2, <3>1 DEF LoginShapes
  <2>5. admitted' \in [Address -> SUBSET Attempt] /\ pruned' \in [Address -> Nat]
    BY <2>2
  <2> QED BY <2>1, <2>2, <2>3, <2>4, <2>5 DEF LoginShapes
<1>6. CASE LoginClockTicks \/ UNCHANGED loginVars
  <2>1. clock' \in Nat
    BY <1>6 DEF LoginClockTicks, loginVars, LoginShapes
  <2>2. UNCHANGED <<limiter, syncing, account, logins, logged, admitted, pruned, failures>>
    BY <1>6 DEF LoginClockTicks, loginVars
  <2> QED BY <2>1, <2>2 DEF LoginShapes
<1> QED BY <1>2, <1>3, <1>4, <1>5, <1>6 DEF LoginNext, LoginMoves, RowMoves

\* Actions of a request leave the windows alone but for Allow.
LEMMA WindowsStay ==
  ASSUME LoginShapes, [LoginNext]_loginVars, ~\E c \in Client : Allows(c)
  PROVE  /\ clock' >= clock
         /\ \/ /\ admitted' = admitted /\ limiter'.seen = limiter.seen /\ pruned' = pruned
               /\ syncing' \/ (limiter'.max = limiter.max /\ syncing' = syncing)
            \/ /\ admitted' = [a \in Address |-> {}] /\ limiter'.seen = [a \in Address |-> {}]
               /\ limiter'.max = limiter.max
<1>1. CASE (\E c \in Client : LoginMoves(c)) \/ RowMoves
  <2>1. UNCHANGED <<clock, limiter, syncing, admitted, pruned>>
    BY <1>1, MovesLeave
  <2> QED BY <2>1 DEF LoginShapes
<1>2. CASE SetsMax
  <2>1. limiter'.seen = limiter.seen
    BY <1>2 DEF SetsMax, LoginShapes
  <2> QED BY <1>2, <2>1 DEF SetsMax, LoginShapes
<1>3. CASE ClearsLimiter \/ LoginRestarts
  <2>1. limiter' = [limiter EXCEPT !.seen = [a \in Address |-> {}], !.calls = 0]
    BY <1>3 DEF ClearsLimiter, LoginRestarts
  <2>2. admitted' = [a \in Address |-> {}] /\ UNCHANGED clock
    BY <1>3 DEF ClearsLimiter, LoginRestarts
  <2>3. limiter'.seen = [a \in Address |-> {}] /\ limiter'.max = limiter.max
    BY <2>1 DEF LoginShapes
  <2> QED BY <2>2, <2>3 DEF LoginShapes
<1>4. CASE LoginClockTicks \/ UNCHANGED loginVars
  BY <1>4 DEF LoginClockTicks, loginVars, LoginShapes
<1> QED BY <1>1, <1>2, <1>3, <1>4 DEF LoginNext, LoginMoves, RowMoves

\* A request bears a time of the past, the clock as it was when it looked.
LEMMA TimesStayPast ==
  ASSUME LoginShapes, AttemptsArePast, [LoginNext]_loginVars, NEW d \in Client
  PROVE  logins'[d].at <= clock'
<1>1. clock \in Nat /\ clock' \in Nat /\ clock' >= clock /\ logins[d].at \in Nat /\ logins[d].at <= clock
  <2>1. clock \in Nat /\ clock' \in Nat /\ logins[d] \in LoginStates /\ logins[d].at <= clock
    BY LoginShapesKept DEF LoginShapes, AttemptsArePast
  <2>2. logins[d].at \in Nat
    BY <2>1 DEF LoginStates
  <2>3. clock' = clock \/ clock' >= clock
    BY WindowsStay DEF Allows
  <2> QED BY <2>1, <2>2, <2>3
<1>2. ASSUME NEW c \in Client, NEW e, logins' = [logins EXCEPT ![c] = e], e.at \in {0, logins[c].at, clock}
      PROVE  logins'[d].at <= clock'
  BY <1>1, <1>2 DEF LoginShapes
<1>3. ASSUME NEW c \in Client, Allows(c) \/ LoginMoves(c)
      PROVE  \/ logins' = logins
             \/ \E e : logins' = [logins EXCEPT ![c] = e] /\ e.at \in {0, logins[c].at, clock}
  <2>1. logins[c] \in LoginStates
    BY DEF LoginShapes
  <2>2. \A pc : At(c, pc) => /\ logins' = [logins EXCEPT ![c] = [logins[c] EXCEPT !.pc = pc]]
                             /\ [logins[c] EXCEPT !.pc = pc].at = logins[c].at
    BY <2>1 DEF At, LoginStates
  <2>3. NoLogin.at = 0 /\ [NoLogin EXCEPT !.pc = "checks"].at = 0
    BY DEF NoLogin
  <2>4. CASE AsksLimiter(c)
    <3> DEFINE e == [logins[c] EXCEPT !.pc = IF limiter.max = 0 THEN "checks" ELSE "times"]
    <3>1. logins' = [logins EXCEPT ![c] = e] /\ e.at = logins[c].at
      BY <2>1, <2>4 DEF AsksLimiter, LoginStates, LoginShapes
    <3> QED BY <3>1
  <2>5. CASE TakesTime(c)
    <3> DEFINE e == [logins[c] EXCEPT !.pc = "waits", !.at = clock]
    <3>1. logins' = [logins EXCEPT ![c] = e] /\ e.at = clock
      BY <2>1, <2>5 DEF TakesTime, LoginStates, LoginShapes
    <3> QED BY <3>1
  <2>6. CASE FailureRead(c)
    <3> DEFINE e == [pc |-> "records", n |-> account.failed + 1, at |-> clock]
    <3>1. logins' = [logins EXCEPT ![c] = e] /\ e.at = clock
      BY <2>6 DEF FailureRead
    <3> QED BY <3>1
  <2>7. CASE ~(AsksLimiter(c) \/ TakesTime(c) \/ FailureRead(c))
    <3>1. \/ logins' = logins \/ \E pc : At(c, pc)
          \/ logins' = [logins EXCEPT ![c] = NoLogin]
          \/ logins' = [logins EXCEPT ![c] = [NoLogin EXCEPT !.pc = "checks"]]
      BY <1>3, <2>7 DEF LoginMoves, Allows, ChecksLockout, ClearsExpired, Verifies, FailureRecorded,
                        SuccessClears, SetAuthenticated, LoginFails
    <3> QED BY <2>2, <2>3, <3>1
  <2> QED BY <2>4, <2>5, <2>6, <2>7
<1>4. CASE ~\E c \in Client : Allows(c) \/ LoginMoves(c)
  <2>1. logins' = logins \/ logins'[d] = NoLogin
    BY <1>4 DEF LoginNext, LoginMoves, RowMoves, UnlockRuns, UnlockAccount, SetsMax,
                ClearsLimiter, LoginRestarts, LoginClockTicks, loginVars
  <2> QED BY <1>1, <2>1 DEF NoLogin
<1> QED BY <1>1, <1>2, <1>3, <1>4

\* An attempt bears the time its request took.
LEMMA AttemptsStayPast ==
  ASSUME LoginShapes, AttemptsArePast, [LoginNext]_loginVars
  PROVE  AttemptsArePast'
<1>0. \A c \in Client : logins'[c].at <= clock'
  BY TimesStayPast
<1>1. CASE \E c \in Client : Allows(c)
  <2> PICK c \in Client : Allows(c)
    BY <1>1
  <2> DEFINE a == AddressOf[c]
             attempt == [n |-> limiter.calls, at |-> logins[c].at, late |-> logins[c].at < pruned[a]]
  <2>1. IsFiniteSet(limiter.seen[a]) /\ a \in Address
    BY LoginAssumption DEF AttemptsArePast
  <2>2. /\ \A b \in Address : limiter'.seen[b] \subseteq limiter.seen[b] \cup {attempt}
        /\ admitted' = admitted \/ admitted' = [admitted EXCEPT ![a] = admitted[a] \cup {attempt}]
    BY <2>1, AllowsLeaves
  <2>3. clock' = clock /\ attempt.at <= clock
    BY DEF Allows, AttemptsArePast
  <2> HIDE DEF attempt
  <2>4. \A b \in Address : admitted'[b] \subseteq admitted[b] \cup {attempt}
    BY <2>1, <2>2 DEF LoginShapes
  <2>5. ASSUME NEW b \in Address PROVE IsFiniteSet(limiter'.seen[b]) /\ IsFiniteSet(admitted'[b])
    <3>1. IsFiniteSet(limiter.seen[b] \cup {attempt}) /\ IsFiniteSet(admitted[b] \cup {attempt})
      BY FS_AddElement DEF AttemptsArePast
    <3> QED BY <2>2, <2>4, <3>1, FS_Subset
  <2>6. ASSUME NEW b \in Address, NEW x \in limiter'.seen[b] \cup admitted'[b]
        PROVE  x.at <= clock'
    <3>1. x = attempt \/ x \in limiter.seen[b] \cup admitted[b]
      BY <2>2, <2>4, <2>6
    <3> QED BY <2>3, <3>1 DEF AttemptsArePast
  <2> QED BY <1>0, <2>5, <2>6 DEF AttemptsArePast
<1>2. CASE ~\E c \in Client : Allows(c)
  <2>1. /\ clock' >= clock
        /\ \/ admitted' = admitted /\ limiter'.seen = limiter.seen
           \/ admitted' = [a \in Address |-> {}] /\ limiter'.seen = [a \in Address |-> {}]
    BY <1>2, WindowsStay
  <2>2. clock' \in Nat
    BY LoginShapesKept DEF LoginShapes
  <2>3. CASE admitted' = [a \in Address |-> {}] /\ limiter'.seen = [a \in Address |-> {}]
    BY <1>0, <2>3, FS_EmptySet DEF AttemptsArePast
  <2>4. CASE admitted' = admitted /\ limiter'.seen = limiter.seen
    <3>1. ASSUME NEW a \in Address, NEW x \in limiter.seen[a] \cup admitted[a]
          PROVE  x.at <= clock'
      <4>1. x \in Attempt /\ x.at <= clock
        BY DEF AttemptsArePast, LoginShapes
      <4> QED BY <2>1, <2>2, <4>1 DEF Attempt, LoginShapes
    <3> QED BY <1>0, <2>4, <3>1 DEF AttemptsArePast
  <2> QED BY <2>1, <2>3, <2>4
<1> QED BY <1>1, <1>2

\* Whatever is pruned or swept is outside every window that ends no earlier
\* than the latest time they were pruned by.
LEMMA WindowsStayKept ==
  ASSUME LoginShapes, AttemptsArePast, WindowsAreKept, [LoginNext]_loginVars
  PROVE  WindowsAreKept'
<1> SUFFICES ASSUME InForce', NEW b \in Address
             PROVE  /\ \A x \in admitted'[b] : x.at + RateWindow > pruned'[b] => x \in limiter'.seen[b]
                    /\ \A t \in Nat : Cardinality(InTime(admitted'[b], t)) <= limiter'.max
  BY DEF WindowsAreKept, InTime, InWindow
<1>0. RateWindow \in Nat /\ RateWindow > 0
  BY LoginAssumption
<1>1. CASE \E c \in Client : Allows(c)
  <2> PICK c \in Client : Allows(c)
    BY <1>1
  <2> DEFINE a == AddressOf[c]
             now == logins[c].at
             attempt == [n |-> limiter.calls, at |-> now, late |-> now < pruned[a]]
             valid == Prune(limiter.seen[a], now)
  <2>1. IsFiniteSet(limiter.seen[a]) /\ a \in Address
    BY LoginAssumption DEF AttemptsArePast
  <2>2. /\ Cardinality(valid) \in Nat /\ now \in Nat
        /\ limiter' \in [max : {limiter.max}, seen : [Address -> SUBSET Attempt], calls : Nat]
        /\ pruned' \in [Address -> Nat] /\ \A e \in Address : pruned'[e] >= pruned[e]
        /\ \A e \in Address : \A x \in limiter.seen[e] :
             x.at + RateWindow > pruned'[e] => x \in limiter'.seen[e]
        /\ \/ admitted' = admitted
           \/ /\ Cardinality(valid) < limiter.max /\ attempt \in limiter'.seen[a]
              /\ admitted' = [admitted EXCEPT ![a] = admitted[a] \cup {attempt}]
    BY <2>1, AllowsLeaves
  <2>3. syncing' = syncing /\ limiter'.max = limiter.max /\ limiter.max \in Nat
    BY <2>2, LoginAssumption DEF Allows, LoginShapes
  <2>4. attempt.at = now /\ (attempt.late <=> now < pruned[a]) /\ now \in Nat
    BY <2>2
  <2> HIDE DEF attempt
  <2>5. /\ \A x \in admitted[b] : x.at + RateWindow > pruned[b] => x \in limiter.seen[b]
        /\ \A t \in Nat : Cardinality(InTime(admitted[b], t)) <= limiter.max
    BY <2>3 DEF WindowsAreKept, InForce
  <2>6. \A x \in admitted[b] : x.at + RateWindow > pruned'[b] => x \in limiter'.seen[b]
    <3>1. ASSUME NEW x \in admitted[b], x.at + RateWindow > pruned'[b] PROVE x \in limiter'.seen[b]
      <4>1. x.at \in Nat /\ pruned[b] \in Nat /\ pruned'[b] \in Nat /\ pruned'[b] >= pruned[b]
        BY <2>2 DEF LoginShapes, Attempt
      <4>2. x.at + RateWindow > pruned[b]
        BY <1>0, <3>1, <4>1
      <4> QED BY <2>2, <2>5, <3>1, <4>2
    <3> QED BY <3>1
  <2>7. CASE admitted'[b] = admitted[b]
    BY <2>3, <2>5, <2>6, <2>7
  <2>8. CASE admitted'[b] # admitted[b]
    <3>1. /\ b = a /\ Cardinality(valid) < limiter.max /\ attempt \in limiter'.seen[a]
          /\ admitted'[b] = admitted[b] \cup {attempt}
      BY <2>1, <2>2, <2>8 DEF LoginShapes
    <3>2. \A x \in admitted'[b] : x.at + RateWindow > pruned'[b] => x \in limiter'.seen[b]
      BY <2>6, <3>1
    <3>3. ASSUME NEW t \in Nat PROVE Cardinality(InTime(admitted'[b], t)) <= limiter'.max
      <4>1. CASE attempt.late \/ ~(now <= t /\ t < now + RateWindow)
        <5>1. InTime(admitted'[b], t) = InTime(admitted[b], t)
          BY <2>4, <3>1, <4>1 DEF InTime, InWindow
        <5> QED BY <2>3, <2>5, <5>1
      <4>2. CASE ~attempt.late /\ now <= t /\ t < now + RateWindow
        <5>1. ASSUME NEW x \in admitted[b], t < x.at + RateWindow
              PROVE  x \in valid
          <6>1. x.at \in Nat /\ pruned[b] \in Nat /\ ~(now < pruned[b])
            BY <2>4, <3>1, <4>2 DEF LoginShapes, Attempt
          <6>2. x.at + RateWindow > now /\ x.at + RateWindow > pruned[b]
            BY <1>0, <2>4, <4>2, <5>1, <6>1
          <6> QED BY <2>5, <3>1, <6>2 DEF Prune
        <5>2. InTime(admitted'[b], t) \subseteq valid \cup {attempt}
          BY <3>1, <5>1 DEF InTime, InWindow
        <5>3. IsFiniteSet(valid)
          <6>1. valid \subseteq limiter.seen[a]
            BY DEF Prune
          <6> QED BY <2>1, <6>1, FS_Subset
        <5> HIDE DEF valid
        <5>4. IsFiniteSet(valid \cup {attempt}) /\ Cardinality(valid \cup {attempt}) <= Cardinality(valid) + 1
          <6>1. Cardinality(valid \cup {attempt}) \in {Cardinality(valid), Cardinality(valid) + 1}
            BY <5>3, FS_AddElement
          <6>2. IsFiniteSet(valid \cup {attempt})
            BY <5>3, FS_AddElement
          <6> QED BY <2>2, <6>1, <6>2
        <5>5. /\ Cardinality(InTime(admitted'[b], t)) <= Cardinality(valid \cup {attempt})
              /\ Cardinality(InTime(admitted'[b], t)) \in Nat /\ Cardinality(valid \cup {attempt}) \in Nat
          BY <5>2, <5>4, FS_Subset, FS_CardinalityType
        <5> QED BY <2>2, <2>3, <3>1, <5>4, <5>5
      <4> QED BY <4>1, <4>2
    <3> QED BY <3>2, <3>3
  <2> QED BY <2>7, <2>8
<1>2. CASE ~\E c \in Client : Allows(c)
  <2>1. \/ /\ admitted' = admitted /\ limiter'.seen = limiter.seen /\ pruned' = pruned
           /\ limiter'.max = limiter.max /\ syncing' = syncing
        \/ /\ admitted' = [a \in Address |-> {}] /\ limiter'.max = limiter.max
    BY <1>2, WindowsStay DEF InForce
  <2>2. CASE admitted' = admitted /\ limiter'.seen = limiter.seen /\ pruned' = pruned
             /\ limiter'.max = limiter.max /\ syncing' = syncing
    BY <2>2 DEF WindowsAreKept, InForce
  <2>3. CASE admitted' = [a \in Address |-> {}] /\ limiter'.max = limiter.max
    <3>1. admitted'[b] = {} /\ \A t \in Nat : InTime(admitted'[b], t) = {}
      BY <2>3 DEF InTime, InWindow
    <3>2. limiter'.max \in Nat /\ Cardinality({}) = 0
      BY <2>3, LoginAssumption, FS_EmptySet DEF LoginShapes
    <3>3. 0 <= limiter'.max
      BY <3>2
    <3> QED BY <3>1, <3>2, <3>3
  <2> QED BY <2>1, <2>2, <2>3
<1> QED BY <1>1, <1>2

\* A failure not yet read comes of a password that did not match; reading it
\* takes it out of Failing.
LEMMA FailingMoves ==
  ASSUME LoginShapes, [LoginNext]_loginVars
  PROVE  /\ IsFiniteSet(Failing) /\ IsFiniteSet(Failing')
         /\ \/ Failing' \subseteq Failing /\ failures' >= failures
            \/ \E c \in Client : Failing' \subseteq Failing \cup {c} /\ failures' = failures + 1
         /\ \A c \in Client : FailureRead(c) => c \in Failing /\ Failing' = Failing \ {c}
<1>1. IsFiniteSet(Failing) /\ IsFiniteSet(Failing')
  BY LoginAssumption, FS_Subset DEF Failing
<1>2. ASSUME NEW c \in Client, Allows(c) \/ LoginMoves(c)
      PROVE  \/ Failing' \subseteq Failing /\ failures' >= failures
             \/ Failing' \subseteq Failing \cup {c} /\ failures' = failures + 1
  <2>1. PICK e \in LoginStates :
          /\ logins' = [logins EXCEPT ![c] = e] \/ logins' = logins
          /\ e.pc = "fails" => failures' = failures + 1
    BY <1>2, LoginsMove
  <2>2. failures' \in {failures, failures + 1} /\ failures \in Nat
    BY <1>2, MovesLeave DEF Allows, LoginShapes
  <2>3. CASE e.pc = "fails"
    BY <2>1, <2>3 DEF Failing, LoginShapes
  <2>4. CASE e.pc # "fails"
    BY <2>1, <2>2, <2>4 DEF Failing, LoginShapes
  <2> QED BY <2>3, <2>4
<1>3. ASSUME NEW c \in Client, FailureRead(c)
      PROVE  c \in Failing /\ Failing' = Failing \ {c}
  BY <1>3 DEF FailureRead, Failing, LoginShapes
<1>4. CASE ~\E c \in Client : Allows(c) \/ LoginMoves(c)
  <2>1. logins' = logins \/ \A c \in Client : logins'[c] = NoLogin
    BY <1>4 DEF LoginNext, LoginMoves, RowMoves, UnlockRuns, UnlockAccount, SetsMax,
                ClearsLimiter, LoginRestarts, LoginClockTicks, loginVars
  <2>2. failures' = failures /\ failures \in Nat
    BY <1>4 DEF LoginNext, LoginMoves, RowMoves, UnlockRuns, UnlockAccount, SetsMax,
                ClearsLimiter, LoginRestarts, LoginClockTicks, loginVars, LoginShapes
  <2> QED BY <1>1, <1>3, <2>1, <2>2 DEF Failing, NoLogin
<1> QED BY <1>1, <1>2, <1>3, <1>4

\* A failure that is counted was a password that did not match.
LEMMA CountsStayBacked ==
  ASSUME LoginShapes, AttemptsArePast, CountsAreBacked, [LoginNext]_loginVars
  PROVE  CountsAreBacked'
<1>0. \A f, g, v, w, n \in Nat : v + f <= w + g /\ n + w <= f => n + v <= g /\ 0 + v <= g
  OBVIOUS
<1> DEFINE waiting == Cardinality(Failing)
           waitingNext == Cardinality(Failing')
<1>1. IsFiniteSet(Failing) /\ IsFiniteSet(Failing') /\ waiting \in Nat /\ waitingNext \in Nat
  BY FailingMoves, FS_CardinalityType
<1>2. /\ account.failed \in Nat /\ failures \in Nat /\ failures' \in Nat /\ LockoutThreshold \in Nat
      /\ \A c \in Client : logins[c].n \in Nat
  BY LoginShapesKept, LoginAssumption DEF LoginShapes, LoginStates
<1>3. failures' >= failures /\ waitingNext + failures <= waiting + failures'
  <2>1. CASE Failing' \subseteq Failing /\ failures' >= failures
    <3>1. waitingNext <= waiting
      BY <1>1, <2>1, FS_Subset
    <3>2. waiting \in Nat /\ waitingNext \in Nat /\ failures \in Nat /\ failures' \in Nat
      BY <1>1, <1>2
    <3>3. \A w, v, f, g \in Nat : v <= w /\ g >= f => v + f <= w + g
      OBVIOUS
    <3>4. failures' >= failures
      BY <2>1
    <3> HIDE DEF waiting, waitingNext
    <3> QED BY <3>1, <3>2, <3>3, <3>4
  <2>2. ASSUME NEW c \in Client, Failing' \subseteq Failing \cup {c}, failures' = failures + 1
        PROVE  failures' >= failures /\ waitingNext + failures <= waiting + failures'
    <3>1. /\ IsFiniteSet(Failing \cup {c})
          /\ Cardinality(Failing \cup {c}) \in {waiting, waiting + 1}
      BY <1>1, FS_AddElement
    <3>2. waitingNext <= Cardinality(Failing \cup {c})
      BY <2>2, <3>1, FS_Subset
    <3> HIDE DEF waiting, waitingNext
    <3> QED BY <1>1, <1>2, <2>2, <3>1, <3>2
  <2> QED BY <2>1, <2>2, FailingMoves
<1>4. ASSUME NEW c \in Client, FailureRead(c)
      PROVE  waiting = waitingNext + 1
  <2>1. c \in Failing /\ Failing' = Failing \ {c}
    BY <1>4, FailingMoves
  <2>2. waitingNext = waiting - 1
    BY <1>1, <2>1, FS_RemoveElement
  <2> HIDE DEF waiting, waitingNext
  <2> QED BY <1>1, <2>2
<1>5. /\ account.failed + waiting <= failures
      /\ \A c \in Client : logins[c].pc = "records" => logins[c].n + waiting <= failures
      /\ account.until # 0 => failures >= LockoutThreshold
  BY DEF CountsAreBacked
<1> HIDE DEF waiting, waitingNext
<1>6. \/ account' \in {account, NoAccountRow}
      \/ \E c \in Client : logins[c].pc = "records" /\ FailureRecorded(c)
  BY MovesLeave DEF LoginNext, LoginMoves, RowMoves, UnlockRuns, UnlockAccount, SetsMax,
        ClearsLimiter, LoginRestarts, LoginClockTicks, loginVars, Allows, FailureRecorded
<1>7. account'.failed + waitingNext <= failures' /\ (account'.until # 0 => failures' >= LockoutThreshold)
  <2>1. CASE account' \in {account, NoAccountRow}
    <3>1. account'.failed \in {account.failed, 0} /\ account'.until \in {account.until, 0}
      BY <2>1 DEF NoAccountRow
    <3>2. account.failed + waiting <= failures /\ (account.until # 0 => failures >= LockoutThreshold)
      BY <1>5
    <3>3. account'.until # 0 => failures' >= LockoutThreshold
      BY <1>2, <1>3, <3>1, <3>2
    <3>4. account'.failed + waitingNext <= failures'
      BY <1>0, <1>1, <1>2, <1>3, <3>1, <3>2
    <3> QED BY <3>3, <3>4
  <2>2. ASSUME NEW c \in Client, logins[c].pc = "records", FailureRecorded(c)
        PROVE  account'.failed + waitingNext <= failures'
               /\ (account'.until # 0 => failures' >= LockoutThreshold)
    <3>1. account'.failed = logins[c].n /\ (account'.until # 0 => logins[c].n >= LockoutThreshold)
      BY <2>2 DEF FailureRecorded, CalculateLockout
    <3>2. logins[c].n + waiting <= failures /\ logins[c].n \in Nat
      BY <1>2, <1>5, <2>2
    <3>3. account'.until # 0 => failures' >= LockoutThreshold
      BY <1>1, <1>2, <1>3, <3>1, <3>2
    <3>4. account'.failed + waitingNext <= failures'
      BY <1>0, <1>1, <1>2, <1>3, <3>1, <3>2
    <3> QED BY <3>3, <3>4
  <2> QED BY <1>6, <2>1, <2>2
<1>8. ASSUME NEW c \in Client, logins'[c].pc = "records" PROVE logins'[c].n + waitingNext <= failures'
  <2>1. CASE logins'[c] = logins[c]
    <3>1. waiting \in Nat /\ waitingNext \in Nat /\ failures \in Nat /\ failures' \in Nat
          /\ logins[c].n \in Nat
      BY <1>1, <1>2
    <3>2. logins[c].n + waiting <= failures
      BY <1>5, <1>8, <2>1
    <3>3. logins[c].n + waitingNext <= failures'
      BY <1>0, <1>3, <3>1, <3>2, Zenon
    <3> QED BY <2>1, <3>3
  <2>2. CASE logins'[c] # logins[c]
    <3>1. Allows(c) \/ LoginMoves(c)
      <4>1. ASSUME NEW d \in Client, Allows(d) \/ LoginMoves(d) PROVE c = d
        <5>1. PICK e \in LoginStates : logins' = [logins EXCEPT ![d] = e] \/ logins' = logins
          BY <4>1, LoginsMove
        <5> QED BY <2>2, <5>1 DEF LoginShapes
      <4>2. logins' = logins \/ logins'[c] = NoLogin \/ \E d \in Client : Allows(d) \/ LoginMoves(d)
        BY DEF LoginNext, LoginMoves, RowMoves, UnlockRuns, UnlockAccount, SetsMax,
                ClearsLimiter, LoginRestarts, LoginClockTicks, loginVars
      <4> QED BY <1>8, <2>2, <4>1, <4>2 DEF NoLogin
    <3>2. PICK e \in LoginStates :
            /\ logins' = [logins EXCEPT ![c] = e] \/ logins' = logins
            /\ e.pc = "records" => FailureRead(c) /\ e.n = account.failed + 1
      BY <3>1, LoginsMove
    <3>3. logins'[c] = e
      BY <2>2, <3>2 DEF LoginShapes
    <3>4. FailureRead(c) /\ logins'[c].n = account.failed + 1
      BY <1>8, <3>2, <3>3
    <3>5. waiting = waitingNext + 1
      BY <1>4, <3>4
    <3> QED BY <1>1, <1>2, <1>3, <1>5, <3>4, <3>5
  <2> QED BY <2>1, <2>2
<1> QED BY <1>7, <1>8 DEF CountsAreBacked, waitingNext, Failing

\* The properties are parts of the invariant.
LEMMA LoginInvGivesLimits == LoginInv => LoginTypeOK /\ LoginLimits
<1> SUFFICES ASSUME LoginInv PROVE LoginTypeOK /\ LoginLimits
  OBVIOUS
<1> USE DEF LoginInv
<1>1. LoginTypeOK
  <2>1. account \in [failed : Nat, until : Nat] /\ limiter.max \in RateMax /\ limiter.calls \in Nat
    BY DEF LoginShapes
  <2>2. ASSUME NEW a \in Address, NEW x \in limiter.seen[a] \cup admitted[a] PROVE x.at \in 0..clock
    <3>1. x \in Attempt /\ x.at <= clock /\ clock \in Nat
      BY DEF LoginShapes, AttemptsArePast
    <3> QED BY <3>1 DEF Attempt
  <2>3. ASSUME NEW c \in Client PROVE logins[c].at \in 0..clock
    <3>1. logins[c] \in LoginStates /\ clock \in Nat /\ logins[c].at <= clock
      BY DEF LoginShapes, AttemptsArePast
    <3>2. logins[c].at \in Nat
      BY <3>1 DEF LoginStates
    <3> QED BY <3>1, <3>2
  <2> QED BY <2>1, <2>2, <2>3 DEF LoginTypeOK
<1>2. WindowHolds
  <2>1. 0..LoginHorizon \subseteq Nat
    OBVIOUS
  <2> QED BY <2>1 DEF WindowsAreKept, InTime, WindowHolds
<1>3. LocksAreEarned
  <2>1. Cardinality(Failing) \in Nat
    BY LoginAssumption, FS_Subset, FS_CardinalityType DEF Failing
  <2>2. account.failed \in Nat /\ failures \in Nat
    BY DEF LoginShapes
  <2> QED BY <2>1, <2>2 DEF CountsAreBacked, LocksAreEarned
<1> QED BY <1>1, <1>2, <1>3 DEF LoginLimits

\* Every step of the login keeps the invariant.
LEMMA LoginInvKept == LoginInv /\ [LoginNext]_loginVars => LoginInv'
  BY LoginShapesKept, AttemptsStayPast, WindowsStayKept, CountsStayBacked DEF LoginInv

(* But for those that were overtaken on their way to the lock, no window sees
   more attempts from one address than the limit in force; and nobody is locked
   out who was not LockoutThreshold times wrong. For any number of clients,
   addresses, attempts and seconds (LoginLimits). *)
THEOREM LoginsAreLimited == LoginSpec => [](LoginTypeOK /\ LoginLimits)
<1>1. LoginSpec => []LoginInv
  BY LoginBegins, LoginInvKept, PTL DEF LoginSpec
<1> QED BY <1>1, LoginInvGivesLimits, PTL

-----------------------------------------------------------------------------
(* The log files.                                                          *)

LogPath == [dir : LogDir, name : Nat]
LogHandle == [path : LogPath, open : BOOLEAN]
Handles == Seq(LogHandle)
SaverStates == [pc : {"idle", "read"}, file : DOMAIN handles, old : LogLevel,
                level : LogLevel, dir : LogDir]
LogShapes ==
  /\ handles \in Handles
  /\ logger \in [file : DOMAIN handles, level : LogLevel]
  /\ installed \in [file : DOMAIN handles, level : LogLevel]
  /\ savers \in [Saver -> SaverStates]
  /\ written \in [DOMAIN written -> SUBSET LogPath] /\ DOMAIN written \subseteq LogPath
  /\ retention \in [active : SUBSET LogPath, doomed : SUBSET LogPath]
  /\ stamp \in Nat /\ PathOf(logger.file).name <= stamp
  /\ causes \subseteq {"stale reload", "no new file"}

(* Which handle is open, and why the default logger may not have it.       *)
OneHandle ==
  /\ \A h \in DOMAIN handles : handles[h].open => h = logger.file
  /\ "no new file" \notin causes => handles[logger.file].open
  /\ "stale reload" \notin causes => installed.file = logger.file

(* Of the files of a directory one written to later has a later name, none *)
(* a later one than the logger's, and a file to be deleted an earlier one. *)
NamesAscend ==
  /\ \A q \in DOMAIN written :
       /\ q.name <= PathOf(logger.file).name
       /\ \A r \in written[q] : r \in DOMAIN written /\ (r.dir = q.dir => q.name < r.name)
  /\ \A q \in retention.doomed : q.name < PathOf(logger.file).name

LogInv == LogShapes /\ OneHandle /\ NamesAscend /\ ActiveFileKept

-----------------------------------------------------------------------------
\* One handle, open, on the one file written to.
LEMMA LogBegins == LogInit => LogInv
<1> SUFFICES ASSUME LogInit PROVE LogInv
  OBVIOUS
<1> DEFINE p == [dir |-> BootstrapDir, name |-> 1]
<1>1. p \in LogPath /\ p.name = 1
  BY LogAssumption DEF LogPath
<1>2. /\ handles = <<[path |-> p, open |-> TRUE]>>
      /\ logger = [file |-> 1, level |-> BootstrapLevel] /\ installed = logger
      /\ written = [q \in {p} |-> {}] /\ savers = [s \in Saver |-> NoSave]
      /\ retention = NoTask /\ stamp = 1 /\ causes = {}
  BY DEF LogInit
<1> HIDE DEF p
<1>3. /\ handles \in Handles /\ DOMAIN handles = {1} /\ handles[1].path = p /\ handles[1].open
      /\ PathOf(logger.file) = p
  <2>1. /\ handles \in Handles /\ DOMAIN handles = 1..1 /\ handles[1] = [path |-> p, open |-> TRUE]
    BY <1>1, <1>2 DEF Handles, LogHandle
  <2> QED BY <1>2, <2>1 DEF PathOf
<1>4. savers \in [Saver -> SaverStates]
  <2>1. NoSave \in SaverStates
    BY <1>3, LogAssumption DEF NoSave, SaverStates
  <2> QED BY <1>2, <2>1
<1>5. LogShapes
  <2>1. retention \in [active : SUBSET LogPath, doomed : SUBSET LogPath]
    BY <1>2 DEF NoTask
  <2>2. logger \in [file : DOMAIN handles, level : LogLevel] /\ installed = logger
    BY <1>2, <1>3, LogAssumption
  <2>3. written \in [DOMAIN written -> SUBSET LogPath] /\ DOMAIN written \subseteq LogPath
    BY <1>1, <1>2
  <2> QED BY <1>1, <1>2, <1>3, <1>4, <2>1, <2>2, <2>3 DEF LogShapes
<1>6. OneHandle
  BY <1>2, <1>3 DEF OneHandle
<1>7. NamesAscend /\ ActiveFileKept
  BY <1>1, <1>2, <1>3 DEF NamesAscend, ActiveFileKept, NoTask
<1> QED BY <1>5, <1>6, <1>7 DEF LogInv

\* A new file: the handles before it stay, all closed but for the last.
LEMMA NewHandle ==
  ASSUME LogShapes, OneHandle, NEW p \in LogPath, NEW hs,
         \/ hs = Closing(Opened(p), logger.file)
         \/ hs = [h \in DOMAIN Opened(p) |-> [Opened(p)[h] EXCEPT !.open = h > Len(handles)]]
  PROVE  /\ hs \in Handles /\ DOMAIN hs = 1..(Len(handles) + 1) /\ Len(handles) + 1 \in DOMAIN hs
         /\ DOMAIN handles \subseteq DOMAIN hs
         /\ hs[Len(handles) + 1].path = p /\ hs[Len(handles) + 1].open
         /\ \A h \in DOMAIN hs : hs[h].open => h = Len(handles) + 1
<1> DEFINE new == [path |-> p, open |-> TRUE]
<1>1. /\ handles \in Seq(LogHandle) /\ Len(handles) \in Nat /\ DOMAIN handles = 1..Len(handles)
      /\ logger.file \in DOMAIN handles
  <2>1. handles \in Seq(LogHandle) /\ logger.file \in DOMAIN handles
    BY DEF LogShapes, Handles
  <2> QED BY <2>1, LenProperties
<1>2. /\ Opened(p) \in Seq(LogHandle) /\ Len(Opened(p)) = Len(handles) + 1
      /\ DOMAIN Opened(p) = 1..(Len(handles) + 1)
      /\ Opened(p)[Len(handles) + 1] = new
      /\ \A h \in DOMAIN handles : Opened(p)[h] = handles[h]
  <2>1. new \in LogHandle
    BY DEF LogHandle
  <2>2. Opened(p) = Append(handles, new)
    BY DEF Opened
  <2> HIDE DEF new
  <2> QED BY <1>1, <2>1, <2>2, AppendProperties, LenProperties
<1>3. \A h \in 1..(Len(handles) + 1) : Opened(p)[h] \in LogHandle /\ (h # Len(handles) + 1 => h \in DOMAIN handles)
  BY <1>1, <1>2
<1>4. CASE hs = Closing(Opened(p), logger.file)
  <2>1. /\ DOMAIN hs = 1..(Len(handles) + 1)
        /\ \A h \in DOMAIN hs : h # logger.file => hs[h] = Opened(p)[h]
        /\ hs[logger.file] = [Opened(p)[logger.file] EXCEPT !.open = FALSE]
    <3>1. logger.file \in DOMAIN Opened(p)
      BY <1>1, <1>2
    <3> QED BY <1>2, <1>4, <3>1 DEF Closing
  <2>2. hs[logger.file] \in LogHandle /\ ~hs[logger.file].open
    <3>1. Opened(p)[logger.file] \in LogHandle
      BY <1>1, <1>2, <1>3
    <3> QED BY <2>1, <3>1 DEF LogHandle
  <2>3. hs \in Seq(LogHandle)
    <3>1. \A h \in 1..(Len(handles) + 1) : hs[h] \in LogHandle
      BY <1>3, <2>1, <2>2
    <3>2. hs = [h \in 1..(Len(handles) + 1) |-> hs[h]]
      BY <1>2, <1>4 DEF Closing
    <3> QED BY <1>1, <3>1, <3>2
  <2>4. ASSUME NEW h \in DOMAIN hs, hs[h].open PROVE h = Len(handles) + 1
    <3>1. h # logger.file
      BY <2>2, <2>4
    <3>2. h \in DOMAIN handles => handles[h].open
      BY <1>2, <2>1, <2>4, <3>1
    <3> QED BY <1>3, <2>1, <3>1, <3>2 DEF OneHandle
  <2>5. logger.file # Len(handles) + 1
    BY <1>1
  <2> QED BY <1>1, <1>2, <2>1, <2>3, <2>4, <2>5 DEF LogHandle, Handles
<1>5. CASE hs = [h \in DOMAIN Opened(p) |-> [Opened(p)[h] EXCEPT !.open = h > Len(handles)]]
  <2>1. DOMAIN hs = 1..(Len(handles) + 1)
    BY <1>2, <1>5
  <2>2. ASSUME NEW h \in 1..(Len(handles) + 1)
        PROVE  /\ hs[h] \in LogHandle /\ hs[h].path = Opened(p)[h].path
               /\ (hs[h].open <=> h > Len(handles))
    <3>1. hs[h] = [Opened(p)[h] EXCEPT !.open = h > Len(handles)]
      BY <1>2, <1>5
    <3>2. Opened(p)[h] \in LogHandle
      BY <1>3
    <3>3. \A x \in LogHandle, b \in BOOLEAN :
            /\ [x EXCEPT !.open = b] \in LogHandle /\ [x EXCEPT !.open = b].path = x.path
            /\ [x EXCEPT !.open = b].open = b
      BY DEF LogHandle
    <3>4. (h > Len(handles)) \in BOOLEAN
      OBVIOUS
    <3> HIDE DEF new
    <3>5. hs[h].open = (h > Len(handles)) /\ hs[h].path = Opened(p)[h].path /\ hs[h] \in LogHandle
      BY <3>1, <3>2, <3>3, <3>4, Zenon
    <3> QED BY <3>5
  <2>3. hs \in Seq(LogHandle)
    <3>1. hs = [h \in 1..(Len(handles) + 1) |-> hs[h]]
      BY <1>2, <1>5
    <3> QED BY <1>1, <2>2, <3>1
  <2>4. ASSUME NEW h \in DOMAIN hs, hs[h].open PROVE h = Len(handles) + 1
    BY <1>1, <2>1, <2>2, <2>4
  <2>5. hs[Len(handles) + 1].open /\ hs[Len(handles) + 1].path = p
    BY <1>1, <1>2, <2>2
  <2> QED BY <1>1, <2>1, <2>3, <2>4, <2>5 DEF LogHandle, Handles
<1> QED BY <1>4, <1>5

\* What may be deleted has a successor in its directory.
LEMMA ExpiredAreOlder ==
  ASSUME LogShapes, NamesAscend, NEW d, NEW p, NEW q \in Expired(d, p)
  PROVE  q \in LogPath /\ q.name < PathOf(logger.file).name
<1> DEFINE others == {x \in DOMAIN written : x.dir = d /\ x # p}
<1>1. q \in others /\ Cardinality(others \cap written[q]) >= RetentionCount
  BY DEF Expired
<1>2. others \cap written[q] # {}
  BY <1>1, FS_EmptySet, LogAssumption
<1>3. PICK r \in others \cap written[q] : TRUE
  BY <1>2
<1>4. /\ q.name < r.name /\ r.name <= PathOf(logger.file).name
      /\ q \in LogPath /\ r \in LogPath /\ PathOf(logger.file) \in LogPath
  <2>1. q \in LogPath /\ r \in LogPath
    BY <1>1, <1>3 DEF LogShapes
  <2>2. handles[logger.file] \in LogHandle
    <3>1. handles \in Seq(LogHandle) /\ logger.file \in DOMAIN handles
      BY DEF LogShapes, Handles
    <3> QED BY <3>1, LenProperties, ElementOfSeq
  <2>3. q.name < r.name /\ r.name <= PathOf(logger.file).name
    BY <1>1, <1>3 DEF NamesAscend
  <2> QED BY <2>1, <2>2, <2>3 DEF PathOf, LogHandle
<1> QED BY <1>4 DEF LogPath

\* Writing to the newest of a directory keeps the order.
LEMMA OrderKept ==
  ASSUME NEW w, w \in [DOMAIN w -> SUBSET LogPath], DOMAIN w \subseteq LogPath,
         NEW p \in LogPath,
         \A q \in DOMAIN w : /\ q.name <= p.name
                             /\ \A r \in w[q] : r \in DOMAIN w /\ (r.dir = q.dir => q.name < r.name),
         \A q \in DOMAIN w : q.dir = p.dir /\ q # p => q.name < p.name
  PROVE  /\ Wrote(w, p) \in [DOMAIN Wrote(w, p) -> SUBSET LogPath]
         /\ DOMAIN Wrote(w, p) = DOMAIN w \cup {p}
         /\ \A q \in DOMAIN Wrote(w, p) :
              /\ q.name <= p.name
              /\ \A r \in Wrote(w, p)[q] :
                    r \in DOMAIN Wrote(w, p) /\ (r.dir = q.dir => q.name < r.name)
  BY DEF Wrote, LogPath

\* Handles and savers name files.
LEMMA LoggerHasPath ==
  ASSUME LogShapes
  PROVE  /\ PathOf(logger.file) \in LogPath /\ PathOf(logger.file).name \in Nat
         /\ NoSave \in SaverStates
         /\ \A s \in Saver : savers[s] \in SaverStates /\ PathOf(savers[s].file) \in LogPath
<1>1. handles \in Seq(LogHandle) /\ logger.file \in DOMAIN handles
  BY DEF LogShapes, Handles
<1>2. \A h \in DOMAIN handles : PathOf(h) \in LogPath /\ PathOf(h).name \in Nat
  <2>1. ASSUME NEW h \in DOMAIN handles PROVE handles[h] \in LogHandle
    BY <1>1, LenProperties, ElementOfSeq
  <2> QED BY <2>1 DEF PathOf, LogHandle, LogPath
<1>3. 1 \in DOMAIN handles
  BY <1>1, LenProperties
<1>4. NoSave \in SaverStates
  BY <1>3, LogAssumption DEF NoSave, SaverStates
<1>5. \A s \in Saver : savers[s] \in SaverStates /\ savers[s].file \in DOMAIN handles
  BY DEF LogShapes, SaverStates
<1> QED BY <1>1, <1>2, <1>4, <1>5

\* A file at least as new as the logger's becomes the logger's.
LEMMA FileChanges ==
  ASSUME LogInv, NEW p \in LogPath, PathOf(logger.file).name <= p.name,
         NEW level \in LogLevel, Installs(Len(handles) + 1, level),
         NEW w \in {written, Removed(written, Expired(p.dir, p))}, written' = Wrote(w, p),
         (\/ handles' = Closing(Opened(p), logger.file)
          \/ handles' = [h \in DOMAIN Opened(p) |-> [Opened(p)[h] EXCEPT !.open = h > Len(handles)]]),
         savers' \in [Saver -> SaverStates], retention' \in {retention, NoTask},
         causes' = {}, stamp' \in Nat, p.name <= stamp'
  PROVE  LogInv'
<1> USE DEF LogInv
<1> DEFINE n == Len(handles) + 1
<1>1. /\ handles' \in Handles /\ DOMAIN handles' = 1..n /\ n \in DOMAIN handles'
      /\ DOMAIN handles \subseteq DOMAIN handles' /\ handles'[n].path = p /\ handles'[n].open
      /\ \A h \in DOMAIN handles' : handles'[h].open => h = n
  BY NewHandle
<1>2. /\ logger' = [file |-> n, level |-> level] /\ installed' = [file |-> n, level |-> level]
      /\ logger'.file = n /\ installed'.file = n
  BY DEF Installs
<1> HIDE DEF n
<1>3. PathOf(logger.file)' = p
  BY <1>1, <1>2 DEF PathOf
<1>4. /\ PathOf(logger.file) \in LogPath /\ PathOf(logger.file).name \in Nat /\ p.name \in Nat
  BY LoggerHasPath DEF LogPath
<1>5. /\ w \in [DOMAIN w -> SUBSET LogPath] /\ DOMAIN w \subseteq LogPath
      /\ \A q \in DOMAIN w : /\ q.name <= PathOf(logger.file).name
                            /\ \A r \in w[q] : r \in DOMAIN w /\ (r.dir = q.dir => q.name < r.name)
  <2>1. /\ written \in [DOMAIN written -> SUBSET LogPath] /\ DOMAIN written \subseteq LogPath
        /\ \A q \in DOMAIN written :
             /\ q.name <= PathOf(logger.file).name
             /\ \A r \in written[q] : r \in DOMAIN written /\ (r.dir = q.dir => q.name < r.name)
    BY DEF LogShapes, NamesAscend
  <2>2. CASE w = Removed(written, Expired(p.dir, p))
    <3> DEFINE gone == Expired(p.dir, p)
               v == Removed(written, gone)
    <3> HIDE DEF gone
    <3>1. /\ v \in [DOMAIN v -> SUBSET LogPath] /\ DOMAIN v = DOMAIN written \ gone
          /\ \A q \in DOMAIN v :
                /\ q.name <= PathOf(logger.file).name
                /\ \A r \in v[q] : r \in DOMAIN v /\ (r.dir = q.dir => q.name < r.name)
      BY <2>1 DEF Removed
    <3>2. w = v
      BY <2>2 DEF gone
    <3> QED BY <2>1, <3>1, <3>2
  <2> QED BY <2>1, <2>2
<1>6. \A q \in DOMAIN w : /\ q.name <= p.name
                         /\ \A r \in w[q] : r \in DOMAIN w /\ (r.dir = q.dir => q.name < r.name)
  <2>1. \A q \in DOMAIN w : q.name \in Nat
    BY <1>5 DEF LogPath
  <2> QED BY <1>4, <1>5, <2>1
<1>7. \A q \in DOMAIN w : q.dir = p.dir /\ q # p => q.name < p.name
  <2>1. \A q \in LogPath : q.dir = p.dir /\ q.name = p.name => q = p
    BY DEF LogPath
  <2>2. \A q \in DOMAIN w : q.name \in Nat /\ q.name <= p.name /\ q \in LogPath
    BY <1>5, <1>6 DEF LogPath
  <2> QED BY <1>4, <2>1, <2>2
<1>8. /\ written' \in [DOMAIN written' -> SUBSET LogPath] /\ DOMAIN written' = DOMAIN w \cup {p}
      /\ \A q \in DOMAIN written' :
            /\ q.name <= p.name
            /\ \A r \in written'[q] : r \in DOMAIN written' /\ (r.dir = q.dir => q.name < r.name)
  <2> DEFINE v == Wrote(w, p)
  <2>1. /\ v \in [DOMAIN v -> SUBSET LogPath] /\ DOMAIN v = DOMAIN w \cup {p}
        /\ \A q \in DOMAIN v :
              /\ q.name <= p.name
              /\ \A r \in v[q] : r \in DOMAIN v /\ (r.dir = q.dir => q.name < r.name)
    <3>1. p.name <= p.name
      BY <1>4
    <3> QED BY <1>4, <1>5, <1>6, <1>7, <3>1, OrderKept
  <2> QED BY <2>1
<1>9. savers' \in [Saver -> SaverStates']
  <2>1. SaverStates \subseteq SaverStates'
    BY <1>1 DEF SaverStates
  <2> QED BY <2>1
<1>10. LogShapes'
  <2>1. /\ logger' \in [file : DOMAIN handles', level : LogLevel]
        /\ installed' \in [file : DOMAIN handles', level : LogLevel]
    BY <1>1, <1>2
  <2>2. retention' \in [active : SUBSET LogPath, doomed : SUBSET LogPath]
    <3>1. retention \in [active : SUBSET LogPath, doomed : SUBSET LogPath]
      BY DEF LogShapes
    <3>2. NoTask \in [active : SUBSET LogPath, doomed : SUBSET LogPath]
      BY DEF NoTask
    <3> QED BY <3>1, <3>2
  <2> QED BY <1>1, <1>3, <1>5, <1>8, <1>9, <2>1, <2>2 DEF LogShapes
<1>11. OneHandle' /\ ActiveFileKept'
  <2>1. p \in DOMAIN written'
    BY <1>8
  <2> QED BY <1>1, <1>2, <1>3, <2>1 DEF OneHandle, ActiveFileKept
<1>12. NamesAscend'
  <2>1. \A q \in retention'.doomed : q.name < p.name
    <3>1. \A q \in retention.doomed : q \in LogPath /\ q.name < PathOf(logger.file).name
      BY DEF NamesAscend, LogShapes
    <3>2. retention'.doomed \in {retention.doomed, {}}
      BY DEF NoTask
    <3> QED BY <1>4, <3>1, <3>2 DEF LogPath
  <2> QED BY <1>3, <1>8, <2>1 DEF NamesAscend
<1> QED BY <1>10, <1>11, <1>12

\* A reload keeps the file or opens a newer one, whenever it looked.
LEMMA ReloadsKeep ==
  ASSUME LogInv, NEW s \in Saver,
         ReloadReads(s) \/ ReloadStays(s) \/ ReloadMoves(s) \/ ReloadFails(s)
  PROVE  LogInv'
<1> USE DEF LogInv
<1>1. /\ PathOf(logger.file) \in LogPath /\ PathOf(logger.file).name \in Nat
      /\ NoSave \in SaverStates /\ savers[s] \in SaverStates /\ PathOf(savers[s].file) \in LogPath
  BY LoggerHasPath
<1>2. [savers EXCEPT ![s] = NoSave] \in [Saver -> SaverStates]
  BY <1>1 DEF LogShapes
<1>3. CASE ReloadReads(s)
  <2>1. PICK d \in LogDir, l \in LogLevel :
           savers' = [savers EXCEPT ![s] = [pc |-> "read", file |-> logger.file, old |-> logger.level,
                                           level |-> l, dir |-> d]]
    BY <1>3 DEF ReloadReads
  <2>2. [pc |-> "read", file |-> logger.file, old |-> logger.level, level |-> l, dir |-> d] \in SaverStates
    BY DEF SaverStates, LogShapes
  <2>3. savers' \in [Saver -> SaverStates] /\ SaverStates' = SaverStates
    BY <1>3, <2>1, <2>2 DEF LogShapes, SaverStates, ReloadReads
  <2> QED BY <1>3, <2>3 DEF ReloadReads, LogShapes, OneHandle, NamesAscend, ActiveFileKept, PathOf
<1>4. CASE ReloadFails(s)
  <2>1. savers' \in [Saver -> SaverStates] /\ SaverStates' = SaverStates
    BY <1>2, <1>4 DEF SaverStates, ReloadFails
  <2> QED BY <1>4, <2>1 DEF ReloadFails, LogShapes, OneHandle, NamesAscend, ActiveFileKept, PathOf
<1>5. CASE ReloadMoves(s)
  <2> DEFINE p == [dir |-> savers[s].dir, name |-> PathOf(logger.file).name]
  <2>1. p \in LogPath /\ p.name = PathOf(logger.file).name
    BY <1>1 DEF LogPath, SaverStates
  <2>2. savers[s].level \in LogLevel
    BY <1>1 DEF SaverStates
  <2>3. /\ handles' = Closing(Opened(p), logger.file) /\ Installs(Len(handles) + 1, savers[s].level)
        /\ written' = Wrote(written, p) /\ causes' = {} /\ savers' = [savers EXCEPT ![s] = NoSave]
        /\ retention' = retention /\ stamp' = stamp
    BY <1>5 DEF ReloadMoves
  <2>4. stamp \in Nat /\ PathOf(logger.file).name <= stamp
    BY DEF LogShapes
  <2> HIDE DEF p
  <2>5. PathOf(logger.file).name <= p.name /\ p.name <= stamp'
    BY <1>1, <2>1, <2>3, <2>4
  <2> QED BY <1>2, <2>1, <2>2, <2>3, <2>4, <2>5, FileChanges
<1>6. CASE ReloadStays(s)
  <2>1. SaverStates' = SaverStates /\ savers' \in [Saver -> SaverStates]
        /\ UNCHANGED <<handles, retention, stamp>>
    BY <1>2, <1>6 DEF SaverStates, ReloadStays
  <2>2. CASE UNCHANGED <<logger, installed, written, causes>>
    BY <2>1, <2>2 DEF LogShapes, OneHandle, NamesAscend, ActiveFileKept, PathOf
  <2>3. CASE /\ logger' = [logger EXCEPT !.level = savers[s].level]
             /\ installed' = [file |-> savers[s].file, level |-> savers[s].level]
             /\ written' = IF handles[savers[s].file].open THEN Wrote(written, PathOf(savers[s].file))
                          ELSE written
             /\ causes' = IF savers[s].file = logger.file THEN causes \ {"stale reload"}
                         ELSE causes \cup {"stale reload"}
    <3>1. savers[s].level \in LogLevel /\ savers[s].file \in DOMAIN handles
      BY <1>1 DEF SaverStates
    <3>2. /\ logger' \in [file : DOMAIN handles, level : LogLevel] /\ logger'.file = logger.file
          /\ installed' \in [file : DOMAIN handles, level : LogLevel]
          /\ installed'.file = savers[s].file
      BY <2>3, <3>1 DEF LogShapes
    <3>3. PathOf(logger.file)' = PathOf(logger.file)
      BY <2>1, <3>2 DEF PathOf
    <3> DEFINE p == PathOf(logger.file)
    <3>4. written' = written \/ written' = Wrote(written, p)
      BY <2>3, <3>1 DEF OneHandle
    <3>5. /\ written \in [DOMAIN written -> SUBSET LogPath] /\ DOMAIN written \subseteq LogPath
          /\ \A q \in DOMAIN written :
               /\ q.name <= p.name
               /\ \A r \in written[q] : r \in DOMAIN written /\ (r.dir = q.dir => q.name < r.name)
      BY DEF LogShapes, NamesAscend
    <3>6. \A q \in DOMAIN written : q.dir = p.dir /\ q # p => q.name < p.name
      <4>1. \A q \in LogPath : q.dir = p.dir /\ q.name = p.name => q = p
        BY <1>1 DEF LogPath
      <4>2. \A q \in DOMAIN written : q.name \in Nat /\ q.name <= p.name /\ q \in LogPath
        BY <3>5 DEF LogPath
      <4> QED BY <1>1, <4>1, <4>2
    <3>7. /\ written' \in [DOMAIN written' -> SUBSET LogPath]
          /\ DOMAIN written' \in {DOMAIN written, DOMAIN written \cup {p}}
          /\ \A q \in DOMAIN written' :
               /\ q.name <= p.name
               /\ \A r \in written'[q] : r \in DOMAIN written' /\ (r.dir = q.dir => q.name < r.name)
      <4>1. CASE written' = written
        BY <3>5, <4>1
      <4>2. CASE written' = Wrote(written, p)
        <5>1. p.name <= p.name
          BY <1>1
        <5> HIDE DEF p
        <5>2. p \in LogPath /\ p.name \in Nat
          BY <1>1 DEF p
        <5> DEFINE v == Wrote(written, p)
        <5>3. /\ v \in [DOMAIN v -> SUBSET LogPath] /\ DOMAIN v = DOMAIN written \cup {p}
              /\ \A q \in DOMAIN v :
                    /\ q.name <= p.name
                    /\ \A r \in v[q] : r \in DOMAIN v /\ (r.dir = q.dir => q.name < r.name)
          BY <3>5, <3>6, <5>1, <5>2, OrderKept
        <5> QED BY <4>2, <5>3
      <4> QED BY <3>4, <4>1, <4>2
    <3>8. LogShapes'
      <4>1. causes' \subseteq {"stale reload", "no new file"}
        BY <2>3 DEF LogShapes
      <4>2. DOMAIN written' \subseteq LogPath
        BY <1>1, <3>5, <3>7
      <4> QED BY <2>1, <3>2, <3>3, <3>7, <4>1, <4>2 DEF LogShapes
    <3>9. OneHandle'
      BY <2>1, <2>3, <3>2 DEF OneHandle
    <3>10. ActiveFileKept'
      <4>1. DOMAIN written \subseteq DOMAIN written'
        BY <3>7
      <4> QED BY <2>1, <3>2, <3>3, <4>1 DEF ActiveFileKept
    <3>11. NamesAscend'
      BY <2>1, <3>3, <3>7 DEF NamesAscend
    <3> QED BY <3>8, <3>9, <3>10, <3>11
  <2> QED BY <1>6, <2>2, <2>3 DEF ReloadStays
<1> QED BY <1>3, <1>4, <1>5, <1>6

\* A rollover closes the file it leaves.
LEMMA RollsOverKeeps == ASSUME LogInv, RollsOver PROVE LogInv'
<1> USE DEF LogInv
<1> DEFINE p == [dir |-> PathOf(logger.file).dir, name |-> stamp + 1]
<1>1. /\ PathOf(logger.file) \in LogPath /\ PathOf(logger.file).name \in Nat
      /\ stamp \in Nat /\ PathOf(logger.file).name <= stamp
  BY LoggerHasPath DEF LogShapes
<1>2. p \in LogPath /\ p.name = stamp + 1
  BY <1>1 DEF LogPath
<1>3. stamp' = stamp + 1 /\ UNCHANGED <<savers, retention>>
  BY DEF RollsOver
<1>4. CASE /\ handles' = Closing(Opened(p), logger.file)
           /\ Installs(Len(handles) + 1, logger.level) /\ causes' = {}
           /\ written' = Wrote(Removed(written, Expired(p.dir, p)), p)
  <2>1. logger.level \in LogLevel /\ savers' \in [Saver -> SaverStates]
    BY <1>3 DEF LogShapes
  <2> HIDE DEF p
  <2>2. PathOf(logger.file).name <= p.name /\ p.name <= stamp' /\ stamp' \in Nat
    BY <1>1, <1>2, <1>3
  <2> QED BY <1>2, <1>3, <1>4, <2>1, <2>2, FileChanges
<1>5. CASE /\ handles' = Closing(handles, logger.file)
           /\ causes' = causes \cup {"no new file"} /\ UNCHANGED <<logger, installed, written>>
  <2>1. handles \in Seq(LogHandle) /\ logger.file \in DOMAIN handles
    BY DEF LogShapes, Handles
  <2> DEFINE closed == [handles[logger.file] EXCEPT !.open = FALSE]
  <2>2. /\ handles[logger.file] \in LogHandle /\ closed \in LogHandle /\ ~closed.open
        /\ closed.path = handles[logger.file].path
    <3>1. handles[logger.file] \in LogHandle
      BY <2>1, LenProperties, ElementOfSeq
    <3> QED BY <3>1 DEF LogHandle
  <2>3. handles' = [handles EXCEPT ![logger.file] = closed]
    BY <1>5, <2>1 DEF Closing
  <2> HIDE DEF closed
  <2>4. handles' \in Handles /\ DOMAIN handles' = DOMAIN handles
    BY <2>1, <2>2, <2>3, LenProperties, ExceptSeq DEF Handles
  <2>5. /\ ~handles'[logger.file].open
        /\ \A h \in DOMAIN handles : h # logger.file => handles'[h] = handles[h]
        /\ PathOf(logger.file)' = PathOf(logger.file)
    BY <1>5, <2>1, <2>2, <2>3 DEF PathOf
  <2>6. LogShapes'
    <3>1. SaverStates' = SaverStates
      BY <2>4 DEF SaverStates
    <3>2. stamp' \in Nat /\ PathOf(logger.file)'.name <= stamp'
      BY <1>1, <1>3, <2>5
    <3> QED BY <1>3, <1>5, <2>4, <3>1, <3>2 DEF LogShapes
  <2>7. OneHandle' /\ ActiveFileKept'
    BY <1>5, <2>4, <2>5 DEF OneHandle, ActiveFileKept
  <2>8. NamesAscend'
    BY <1>3, <1>5, <2>5 DEF NamesAscend
  <2> QED BY <2>6, <2>7, <2>8
<1> QED BY <1>4, <1>5 DEF RollsOver

\* CleanupOldLogs deletes only what a newer file is known to.
LEMMA RetentionKeeps ==
  ASSUME LogInv, RetentionReads \/ RetentionLists \/ RetentionDeletes
  PROVE  LogInv'
<1> USE DEF LogInv
<1> DEFINE active == PathOf(logger.file)
<1>1. active \in LogPath /\ active.name \in Nat
  BY LoggerHasPath
<1>2. /\ UNCHANGED <<handles, logger, installed, savers, stamp, causes>>
      /\ active' = active /\ SaverStates' = SaverStates
  BY DEF RetentionReads, RetentionLists, RetentionDeletes, PathOf, SaverStates
<1> HIDE DEF active
<1>3. CASE RetentionReads \/ RetentionLists
  <2>1. /\ retention' \in [active : SUBSET LogPath, doomed : SUBSET LogPath]
        /\ \A q \in retention'.doomed : q.name < active.name
    <3>1. CASE RetentionReads
      <4>1. retention' = [NoTask EXCEPT !.active = {active}]
        BY <3>1 DEF RetentionReads, active
      <4> QED BY <1>1, <4>1 DEF NoTask
    <3>2. CASE RetentionLists
      <4>1. PICK p \in retention.active : retention' = [active |-> {}, doomed |-> Expired(p.dir, p)]
        BY <3>2 DEF RetentionLists
      <4>2. \A q \in Expired(p.dir, p) : q \in LogPath /\ q.name < active.name
        BY ExpiredAreOlder DEF active
      <4> QED BY <4>1, <4>2
    <3> QED BY <1>3, <3>1, <3>2
  <2>2. UNCHANGED written
    BY <1>3 DEF RetentionReads, RetentionLists
  <2>3. LogShapes'
    BY <1>2, <2>1, <2>2 DEF LogShapes, active
  <2>4. OneHandle' /\ NamesAscend' /\ ActiveFileKept'
    BY <1>2, <2>1, <2>2 DEF OneHandle, NamesAscend, ActiveFileKept, active
  <2> QED BY <2>3, <2>4
<1>4. CASE RetentionDeletes
  <2>1. PICK p \in retention.doomed :
           /\ retention' = [retention EXCEPT !.doomed = retention.doomed \ {p}]
           /\ written' = Removed(written, {p})
    BY <1>4 DEF RetentionDeletes
  <2> DEFINE w == Removed(written, {p})
  <2>2. /\ written \in [DOMAIN written -> SUBSET LogPath] /\ DOMAIN written \subseteq LogPath
        /\ \A q \in DOMAIN written :
             /\ q.name <= active.name
             /\ \A r \in written[q] : r \in DOMAIN written /\ (r.dir = q.dir => q.name < r.name)
    BY DEF LogShapes, NamesAscend, active
  <2>3. /\ w \in [DOMAIN w -> SUBSET LogPath] /\ DOMAIN w = DOMAIN written \ {p}
        /\ \A q \in DOMAIN w :
             /\ q.name <= active.name
             /\ \A r \in w[q] : r \in DOMAIN w /\ (r.dir = q.dir => q.name < r.name)
    BY <2>2 DEF Removed
  <2> HIDE DEF w
  <2>4. written' = w
    BY <2>1 DEF w
  <2>5. /\ retention' \in [active : SUBSET LogPath, doomed : SUBSET LogPath]
        /\ retention'.doomed \subseteq retention.doomed
    BY <2>1 DEF LogShapes
  <2>6. p # active
    BY <1>1 DEF NamesAscend, active
  <2>7. LogShapes'
    BY <1>2, <2>2, <2>3, <2>4, <2>5 DEF LogShapes, active
  <2>8. OneHandle' /\ ActiveFileKept'
    BY <1>2, <2>3, <2>4, <2>6 DEF OneHandle, ActiveFileKept, active
  <2>9. NamesAscend'
    BY <1>2, <2>3, <2>4, <2>5 DEF NamesAscend, active
  <2> QED BY <2>7, <2>8, <2>9
<1> QED BY <1>3, <1>4

\* A new process has a newer file.
LEMMA RestartKeeps == ASSUME LogInv, LogRestarts PROVE LogInv'
<1> USE DEF LogInv
<1>1. /\ PathOf(logger.file) \in LogPath /\ PathOf(logger.file).name \in Nat
      /\ stamp \in Nat /\ PathOf(logger.file).name <= stamp /\ NoSave \in SaverStates
  BY LoggerHasPath DEF LogShapes
<1>2. PICK p \in {PathOf(logger.file), [dir |-> BootstrapDir, name |-> stamp + 1]} :
        /\ stamp' = IF p.name > stamp THEN stamp + 1 ELSE stamp
        /\ handles' = [h \in DOMAIN Opened(p) |-> [Opened(p)[h] EXCEPT !.open = h > Len(handles)]]
        /\ written' = Wrote(written, p)
  BY DEF LogRestarts
<1>3. p \in LogPath /\ (p = PathOf(logger.file) \/ p.name = stamp + 1)
  BY <1>1, <1>2, LogAssumption DEF LogPath
<1>4. PathOf(logger.file).name <= p.name /\ p.name <= stamp' /\ stamp' \in Nat
  BY <1>1, <1>2, <1>3
<1>5. /\ Installs(Len(handles) + 1, BootstrapLevel) /\ causes' = {} /\ retention' = NoTask
      /\ savers' = [s \in Saver |-> NoSave]
  BY DEF LogRestarts
<1>6. savers' \in [Saver -> SaverStates] /\ BootstrapLevel \in LogLevel
  BY <1>1, <1>5, LogAssumption
<1> QED BY <1>2, <1>3, <1>4, <1>5, <1>6, FileChanges

\* Every step of the log keeps the invariant.
LEMMA LogInvKept == LogInv /\ [LogNext]_logVars => LogInv'
<1> SUFFICES ASSUME LogInv, [LogNext]_logVars PROVE LogInv'
  OBVIOUS
<1>1. CASE LogNext
  BY <1>1, ReloadsKeep, RollsOverKeeps, RetentionKeeps, RestartKeeps DEF LogNext
<1>2. CASE UNCHANGED logVars
  <2>1. SaverStates' = SaverStates /\ PathOf(logger.file)' = PathOf(logger.file)
    BY <1>2 DEF logVars, SaverStates, PathOf
  <2> QED BY <1>2, <2>1
          DEF logVars, LogInv, LogShapes, OneHandle, NamesAscend, ActiveFileKept
<1> QED BY <1>1, <1>2

\* The properties follow from the order of the names.
LEMMA LogInvIsSound == LogInv => LogTypeOK /\ LogFilesSound
  BY DEF LogInv, LogShapes, OneHandle, LogTypeOK, LogFilesSound, OneOpenFile

(* The file the logger has open is never deleted and at most one handle is
   open, for any number of savers, directories, rollovers and retained files
   (LogFilesSound). *)
THEOREM ActiveLogKept == LogSpec => [](LogTypeOK /\ LogFilesSound)
<1>1. LogSpec => []LogInv
  BY LogBegins, LogInvKept, PTL DEF LogSpec
<1> QED BY <1>1, LogInvIsSound, PTL

-----------------------------------------------------------------------------
(* The eight together.                                                     *)

\* In the composition each component starts and moves as it does alone.
LEMMA EachBegins ==
  RequestsInit => /\ HttpCacheInit /\ BodyCodecInit /\ ConfigInit /\ LoginInit
                  /\ LogInit /\ DatabasesInit /\ CatalogueInit /\ DashboardInit
BY DEF RequestsInit

\* A component that is not in focus stands still.
LEMMA EachMoves ==
  ASSUME [RequestsNext]_requestsVars
  PROVE  /\ [HttpCacheNext]_cacheVars /\ [BodyCodecNext]_bodyCodecVars
         /\ [ConfigNext]_configVars /\ [LoginNext]_loginVars /\ [LogNext]_logVars
         /\ [DatabasesNext]_databasesVars /\ [CatalogueNext]_catalogueVars
         /\ [DashboardNext]_dashboardVars
<1>1. CASE RequestsNext
  BY <1>1 DEF RequestsNext
<1>2. CASE UNCHANGED requestsVars
  BY <1>2 DEF requestsVars
<1> QED BY <1>1, <1>2

(* The properties of the components hold in every behaviour of their
   composition: nothing that MCRequests adds, neither the choice of the
   component in focus nor the starts it leaves out, is what they rest on. *)
THEOREM RequestsAreSafe ==
  RequestsSpec => [](/\ RequestsTypeOK
                     /\ CacheSafety /\ BodiesComeBack /\ ConfigSafety /\ LoginLimits
                     /\ LogFilesSound /\ DatabasesSafety /\ CatalogueSafety /\ NeverStuck)
<1>1. RequestsInit => /\ HttpCacheInit /\ BodyCodecInit /\ ConfigInit /\ LoginInit
                      /\ LogInit /\ DatabasesInit /\ CatalogueInit /\ DashboardInit
  BY EachBegins
<1>2. [RequestsNext]_requestsVars =>
         /\ [HttpCacheNext]_cacheVars /\ [BodyCodecNext]_bodyCodecVars
         /\ [ConfigNext]_configVars /\ [LoginNext]_loginVars /\ [LogNext]_logVars
         /\ [DatabasesNext]_databasesVars /\ [CatalogueNext]_catalogueVars
         /\ [DashboardNext]_dashboardVars
  BY EachMoves
<1>3. RequestsSpec => /\ HttpCacheSpec /\ BodyCodecSpec /\ ConfigSpec /\ LoginSpec /\ LogSpec
                      /\ DatabasesSpec /\ CatalogueSpec /\ DashboardSpec
  BY <1>1, <1>2, PTL DEF RequestsSpec, HttpCacheSpec, BodyCodecSpec, ConfigSpec, LoginSpec,
                         LogSpec, DatabasesSpec, CatalogueSpec, DashboardSpec
<1>4. RequestsTypeOK <=> /\ HttpCacheTypeOK /\ BodyCodecTypeOK /\ ConfigTypeOK /\ LoginTypeOK
                         /\ LogTypeOK /\ DatabasesTypeOK /\ CatalogueTypeOK /\ DashboardTypeOK
  BY DEF RequestsTypeOK
<1> QED BY <1>3, <1>4, CacheIsSafe, BodiesAlwaysComeBack, ConfigIsSafe, LoginsAreLimited,
           ActiveLogKept, DatabasesAreSafe, CatalogueIsSafe, DashboardNeverStuck, PTL
=============================================================================
