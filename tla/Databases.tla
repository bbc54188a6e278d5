----------------------------- MODULE Databases -----------------------------
(***************************************************************************)
(* Opening the databases (server/database/app.go, infrastructure_pool.go)  *)
(* and the connections of a pool (newCpConn, CpConn.Close, gallerydb's     *)
(* Prepare and Close).                                                     *)
(*                                                                         *)
(* A CpConn is a sql.Conn; closing it gives its driver connection back to  *)
(* sql.DB, which keeps IdleLimit of them for the next sql.Conn: with them  *)
(* live on the database they attached, the pragmas they set and every      *)
(* statement nobody closed.  DbConnPool counts connections; this module    *)
(* looks into them.                                                        *)
(***************************************************************************)
EXTENDS Naturals, FiniteSets

CONSTANTS
  Opener,          \* goroutines that make or hold a connection
  Driver,          \* driver connections
  NoDriver,
  IdleLimit,       \* database/sql keeps this many idle (2 by default)
  Statements, CustomStatements,            \* of Queries, and of CustomQueries
  MaxSetupFaults, MaxSetupCrashes          \* bounds of the model

ASSUME DatabasesAssumption ==
  /\ IdleLimit \in Nat /\ {Statements, CustomStatements} \subseteq Nat \ {0}
  /\ NoDriver \notin Driver

VARIABLES
  setup,           \* Setup and ReconfigurePools: where they are, and the two pools
  schema,          \* each database file's migrations; the root folder's row
  readOnly,        \* which pool the connections below are of
  drivers,         \* driver connections: who has them, and what is set on them
  opening,         \* newCpConn of each goroutine, and the CpConn it returned
  setupFaults, setupCrashes
databasesVars == <<setup, schema, readOnly, drivers, opening, setupFaults, setupCrashes>>

Unopened == [state |-> "new", attached |-> FALSE, tuned |-> FALSE, open |-> 0, leaked |-> 0]
NoConn == [pc |-> "none", d |-> NoDriver, n |-> 0]
NoPools == [pc |-> "directories", rw |-> "none", ro |-> "none", applied |-> FALSE]
SetupFaulty == setupFaults < MaxSetupFaults /\ setupFaults' = setupFaults + 1
SetupGoes(s) == setup' = s /\ UNCHANGED <<readOnly, drivers, opening, setupCrashes>>
BothClosed == [setup EXCEPT !.rw = "closed", !.ro = "closed", !.pc = "failed"]
----------------------------------------------------------------------------
DatabasesInit ==
  /\ setup = NoPools /\ schema = [main |-> "old", thumbs |-> "old", root |-> FALSE]
  /\ readOnly \in BOOLEAN
  /\ drivers = [d \in Driver |-> Unopened] /\ opening = [o \in Opener |-> NoConn]
  /\ setupFaults = 0 /\ setupCrashes = 0

MakesDirectories ==
  /\ setup.pc = "directories"
  /\ \/ SetupGoes([setup EXCEPT !.pc = "main"]) /\ UNCHANGED setupFaults
     \/ SetupFaulty /\ SetupGoes([setup EXCEPT !.pc = "failed"])
  /\ UNCHANGED schema

(* migrateDB and migrateBlobsDB: a file that an interrupted migration left
   dirty is refused. *)
Migrates(db, next) ==
  /\ setup.pc = db
  /\ \/ /\ schema[db] # "dirty" /\ schema' = [schema EXCEPT ![db] = "current"]
        /\ SetupGoes([setup EXCEPT !.pc = next, !.applied = @ \/ schema[db] = "old"])
        /\ UNCHANGED setupFaults
     \/ /\ schema[db] = "dirty" /\ SetupGoes([setup EXCEPT !.pc = "failed"])
        /\ UNCHANGED <<schema, setupFaults>>
     \/ /\ schema[db] = "old" /\ SetupFaulty /\ SetupGoes([setup EXCEPT !.pc = "failed"])
        /\ schema' \in {schema, [schema EXCEPT ![db] = "dirty"]}

(* createDatabasePools, for Setup and for RecreatePoolsWithConfig. *)
OpensRw(pc, next) ==
  /\ setup.pc = pc
  /\ \/ SetupGoes([setup EXCEPT !.pc = next, !.rw = "open"]) /\ UNCHANGED setupFaults
     \/ SetupFaulty /\ SetupGoes([setup EXCEPT !.pc = "failed"])
  /\ UNCHANGED schema
\* Faulty variant: the read-write pool is left open.
OpensRoLeavingRw(pc, next) ==
  /\ setup.pc = pc
  /\ \/ SetupGoes([setup EXCEPT !.pc = next, !.ro = "open"]) /\ UNCHANGED setupFaults
     \/ SetupFaulty /\ SetupGoes([setup EXCEPT !.pc = "failed"])
  /\ UNCHANGED schema
OpensRo(pc, next) ==
  /\ setup.pc = pc
  /\ \/ SetupGoes([setup EXCEPT !.pc = next, !.ro = "open"]) /\ UNCHANGED setupFaults
     \/ SetupFaulty /\ SetupGoes([setup EXCEPT !.rw = "closed", !.pc = "failed"])
  /\ UNCHANGED schema

(* After a migration PRAGMA optimize, whose own failure is only logged. *)
Optimizes ==
  /\ setup.pc = "optimize" /\ UNCHANGED schema
  /\ \/ SetupGoes([setup EXCEPT !.pc = "root"]) /\ UNCHANGED setupFaults
     \/ setup.applied /\ SetupFaulty /\ SetupGoes(BothClosed)
ChecksRoot ==                               \* ensureRootFolderExists
  /\ setup.pc = "root"
  /\ \/ SetupGoes([setup EXCEPT !.pc = "compare"]) /\ schema' = [schema EXCEPT !.root = TRUE]
        /\ UNCHANGED setupFaults
     \/ SetupFaulty /\ SetupGoes(BothClosed) /\ UNCHANGED schema

(* ReconfigurePools, once the configuration is loaded: other limits close
   both pools before new ones are made. *)
Reconfigures ==
  /\ setup.pc = "compare" /\ UNCHANGED <<schema, setupFaults>>
  /\ \/ SetupGoes([setup EXCEPT !.pc = "up"])
     \/ SetupGoes([setup EXCEPT !.pc = "rw again", !.rw = "closed", !.ro = "closed"])

migrateDB == Migrates("main", "thumbs")
migrateBlobsDB == Migrates("thumbs", "rw")
createDatabasePools(rw, ro, next) == OpensRw(rw, ro) \/ OpensRo(ro, next)
RecreatePoolsWithConfig == createDatabasePools("rw again", "ro again", "up")
Setup ==
  \/ MakesDirectories \/ migrateDB \/ migrateBlobsDB
  \/ createDatabasePools("rw", "ro", "optimize") \/ Optimizes \/ ChecksRoot
ReconfigurePools == Reconfigures \/ RecreatePoolsWithConfig

(* The process dies, a migration half done, and is started again. *)
SetupCrashes ==
  /\ setupCrashes < MaxSetupCrashes /\ setupCrashes' = setupCrashes + 1
  /\ schema' \in {schema} \cup
       {[schema EXCEPT ![db] = "dirty"] : db \in {b \in {"main", "thumbs"} :
                                                    setup.pc = b /\ schema[b] = "old"}}
  /\ setup' = NoPools
  /\ drivers' = [d \in Driver |-> Unopened] /\ opening' = [o \in Opener |-> NoConn]
  /\ UNCHANGED <<readOnly, setupFaults>>
----------------------------------------------------------------------------
Making(o) == opening[o].pc \notin {"none", "ready"}
ConnGoes(o, pc) == opening' = [opening EXCEPT ![o].pc = pc]
DriverOf(o) == drivers[opening[o].d]

(* newCpConn: sql.DB gives a driver connection it has kept, or a new one.
   creationMu lets one goroutine at a time make a read-write connection. *)
TakesDriver(o) ==
  /\ setup.pc = "up" /\ opening[o].pc = "none"
  /\ readOnly \/ \A q \in Opener : ~Making(q)
  /\ \E d \in Driver :
        /\ \/ drivers[d].state = "free"
           \/ drivers[d].state = "new" /\ \A e \in Driver : drivers[e].state # "free"
        /\ drivers' = [drivers EXCEPT ![d].state = "taken"]
        /\ opening' = [opening EXCEPT ![o] = [pc |-> "pings", d |-> d, n |-> 0]]
  /\ UNCHANGED <<setup, schema, readOnly, setupFaults, setupCrashes>>

(* sql.Conn.Close: kept while there is room among the idle. *)
GivesBack(o, statements) ==
  LET d == opening[o].d IN
  /\ opening' = [opening EXCEPT ![o] = NoConn]
  /\ drivers' = [drivers EXCEPT ![d] =
        IF Cardinality({e \in Driver : drivers[e].state = "free"}) < IdleLimit
        THEN [@ EXCEPT !.state = "free", !.open = statements, !.leaked = statements]
        ELSE Unopened]

Pings(o) ==
  /\ opening[o].pc = "pings" /\ ConnGoes(o, "checks")
  /\ UNCHANGED <<setup, schema, readOnly, drivers, setupFaults, setupCrashes>>
\* Faulty variant: the attachment is not looked for.
ChecksNothing(o) ==
  /\ opening[o].pc = "checks" /\ ConnGoes(o, "attaches")
  /\ UNCHANGED <<setup, schema, readOnly, drivers, setupFaults, setupCrashes>>
ChecksAttached(o) ==                        \* isThumbsDBAttached
  /\ opening[o].pc = "checks"
  /\ ConnGoes(o, IF DriverOf(o).attached THEN "prepares" ELSE "attaches")
  /\ UNCHANGED <<setup, schema, readOnly, drivers, setupFaults, setupCrashes>>
Attaches(o) ==
  /\ opening[o].pc = "attaches" /\ ConnGoes(o, IF readOnly THEN "prepares" ELSE "tunes")
  /\ drivers' = [drivers EXCEPT ![opening[o].d].attached = TRUE]
  /\ UNCHANGED <<setup, schema, readOnly, setupFaults, setupCrashes>>
TunesThumbs(o) ==                           \* PRAGMA thumbs.journal_mode and the like
  /\ opening[o].pc = "tunes" /\ ConnGoes(o, "prepares")
  /\ drivers' = [drivers EXCEPT ![opening[o].d].tuned = TRUE]
  /\ UNCHANGED <<setup, schema, readOnly, setupFaults, setupCrashes>>
AllStatements == Statements + CustomStatements
Prepares(o) ==
  /\ opening[o].pc = "prepares"
  /\ drivers' = [drivers EXCEPT ![opening[o].d].open = @ + 1]
  /\ opening' = [opening EXCEPT ![o].n = @ + 1,
                    ![o].pc = IF opening[o].n + 1 = AllStatements THEN "ready" ELSE @]
  /\ UNCHANGED <<setup, schema, readOnly, setupFaults, setupCrashes>>
Prepare(o) == opening[o].n < Statements /\ Prepares(o)
PrepareCustomQueries(o) == opening[o].n >= Statements /\ Prepares(o)

(* A step fails: the sql.Conn is closed, the statements prepared so far are
   not. *)
MakingFails(o) ==
  /\ Making(o) /\ SetupFaulty /\ GivesBack(o, DriverOf(o).open)
  /\ UNCHANGED <<setup, schema, readOnly, setupCrashes>>

(* CpConn.Close (recycled, shrunk, failing its ping, pool closing): the
   statements of CustomQueries, those of Queries, then the sql.Conn. *)
QueriesClosed(statements) == statements - Statements
CustomQueriesClosed(statements) == statements - CustomStatements
CpConnCloses(o) ==
  /\ opening[o].pc = "ready"
  /\ GivesBack(o, QueriesClosed(CustomQueriesClosed(DriverOf(o).open)))
  /\ UNCHANGED <<setup, schema, readOnly, setupFaults, setupCrashes>>

DatabasesNext ==
  \/ Setup \/ ReconfigurePools \/ SetupCrashes
  \/ \E o \in Opener : \/ TakesDriver(o) \/ Pings(o) \/ ChecksAttached(o) \/ Attaches(o)
                       \/ TunesThumbs(o) \/ Prepare(o) \/ PrepareCustomQueries(o)
                       \/ MakingFails(o) \/ CpConnCloses(o)
DatabasesSpec == DatabasesInit /\ [][DatabasesNext]_databasesVars
----------------------------------------------------------------------------
DatabasesTypeOK ==
  /\ \A o \in Opener : opening[o].n \in 0..AllStatements
  /\ \A d \in Driver : drivers[d].state \in {"new", "free", "taken"}

(* Whatever a driver connection went through before it was taken again, no
   second ATTACH is tried on it, and a connection that is handed out has the
   thumbs database, every statement, and its driver connection to itself
   (newCpConn, isThumbsDBAttached, CpConn.Close). *)
ConnectionsAreWhole ==
  /\ \A o \in Opener : opening[o].pc = "attaches" => ~DriverOf(o).attached
  /\ \A o \in Opener : opening[o].pc = "ready" =>
       /\ DriverOf(o).attached /\ opening[o].n = AllStatements
       /\ DriverOf(o).open = DriverOf(o).leaked + AllStatements
  /\ \A o, q \in Opener : opening[o].d = opening[q].d => o = q \/ opening[o].d = NoDriver

(* A start that fails leaves no pool open, one that succeeds has both over
   migrated files with a root folder, however many attempts came before
   (Setup, createDatabasePools, RecreatePoolsWithConfig). *)
PoolsTogether ==
  /\ setup.pc = "failed" => "open" \notin {setup.rw, setup.ro}
  /\ setup.pc = "up" => /\ {setup.rw, setup.ro} = {"open"} /\ schema.root
                        /\ {schema.main, schema.thumbs} = {"current"}
DatabasesSafety == ConnectionsAreWhole /\ PoolsTogether

(* Every read-write connection has the pragmas of the thumbs database: broken
   when they fail once after the ATTACH and the driver connection is kept. *)
WritersAreTuned ==
  \A o \in Opener : ~readOnly /\ opening[o].pc = "ready" => DriverOf(o).tuned

(* No statement stays open on a connection nobody has: broken by a Prepare
   that fails half way. *)
NothingLeaks == \A d \in Driver : drivers[d].leaked = 0
=============================================================================
