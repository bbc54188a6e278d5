------------------------------ MODULE LogFiles ------------------------------
(***************************************************************************)
(* The log file (internal/log): the bootstrap logger, its reload from the  *)
(* configuration, the rollover and the retention tasks, and the file that  *)
(* an exec restart continues.                                              *)
(*                                                                         *)
(* A path is a directory and a time stamp; a handle is an os.File on one.  *)
(* slog's default logger is the handle and level it was last built with.   *)
(* ReloadFromConfig reads the logger under the read lock and acts under    *)
(* the write lock, taken again; RetentionTask acts on a listing with no    *)
(* lock at all.                                                            *)
(***************************************************************************)
EXTENDS Naturals, Sequences, FiniteSets

CONSTANTS
  Saver,                       \* requests and Run, which reload the logger
  LogDir, BootstrapDir, LogLevel, BootstrapLevel,
  RetentionCount,              \* log_retention_count: validated, at least 1
  MaxStamps, MaxHandles, MaxLogFaults          \* bounds of the model

ASSUME LogAssumption ==
  BootstrapDir \in LogDir /\ BootstrapLevel \in LogLevel /\ RetentionCount \in Nat \ {0}

VARIABLES
  handles,      \* the os.Files made: path, and whether still open
  logger,       \* Logger: its file (a handle) and level
  installed,    \* what slog.SetDefault was last given
  written,      \* the log files on disk: those last written to after each
  savers,       \* each reload: where it is, what it read, what it wants
  tasks,        \* the rollover and retention tasks are scheduled
  retention,    \* a RetentionTask under way: the path it read, what it deletes
  stamp,        \* time.Now() in the names
  logFaults,
  causes        \* why the default logger may write to a closed file
logVars == <<handles, logger, installed, written, savers, tasks, retention,
             stamp, logFaults, causes>>

NoSave == [pc |-> "idle", file |-> 1, old |-> BootstrapLevel,
           level |-> BootstrapLevel, dir |-> BootstrapDir]
PathOf(h) == handles[h].path
NoTask == [active |-> {}, doomed |-> {}]
Wrote(w, p) == [q \in DOMAIN w \cup {p} |-> IF q = p THEN {} ELSE w[q] \cup {p}]
Removed(w, paths) == [q \in DOMAIN w \ paths |-> w[q] \ paths]
Opened(p) == Append(handles, [path |-> p, open |-> TRUE])
Closing(hs, h) == [hs EXCEPT ![h].open = FALSE]
Installs(h, level) ==
  installed' = [file |-> h, level |-> level] /\ logger' = [file |-> h, level |-> level]
Faults == logFaults < MaxLogFaults /\ logFaults' = logFaults + 1
----------------------------------------------------------------------------
LogInit ==
  LET p == [dir |-> BootstrapDir, name |-> 1] IN
  /\ handles = <<[path |-> p, open |-> TRUE]>>
  /\ logger = [file |-> 1, level |-> BootstrapLevel] /\ installed = logger
  /\ written = [q \in {p} |-> {}] /\ savers = [s \in Saver |-> NoSave]
  /\ tasks = FALSE /\ retention = NoTask /\ stamp = 1 /\ logFaults = 0 /\ causes = {}

(* ReloadFromConfig, first half: what it wants, and what it reads. *)
ReloadReads(s) ==
  /\ savers[s].pc = "idle"
  /\ \E d \in LogDir, l \in LogLevel :
        savers' = [savers EXCEPT ![s] =
          [pc |-> "read", file |-> logger.file, old |-> logger.level,
           level |-> l, dir |-> d]]
  /\ UNCHANGED <<handles, logger, installed, written, tasks, retention, stamp, logFaults, causes>>

(* Second half, the directory that was read: with a level other than the one
   that was read, the handle that was read is installed; the logger keeps the
   one it has. *)
ReloadStays(s) ==
  LET r == savers[s] IN
  /\ r.pc = "read" /\ PathOf(r.file).dir = r.dir
  /\ \/ /\ r.level # r.old
        /\ logger' = [logger EXCEPT !.level = r.level]
        /\ installed' = [file |-> r.file, level |-> r.level]
        /\ written' = IF handles[r.file].open THEN Wrote(written, PathOf(r.file)) ELSE written
        /\ causes' = IF r.file = logger.file THEN causes \ {"stale reload"}
                     ELSE causes \cup {"stale reload"}
     \/ r.level = r.old /\ UNCHANGED <<logger, installed, written, causes>>
  /\ tasks' = TRUE /\ savers' = [savers EXCEPT ![s] = NoSave]
  /\ UNCHANGED <<handles, retention, stamp, logFaults>>

(* Another directory: a file of the same name there, then the old one closed. *)
ReloadMoves(s) ==
  LET r == savers[s]
      p == [dir |-> r.dir, name |-> PathOf(logger.file).name] IN
  /\ r.pc = "read" /\ PathOf(r.file).dir # r.dir /\ Len(handles) < MaxHandles
  /\ handles' = Closing(Opened(p), logger.file)
  /\ Installs(Len(handles) + 1, r.level) /\ written' = Wrote(written, p)
  /\ tasks' = TRUE /\ causes' = {} /\ savers' = [savers EXCEPT ![s] = NoSave]
  /\ UNCHANGED <<retention, stamp, logFaults>>
ReloadFails(s) ==            \* the directory or the file cannot be made
  /\ savers[s].pc = "read" /\ PathOf(savers[s].file).dir # savers[s].dir
  /\ Faults /\ savers' = [savers EXCEPT ![s] = NoSave]
  /\ UNCHANGED <<handles, logger, installed, written, tasks, retention, stamp, causes>>

\* Faulty variant: the newest files go, the oldest stay.
ExpiredOldestKept(dir, active) ==
  LET others == {q \in DOMAIN written : q.dir = dir /\ q # active}
  IN  {q \in others : Cardinality({r \in others : q \in written[r]}) >= RetentionCount}
(* CleanupOldLogs: of the log files in dir but the active one, newest first,
   those beyond the count. *)
Expired(dir, active) ==
  LET others == {q \in DOMAIN written : q.dir = dir /\ q # active}
  IN  {q \in others : Cardinality(others \cap written[q]) >= RetentionCount}

(* RolloverTask.Run, all under the lock: close, open, install, clean up.  A
   file that cannot be opened leaves the closed one installed. *)
RollsOver ==
  LET p == [dir |-> PathOf(logger.file).dir, name |-> stamp + 1] IN
  /\ tasks /\ stamp < MaxStamps /\ stamp' = stamp + 1
  /\ \/ /\ Len(handles) < MaxHandles
        /\ handles' = Closing(Opened(p), logger.file)
        /\ Installs(Len(handles) + 1, logger.level) /\ causes' = {}
        /\ written' = Wrote(Removed(written, Expired(p.dir, p)), p)
        /\ UNCHANGED logFaults
     \/ /\ Faults /\ handles' = Closing(handles, logger.file)
        /\ causes' = causes \cup {"no new file"} /\ UNCHANGED <<logger, installed, written>>
  /\ UNCHANGED <<savers, tasks, retention>>

(* RetentionTask.Run: it reads the directory and the active path, then, with
   no lock, lists the directory and deletes file by file. *)
RetentionReads ==
  /\ tasks /\ retention = NoTask
  /\ retention' = [NoTask EXCEPT !.active = {PathOf(logger.file)}]
  /\ UNCHANGED <<handles, logger, installed, written, savers, tasks, stamp, logFaults, causes>>
RetentionLists ==
  /\ \E p \in retention.active : retention' = [active |-> {}, doomed |-> Expired(p.dir, p)]
  /\ UNCHANGED <<handles, logger, installed, written, savers, tasks, stamp, logFaults, causes>>
RetentionDeletes ==
  /\ \E p \in retention.doomed :
        /\ retention' = [retention EXCEPT !.doomed = @ \ {p}]
        /\ written' = Removed(written, {p})
  /\ UNCHANGED <<handles, logger, installed, savers, tasks, stamp, logFaults, causes>>

(* Shutdown closes the file; the next process continues it when it is an exec
   restart (SEPG_LOG_FILE), and otherwise begins one in the bootstrap
   directory. *)
LogRestarts ==
  /\ Faults /\ Len(handles) < MaxHandles
  /\ \E p \in {PathOf(logger.file), [dir |-> BootstrapDir, name |-> stamp + 1]} :
        /\ stamp' = IF p.name > stamp THEN stamp + 1 ELSE stamp
        /\ p.name <= MaxStamps
        /\ handles' = [h \in DOMAIN Opened(p) |->
                         [Opened(p)[h] EXCEPT !.open = h > Len(handles)]]
        /\ written' = Wrote(written, p)
  /\ Installs(Len(handles) + 1, BootstrapLevel)
  /\ savers' = [s \in Saver |-> NoSave] /\ tasks' = FALSE /\ retention' = NoTask /\ causes' = {}

LogNext ==
  \/ \E s \in Saver : ReloadReads(s) \/ ReloadStays(s) \/ ReloadMoves(s) \/ ReloadFails(s)
  \/ RollsOver \/ RetentionReads \/ RetentionLists \/ RetentionDeletes \/ LogRestarts
LogSpec == LogInit /\ [][LogNext]_logVars
----------------------------------------------------------------------------
LogTypeOK ==
  /\ logger.file \in DOMAIN handles /\ installed.file \in DOMAIN handles
  /\ causes \subseteq {"stale reload", "no new file"}

(* However reloads, rollovers and the two clean-ups interleave, the file the
   logger has open is never deleted: RetentionTask works from an active path
   and a listing that may both be out of date, and only the order of the
   times of writing keeps it away from the new file (CleanupOldLogs). *)
ActiveFileKept == handles[logger.file].open => PathOf(logger.file) \in DOMAIN written

(* At most one handle is open, and the default logger writes to it unless a
   new file could not be opened or a reload installed the handle it had read
   before a rollover (ReloadFromConfig, RolloverTask.Run). *)
OneOpenFile ==
  /\ \A h \in DOMAIN handles : handles[h].open => h = logger.file
  /\ causes = {} => installed.file = logger.file /\ handles[installed.file].open
LogFilesSound == ActiveFileKept /\ OneOpenFile

(* The default logger always writes to an open file: broken by both causes. *)
LogIsWritten == handles[installed.file].open
=============================================================================
