--------------------------- MODULE DatabaseLifecycle ---------------------------
(***************************************************************************)
(* The life of one database file: database.init, database.upgrade.apply,   *)
(* database.backup.create and database.backup.restore, run as processes    *)
(* next to business sessions, over releases that each add one official     *)
(* migration.                                                              *)
(*                                                                         *)
(* What the program knows of a database is spread over three tables that   *)
(* different steps write: schema_migrations (the legacy history, last      *)
(* schema version 8), __drizzle_migrations (the official journal) and the  *)
(* single row of database_control.  The state detector accepts a database  *)
(* only when the three agree; an upgrade makes them disagree and agree     *)
(* again in several transactions, and a process may stop between any two.  *)
(*                                                                         *)
(* A restore renames a new file over the path.  A connection stays with    *)
(* the file it opened: "files" are the inodes the path ever named, "path"  *)
(* is the one it names now.                                                *)
(*                                                                         *)
(* Grain: a lease callback and the SQLite transaction of the migrator are  *)
(* one action each, since BEGIN IMMEDIATE keeps other writers out until    *)
(* COMMIT.  A business session is two actions, because a restore does not  *)
(* ask for the lock and can fall between them.  Sidecar files (-wal, -shm) *)
(* are not modelled.                                                       *)
(***************************************************************************)
EXTENDS Integers, Sequences, FiniteSets

CONSTANTS
  Initializers, Upgraders, Restorers,  \* processes, one command each
  Sessions,      \* business write sessions, one write each
  LegacyTop,     \* legacy schema versions modelled, the last one is v8
  FirstRelease, MaxRelease,            \* bound: releases installed
  Checkpoints,   \* journal lengths every release accepts in a backup
  MaxCommands,   \* bound: commands started
  MaxArchives,   \* bound: backup files there may be when backup.create runs
  MaxFaults      \* bound: crashes and failing steps

Commands == Initializers \cup Upgraders \cup Restorers

ASSUME ReleaseAssumption ==
  /\ LegacyTop \in Nat \ {0}
  /\ FirstRelease \in Nat \ {0} /\ MaxRelease \in Nat /\ FirstRelease <= MaxRelease
  /\ Checkpoints \subseteq Nat
ASSUME BoundAssumption == MaxCommands \in Nat /\ MaxArchives \in Nat /\ MaxFaults \in Nat
ASSUME CommandAssumption ==
  /\ Initializers \cap Upgraders = {}
  /\ Initializers \cap Restorers = {}
  /\ Upgraders \cap Restorers = {}

VARIABLES
  release,   \* number of official migrations in the installed program
  files,     \* the inodes the path has named, each with its content
  path,      \* the inode the path names
  backups,   \* verified backup files that were retained
  writer,    \* per session: the inode its open transaction has locked, or 0
  cmd,       \* per command: where it is and what it remembers
  started,   \* commands started so far
  faults     \* crashes and failures so far

vars == <<release, files, path, backups, writer, cmd, started, faults>>

-----------------------------------------------------------------------------
(* Contents, and what the detectors make of them                           *)

NoTable == -1

\* legacy: rows of schema_migrations; journal: rows of __drizzle_migrations;
\* control: the migration named by last_migration_id (a legacy version up to
\* LegacyTop, then the official ones), 0 without a row.
Content(l, j, c) == [legacy |-> l, journal |-> j, control |-> c,
                     state |-> IF c = 0 THEN "NONE" ELSE "READY", data |-> {}]
EmptyFile == Content(0, NoTable, 0)
LegacyFile(v) == Content(v, NoTable, v)

Official(n) == LegacyTop + n     \* the control code of official migration n

\* detectDatabaseState by a program that has r official migrations.
DbState(c, r) ==
  CASE c.legacy = 0 /\ c.journal = NoTable -> "EMPTY"
    [] c.legacy > 0 /\ c.journal = NoTable /\ c.control = c.legacy /\ c.state = "READY"
         -> "LEGACY"
    [] c.legacy = LegacyTop /\ c.journal = r /\ c.control = Official(r) /\ c.state = "READY"
         -> "BRIDGED"
    [] c.legacy = 0 /\ c.journal \in 1..r /\ c.control = Official(c.journal) /\ c.state = "READY"
         -> "MANAGED"
    [] OTHER -> "UNKNOWN"

DrizzleStates == {"MANAGED", "BRIDGED"}

\* inspectDatabaseCompatibility
Compatibility(c, r) ==
  IF c.state = "RECOVERY_REQUIRED" THEN "DIRTY_IN_PROGRESS"
  ELSE CASE DbState(c, r) = "EMPTY" -> "UNINITIALIZED"
         [] DbState(c, r) \in DrizzleStates /\ c.journal = r -> "CURRENT"
         [] DbState(c, r) \in DrizzleStates /\ c.journal # r -> "UPGRADE_REQUIRED"
         [] DbState(c, r) = "LEGACY" -> "UPGRADE_REQUIRED"
         [] OTHER -> "UNKNOWN_TAMPERED"

\* manifestForCompatibility
ManifestFor(c, r) == IF DbState(c, r) = "LEGACY" THEN c.legacy ELSE LegacyTop

BackupCheckpoint(n, r) == n \in Checkpoints \cup {r - 1, r}

\* captureExpectation of a program with r migrations, against schema version v.
Backable(c, r, v) ==
  \/ /\ DbState(c, r) \in DrizzleStates
     /\ v = LegacyTop
     /\ BackupCheckpoint(c.journal, r)
  \/ DbState(c, r) = "LEGACY" /\ v = c.legacy

\* Mutant: the gate reads the versions and not the state.
GateOpenAnyState(c, r) ==
  \/ c.journal = r /\ c.control = Official(r) /\ c.legacy \in {0, LegacyTop}
  \/ c.journal = NoTable /\ c.legacy = LegacyTop /\ c.control = LegacyTop

\* validateDatabaseControl of the session runner.
GateOpen(c, r) ==
  /\ c.state = "READY"
  /\ \/ c.journal = r /\ c.control = Official(r) /\ c.legacy \in {0, LegacyTop}
     \/ c.journal = NoTable /\ c.legacy = LegacyTop /\ c.control = LegacyTop

-----------------------------------------------------------------------------
(* Processes                                                               *)

NoBackup == [legacy |-> -1]
Idle == [step |-> "idle", release |-> 0, file |-> 0, at |-> 0, seen |-> 0,
         source |-> "none", backup |-> NoBackup]

Ended == {"done", "failed", "restored", "recovery", "crashed"}
Running(p) == cmd[p].step \notin Ended \cup {"idle"}
Quiet == \A p \in Commands : ~Running(p)

LockFree(f) == \A s \in Sessions : writer[s] # f
At(p, step) == cmd[p].step = step
Mine(p) == files[cmd[p].file]          \* through the connection it opened
Here == files[path]                    \* through the path
Known(p) == DbState(Here, cmd[p].release)

\* An ended process remembers nothing.
Goto(p, step) ==
  cmd' = [cmd EXCEPT ![p] = IF step \in Ended THEN [Idle EXCEPT !.step = step]
                            ELSE [@ EXCEPT !.step = step, !.seen = 0]]
CanStart(p) == At(p, "idle") /\ started < MaxCommands /\ started' = started + 1
Start(p, step, source, at) ==
  cmd' = [cmd EXCEPT ![p] = IF step \in Ended THEN [Idle EXCEPT !.step = step]
                            ELSE [@ EXCEPT !.step = step, !.release = release,
                                    !.file = path, !.at = at, !.source = source]]
SetFile(f, c) == files' = [files EXCEPT ![f] = c]

\* The catch block of upgradeSqliteDatabase: with a backup in hand, restore it.
AfterFailure(p) ==
  IF cmd[p].step \in {"restore", "check"} THEN "mark"
  ELSE IF cmd[p].step = "mark" THEN "recovery"
  ELSE IF p \in Upgraders /\ cmd[p].backup # NoBackup THEN "restore"
  ELSE "failed"
Fails(p) == Goto(p, AfterFailure(p)) /\ UNCHANGED files

\* What a step on the command's own file leaves alone.
rest == <<release, path, backups, writer, started, faults>>

-----------------------------------------------------------------------------
(* database.upgrade.apply                                                  *)

StartUpgrade(p) ==
  /\ p \in Upgraders /\ CanStart(p)
  /\ LET st == DbState(Here, release) IN
       \/ /\ st \in DrizzleStates
          /\ Start(p, IF Here.journal < release THEN "backup" ELSE "migrate", st, LegacyTop)
       \/ st = "LEGACY" /\ Start(p, "backup", st, Here.legacy)
       \/ st \in {"EMPTY", "UNKNOWN"} /\ Start(p, "failed", st, 0)
  /\ UNCHANGED <<files, release, path, backups, writer, faults>>

\* The lease is on the file the command opened, the backup reads the path.
TakeBackup(p) ==
  /\ At(p, "backup") /\ LockFree(cmd[p].file)
  /\ IF Backable(Here, cmd[p].release, cmd[p].at)
     THEN /\ backups' = backups \cup {Here}
          /\ cmd' = [cmd EXCEPT ![p].backup = Here,
                                ![p].step = IF cmd[p].source = "LEGACY" THEN "hop" ELSE "migrate"]
     ELSE Goto(p, "failed") /\ UNCHANGED backups
  /\ UNCHANGED <<release, files, path, writer, faults, started>>

\* One UpgradeCoordinator.upgrade: exact target, exact source, or refusal.
Hop(p) ==
  /\ At(p, "hop") /\ LockFree(cmd[p].file)
  /\ LET c == Mine(p)  v == cmd[p].at
         Exact(n) == c.state = "READY" /\ c.legacy = n /\ c.control = n IN
       IF v = LegacyTop THEN Goto(p, "seed") /\ UNCHANGED files
       ELSE /\ \/ Exact(v + 1) /\ UNCHANGED files
               \/ /\ Exact(v)
                  /\ SetFile(cmd[p].file, [c EXCEPT !.legacy = v + 1, !.control = v + 1])
               \/ ~Exact(v) /\ ~Exact(v + 1) /\ UNCHANGED files
            /\ IF Exact(v) \/ Exact(v + 1) THEN cmd' = [cmd EXCEPT ![p].at = v + 1]
               ELSE Goto(p, AfterFailure(p))
  /\ UNCHANGED rest

\* seedOfficialDrizzleBaseline
Seed(p) ==
  /\ At(p, "seed") /\ LockFree(cmd[p].file)
  /\ LET c == Mine(p) IN
       IF c.journal > cmd[p].release THEN Fails(p)
       ELSE /\ SetFile(cmd[p].file, [c EXCEPT !.journal = IF @ < 1 THEN 1 ELSE @])
            /\ Goto(p, "migrate")
  /\ UNCHANGED rest

\* The migrator creates the journal table, reads its last row, and only then
\* opens the transaction that applies what is newer than that row.
ReadJournal(p) ==
  /\ At(p, "migrate")
  /\ \/ /\ Mine(p).journal # NoTable
        /\ cmd' = [cmd EXCEPT ![p].seen = Mine(p).journal, ![p].step = "apply"]
        /\ UNCHANGED files
     \/ /\ Mine(p).journal = NoTable /\ LockFree(cmd[p].file)
        /\ SetFile(cmd[p].file, [Mine(p) EXCEPT !.journal = 0])
        /\ cmd' = [cmd EXCEPT ![p].seen = 0, ![p].step = "apply"]
     \/ Mine(p).journal = NoTable /\ ~LockFree(cmd[p].file) /\ Fails(p)
  /\ UNCHANGED rest

\* Mutant: the migrator does not need the write lock.
ApplyUnlocked(p) ==
  /\ At(p, "apply")
  /\ LET c == Mine(p)  r == cmd[p].release
         next == IF p \in Initializers THEN "control" ELSE "sync" IN
       IF cmd[p].seen >= r THEN Goto(p, next) /\ UNCHANGED files
       ELSE IF c.journal = cmd[p].seen
            THEN SetFile(cmd[p].file, [c EXCEPT !.journal = r]) /\ Goto(p, next)
            ELSE Fails(p)
  /\ UNCHANGED rest

\* busy_timeout is 0, and DDL that another migrator already ran fails.
ApplyPending(p) ==
  /\ At(p, "apply")
  /\ LET c == Mine(p)  r == cmd[p].release
         next == IF p \in Initializers THEN "control" ELSE "sync" IN
       IF cmd[p].seen >= r THEN Goto(p, next) /\ UNCHANGED files
       ELSE IF LockFree(cmd[p].file) /\ c.journal = cmd[p].seen
            THEN SetFile(cmd[p].file, [c EXCEPT !.journal = r]) /\ Goto(p, next)
            ELSE Fails(p)
  /\ UNCHANGED rest

\* Mutant: the control row is moved without reading the journal.
SynchronizeUnread(p) ==
  /\ At(p, "sync") /\ LockFree(cmd[p].file)
  /\ LET c == Mine(p) IN
       IF c.control >= LegacyTop /\ c.state = "READY"
       THEN /\ SetFile(cmd[p].file, [c EXCEPT !.control = Official(release)])
            /\ Goto(p, "verify")
       ELSE Fails(p)
  /\ UNCHANGED rest

\* synchronizeDrizzleControl
Synchronize(p) ==
  /\ At(p, "sync") /\ LockFree(cmd[p].file)
  /\ LET c == Mine(p)  r == cmd[p].release IN
       IF c.journal = r /\ c.control >= LegacyTop /\ c.state = "READY"
       THEN /\ SetFile(cmd[p].file, [c EXCEPT !.control = Official(r)])
            /\ Goto(p, "verify")
       ELSE Fails(p)
  /\ UNCHANGED rest

\* Mutant: nothing is verified after the last step.
VerifyNothing(p) == At(p, "verify") /\ Goto(p, "done") /\ UNCHANGED <<files, rest>>

\* The final verification names a state, not a journal length.
Verify(p) ==
  /\ At(p, "verify")
  /\ IF Known(p) = (IF cmd[p].source = "LEGACY" THEN "BRIDGED" ELSE cmd[p].source)
     THEN Goto(p, "done") /\ UNCHANGED files
     ELSE Fails(p)
  /\ UNCHANGED rest

\* Mutant: the lease of the backup is waited for without a deadline.
LeaseWaitsForBackup(p) ==
  /\ cmd[p].step \in {"hop", "seed", "sync", "control"}
  /\ ~LockFree(cmd[p].file)
  /\ Fails(p)
  /\ UNCHANGED rest

\* withMigrationLease gave up: MigrationLockedError, thrown before the callback.
LeaseTimesOut(p) ==
  /\ cmd[p].step \in {"backup", "hop", "seed", "sync", "control"}
  /\ ~LockFree(cmd[p].file)
  /\ Fails(p)
  /\ UNCHANGED rest

-----------------------------------------------------------------------------
(* The automatic restore of a failed upgrade                               *)

\* restoreFromBackup up to the rename; no lock is asked for.
Replace(b) == files' = Append(files, b) /\ path' = Len(files) + 1

RestoreBackup(p) ==
  /\ At(p, "restore")
  /\ Replace(cmd[p].backup)
  /\ Goto(p, "check")
  /\ UNCHANGED <<release, backups, writer, faults, started>>

CheckRestored(p) ==
  /\ At(p, "check")
  /\ LET same == Known(p) = cmd[p].source
                   /\ (cmd[p].source = "LEGACY" => Here.legacy = cmd[p].backup.legacy) IN
       Goto(p, IF same THEN "restored" ELSE "mark")
  /\ UNCHANGED <<files, rest>>

\* Best effort: without the lock or without a control row nothing is marked.
MarkRecovery(p) ==
  /\ At(p, "mark")
  /\ IF LockFree(path) /\ Here.control # 0
     THEN SetFile(path, [Here EXCEPT !.state = "RECOVERY_REQUIRED"])
     ELSE UNCHANGED files
  /\ Goto(p, "recovery")
  /\ UNCHANGED rest

-----------------------------------------------------------------------------
(* database.init, database.backup.create and database.backup.restore       *)

StartInit(p) ==
  /\ p \in Initializers /\ CanStart(p)
  /\ LET st == DbState(Here, release) IN
       Start(p, CASE st = "EMPTY" -> "migrate"
                  [] st \in DrizzleStates -> "done"
                  [] OTHER -> "failed", st, 0)
  /\ UNCHANGED <<files, release, path, backups, writer, faults>>

\* initializeDrizzleControl
InitControl(p) ==
  /\ At(p, "control") /\ LockFree(cmd[p].file)
  /\ LET c == Mine(p)  r == cmd[p].release IN
       \/ /\ c.control = 0
          /\ SetFile(cmd[p].file, [c EXCEPT !.control = Official(r), !.state = "READY"])
          /\ Goto(p, "done")
       \/ /\ c.control # 0 /\ UNCHANGED files
          /\ Goto(p, IF c.control = Official(r) /\ c.journal = r /\ c.state = "READY"
                     THEN "done" ELSE "failed")
  /\ UNCHANGED rest

\* Takes no lease: the snapshot is one read transaction of SQLite.
CreateBackup ==
  /\ Cardinality(backups) < MaxArchives
  /\ Backable(Here, release, ManifestFor(Here, release))
  /\ backups' = backups \cup {Here}
  /\ UNCHANGED <<release, files, path, writer, cmd, faults, started>>

\* The safety backup comes first, and the restore is refused without it.
StartRestore(p) ==
  /\ p \in Restorers /\ CanStart(p)
  /\ \E b \in backups :
       LET v == ManifestFor(Here, release) IN
       /\ cmd' = [cmd EXCEPT ![p] = [@ EXCEPT
                    !.step = IF Backable(Here, release, v) THEN "replace" ELSE "failed",
                    !.release = release, !.file = path, !.at = v, !.backup = b]]
       /\ backups' = IF Backable(Here, release, v) THEN backups \cup {Here} ELSE backups
  /\ UNCHANGED <<release, files, path, writer, faults>>

ReplaceByBackup(p) ==
  /\ At(p, "replace")
  /\ IF Backable(cmd[p].backup, cmd[p].release, cmd[p].at)
     THEN Replace(cmd[p].backup) /\ Goto(p, "inspect")
     ELSE Goto(p, "failed") /\ UNCHANGED <<files, path>>
  /\ UNCHANGED <<release, backups, writer, faults, started>>

InspectRestored(p) ==
  /\ At(p, "inspect")
  /\ Goto(p, IF Compatibility(Here, cmd[p].release) \in {"UNKNOWN_TAMPERED", "DIRTY_IN_PROGRESS"}
             THEN "failed" ELSE "done")
  /\ UNCHANGED <<files, rest>>

-----------------------------------------------------------------------------
(* Sessions, releases, faults                                              *)

Wrote(s) == \E f \in DOMAIN files : s \in files[f].data

\* BEGIN IMMEDIATE, then the gate; a server may still run an older release.
BeginSession(s) ==
  /\ writer[s] = 0 /\ ~Wrote(s)
  /\ LockFree(path)
  /\ \E r \in FirstRelease..release : GateOpen(Here, r)
  /\ writer' = [writer EXCEPT ![s] = path]
  /\ UNCHANGED <<release, files, path, backups, cmd, faults, started>>

CommitSession(s) ==
  /\ writer[s] # 0
  /\ SetFile(writer[s], [files[writer[s]] EXCEPT !.data = @ \cup {s}])
  /\ writer' = [writer EXCEPT ![s] = 0]
  /\ UNCHANGED <<release, path, backups, cmd, faults, started>>

RollbackSession(s) ==
  /\ writer[s] # 0
  /\ writer' = [writer EXCEPT ![s] = 0]
  /\ UNCHANGED <<release, files, path, backups, cmd, faults, started>>

InstallRelease ==
  /\ release < MaxRelease
  /\ release' = release + 1
  /\ UNCHANGED <<files, path, backups, writer, cmd, faults, started>>

\* The process dies: its transaction, if any, is rolled back by SQLite.
Crash(p) ==
  /\ Running(p) /\ faults < MaxFaults
  /\ faults' = faults + 1
  /\ Goto(p, "crashed")
  /\ UNCHANGED <<release, files, path, backups, writer, started>>

\* A step throws before it has changed anything: I/O, a full disk, a busy file.
StepFails(p) ==
  /\ Running(p) /\ faults < MaxFaults
  /\ faults' = faults + 1
  /\ Fails(p)
  /\ UNCHANGED <<release, path, backups, writer, started>>

-----------------------------------------------------------------------------

Init ==
  /\ release = FirstRelease
  /\ files \in {<<c>> : c \in {EmptyFile} \cup {LegacyFile(v) : v \in 1..LegacyTop}}
  /\ path = 1
  /\ backups = {}
  /\ writer = [s \in Sessions |-> 0]
  /\ cmd = [p \in Commands |-> Idle]
  /\ started = 0
  /\ faults = 0

Step(p) ==
  \/ TakeBackup(p) \/ Hop(p) \/ Seed(p) \/ ReadJournal(p) \/ ApplyPending(p)
  \/ Synchronize(p) \/ Verify(p) \/ LeaseTimesOut(p)
  \/ RestoreBackup(p) \/ CheckRestored(p) \/ MarkRecovery(p)
  \/ InitControl(p) \/ ReplaceByBackup(p) \/ InspectRestored(p)

Next ==
  \/ \E p \in Commands :
       \/ StartInit(p) \/ StartUpgrade(p) \/ StartRestore(p)
       \/ Step(p) \/ Crash(p) \/ StepFails(p)
  \/ \E s \in Sessions : BeginSession(s) \/ CommitSession(s) \/ RollbackSession(s)
  \/ CreateBackup
  \/ InstallRelease

Spec == Init /\ [][Next]_vars

\* A started command keeps running until it ends or dies; nothing makes an
\* operator start one, nor a business callback return.
Fairness == \A p \in Commands : WF_vars(Step(p))

-----------------------------------------------------------------------------
(* Properties                                                              *)

Contents ==
  [legacy : 0..LegacyTop, journal : NoTable..MaxRelease,
   control : 0..Official(MaxRelease),
   state : {"NONE", "READY", "RECOVERY_REQUIRED"}, data : SUBSET Sessions]

Steps == {"idle", "backup", "hop", "seed", "migrate", "apply", "sync", "verify",
          "restore", "check", "mark", "control", "replace", "inspect"} \cup Ended

\* Types of the state.
LifecycleTypeOK ==
  /\ release \in FirstRelease..MaxRelease
  /\ files \in Seq(Contents) /\ path = Len(files)
  /\ backups \subseteq Contents
  /\ writer \in [Sessions -> 0..Len(files)]
  /\ cmd \in [Commands ->
       [step : Steps, release : 0..MaxRelease, file : 0..Len(files), at : 0..LegacyTop,
        seen : 0..MaxRelease, backup : Contents \cup {NoBackup},
        source : {"none", "EMPTY", "LEGACY", "MANAGED", "BRIDGED", "UNKNOWN"}]]
  /\ started \in 0..MaxCommands
  /\ faults \in 0..MaxFaults

\* The control row never names a migration the history tables do not hold:
\* a reader that trusts the row alone is never told of a schema that is not
\* there, whatever commands raced or died (current files, files behind open
\* connections and retained backups alike).
ControlTrusted(c) ==
  /\ c.control > LegacyTop => c.control <= Official(c.journal)
  /\ c.control \in 1..LegacyTop => c.control = c.legacy
ControlNeverAhead ==
  /\ \A f \in DOMAIN files : ControlTrusted(files[f])
  /\ \A b \in backups : ControlTrusted(b)

\* What a business session commits goes into a database that its gate still
\* accepts at the moment of the commit, not only when it began: no command
\* can change the schema under an open session.
WritesPassTheGate ==
  [][\A f \in DOMAIN files : files'[f].data # files[f].data =>
       \E r \in FirstRelease..release : GateOpen(files[f], r)]_vars

\* A file marked RECOVERY_REQUIRED stays so and takes no business write:
\* neither a late upgrader nor a session brings it back, only a restore does,
\* and that is another file.
RecoveryFreezes ==
  [][\A f \in DOMAIN files : files[f].state = "RECOVERY_REQUIRED" =>
       files'[f].state = "RECOVERY_REQUIRED" /\ files'[f].data = files[f].data]_vars

\* An upgrade that reports success, on a path that still names the file it
\* opened, leaves exactly the journal and control of its own release, even
\* when another upgrader of another release worked on the same file.
UpgradedIsCurrent ==
  [][\A p \in Upgraders :
       /\ At(p, "verify") /\ cmd'[p].step = "done" /\ path = cmd[p].file
       => Compatibility(Here, cmd[p].release) = "CURRENT"]_vars

\* A started command ends even when a business callback never returns.
CommandsFinish == \A p \in Commands : Running(p) ~> cmd[p].step \in Ended

\* remediation(), UNKNOWN_TAMPERED: "inspect the verified backup and use the
\* explicit restore workflow".  With a retained backup that workflow starts.
UnknownCanBeRestored ==
  Quiet /\ backups # {} /\ Compatibility(Here, release) = "UNKNOWN_TAMPERED"
    => Backable(Here, release, ManifestFor(Here, release))
=============================================================================
