---------------------------- MODULE DatabaseControl ----------------------------
(***************************************************************************)
(* What one database file says of itself, and the four pieces of code that *)
(* read it: DatabaseControlService.inspect, the gate of the session        *)
(* runner, the state detector and the compatibility check.  Each was       *)
(* written on its own over the same tables, schema_migrations,             *)
(* __drizzle_migrations, the row of database_control and the SQLite        *)
(* catalog, and the catalog is compared with exceptions.                   *)
(*                                                                         *)
(* DatabaseLifecycle takes the readers as one abstract test each and looks *)
(* at the commands; here a single program with Official migrations runs    *)
(* over files that any release may have left, and the readers are the      *)
(* subject.  A catalog is a set of objects, one for all that a migration   *)
(* creates.                                                                *)
(***************************************************************************)
EXTENDS Integers, FiniteSets

CONSTANTS
  LegacyTop,   \* legacy schema versions modelled, the last one is v8
  Official,    \* official Drizzle migrations of this program, the first is the baseline
  Authority, Computation, Statement,   \* official migrations named by the catalog check
  MaxEdits     \* bound: edits from outside the program

ASSUME CatalogAssumption ==
  /\ LegacyTop \in Nat \ {0} /\ Official \in Nat \ {0} /\ MaxEdits \in Nat
  /\ Authority \cup Computation \cup Statement \subseteq 2..Official
  /\ Authority \cap Computation = {} /\ Authority \cap Statement = {}
  /\ Computation \cap Statement = {}

VARIABLES
  database,  \* the file: history and journal rows, control row, catalog
  edits      \* edits so far

controlVars == <<database, edits>>

-----------------------------------------------------------------------------
(* Files                                                                   *)

Without == -1               \* the table is not there
OfficialId(n) == LegacyTop + n
NoRow == [version |-> 0, last |-> 0, checksum |-> 0, state |-> "NONE", iso |-> TRUE]

\* MIGRATION_CATALOG gives each legacy version one more row, one more object.
Row(version, last) ==
  [version |-> version, last |-> last, checksum |-> last, state |-> "READY", iso |-> TRUE]
LegacyObjects(v) == {<<"legacy", i>> : i \in 1..v}
OfficialObjects(S) == {<<"official", i>> : i \in S}
Matrix == {<<"matrix", 0>>}

\* expectedSqliteCatalog: a bridge has the baseline from the legacy tables.
ExpectedCatalog(kind, v, j) ==
  CASE kind = "legacy" -> LegacyObjects(v)
    [] kind = "bridged" -> LegacyObjects(LegacyTop) \cup OfficialObjects(2..j)
    [] kind = "drizzle" -> OfficialObjects(1..j)

File(h, j, row, objects) == [history |-> h, journal |-> j, row |-> row, objects |-> objects]
EmptyDatabase == File(Without, Without, NoRow, {})
LeftByRelease ==
  {EmptyDatabase}
  \cup {File(v, Without, Row(v, v), ExpectedCatalog("legacy", v, 0)) : v \in 1..LegacyTop}
  \cup {File(LegacyTop, j, Row(LegacyTop, OfficialId(j)), ExpectedCatalog("bridged", LegacyTop, j)) :
         j \in 1..Official}
  \cup {File(Without, j, Row(LegacyTop, OfficialId(j)), ExpectedCatalog("drizzle", LegacyTop, j)) :
         j \in 1..Official + 1}

\* database_control is created by legacy version 1 and by the baseline.
HasControlTable(f) == <<"legacy", 1>> \in f.objects \/ <<"official", 1>> \in f.objects

-----------------------------------------------------------------------------
(* sqliteCatalogMatches                                                    *)

Named(S) == OfficialObjects(S)
SuffixNames == Named(Authority \cup Computation \cup Statement)
CurrentCatalog == OfficialObjects(1..Official)

\* The comparison, with what the historical fixtures are allowed to keep.
Tolerated(actual, expected) ==
  LET historical == expected \cap Named(Computation) = {} /\ actual \cap Named(Computation) # {}
      Comparable(S) == IF historical THEN S \ Named(Computation) ELSE S
      a == Comparable(actual)
      current == Comparable(CurrentCatalog)
      later == SuffixNames \ Named(Authority)
      wholeSuffix == a \cap SuffixNames = current \cap SuffixNames
      noAuthority == (expected \cup a) \cap Named(Authority) = {}
                     /\ a \cap later = current \cap later IN
  \/ actual = expected
  \/ historical /\ a = expected
  \/ (wholeSuffix \/ noAuthority) /\ a \ SuffixNames = expected \ SuffixNames
  \/ ~wholeSuffix /\ ~noAuthority /\ Matrix \subseteq a /\ a \ Matrix = expected

\* Mutant: the whole suffix is forgiven, whether or not it is all there.
PartialSuffix(actual, expected) ==
  Tolerated(actual, expected) \/ actual \ SuffixNames = expected \ SuffixNames

\* With the statement tables complete the rest is compared once more.
CatalogMatches(actual, expected) ==
  \/ Tolerated(actual, expected)
  \/ /\ actual \cap Named(Statement) = CurrentCatalog \cap Named(Statement)
     /\ Tolerated(actual \ Named(Statement), expected \ Named(Statement))

-----------------------------------------------------------------------------
(* DatabaseControlService                                                  *)

\* The kind of path a reader takes, from the two history tables.
Kind(f) == IF f.journal # Without THEN (IF f.history = Without THEN "drizzle" ELSE "bridged")
           ELSE "legacy"

\* The validators of the control table: each kind has its own DDL for it.
ControlTableFits(f) ==
  IF Kind(f) = "drizzle" THEN <<"official", 1>> \in f.objects
  ELSE <<"legacy", 1>> \in f.objects

\* manifestForHistory
KnownHistory(f) == f.history \in 1..LegacyTop

\* validateOfficialDrizzleJournal, with the cardinality.
WholeJournal(f) == f.journal = Official

\* validateAndParseRecord against a manifest: version, state, last migration,
\* and timestamps that print as they were written.
RowIs(row, version, last) ==
  /\ row.iso
  /\ row.version = version /\ row.last = last /\ row.checksum = last
  /\ row.state \in {"READY", "APPLYING", "RECOVERY_REQUIRED"}

Last(f) == IF Kind(f) = "legacy" THEN f.history ELSE OfficialId(Official)

\* The history and the catalog inspect asks for before it reads the row.
IdentityHolds(f) ==
  /\ ControlTableFits(f)
  /\ Kind(f) # "legacy" => WholeJournal(f)
  /\ Kind(f) = "legacy" => KnownHistory(f)
  /\ Kind(f) = "bridged" => f.history = LegacyTop
  /\ CatalogMatches(f.objects, ExpectedCatalog(Kind(f), f.history, f.journal))

\* inspect
Inspection(f) ==
  CASE ~HasControlTable(f) -> "UNINITIALIZED"
    [] HasControlTable(f) /\ ~IdentityHolds(f) -> "UNAVAILABLE"
    [] HasControlTable(f) /\ IdentityHolds(f) /\ f.row = NoRow -> "UNINITIALIZED"
    [] OTHER ->
         IF RowIs(f.row, IF Kind(f) = "legacy" THEN f.history ELSE LegacyTop, Last(f))
         THEN "AVAILABLE" ELSE "UNAVAILABLE"

\* requireCompatibleReader and requireCompatibleWriter; every manifest says 1.
Protocol == 1
CompatibleReader(f, protocol) ==
  Inspection(f) = "AVAILABLE" /\ f.row.state = "READY" /\ protocol \in Protocol..Protocol
CompatibleWriter(f, protocol) ==
  Inspection(f) = "AVAILABLE" /\ f.row.state = "READY" /\ protocol = Protocol

-----------------------------------------------------------------------------
(* The gate of the session runner, and the state detector                  *)

\* validateDatabaseControl, without a journal: the legacy history up to v8.
LegacyGate(f) ==
  /\ f.row.version = LegacyTop /\ f.row.state = "READY"
  /\ f.row.last = LegacyTop /\ f.row.checksum = LegacyTop
  /\ f.history = LegacyTop
  /\ CatalogMatches(f.objects, ExpectedCatalog("legacy", LegacyTop, 0))

\* validateFreshDrizzleDatabase
FreshGate(f) ==
  /\ f.row # NoRow /\ WholeJournal(f)
  /\ CatalogMatches(f.objects, ExpectedCatalog("drizzle", LegacyTop, f.journal))
  /\ f.row.last = OfficialId(Official) /\ f.row.checksum = OfficialId(f.journal)
  /\ f.row.version = LegacyTop /\ f.row.state = "READY"

\* Mutant: a row of any state opens the gate.
ReadsNoState(f) ==
  /\ WholeJournal(f) /\ f.history = LegacyTop
  /\ CatalogMatches(f.objects, ExpectedCatalog("bridged", LegacyTop, f.journal))
  /\ f.row.version = LegacyTop
  /\ f.row.last = OfficialId(Official) /\ f.row.checksum = OfficialId(Official)

\* validateBridgedDatabase
BridgedGate(f) ==
  /\ WholeJournal(f) /\ f.history = LegacyTop
  /\ CatalogMatches(f.objects, ExpectedCatalog("bridged", LegacyTop, f.journal))
  /\ f.row.version = LegacyTop /\ f.row.state = "READY"
  /\ f.row.last = OfficialId(Official) /\ f.row.checksum = OfficialId(Official)

\* None of the three looks at who wrote the row, or when.
GateAdmits(f) ==
  /\ HasControlTable(f) /\ ControlTableFits(f)
  /\ \/ Kind(f) = "legacy" /\ LegacyGate(f)
     \/ Kind(f) = "drizzle" /\ FreshGate(f)
     \/ Kind(f) = "bridged" /\ BridgedGate(f)

\* exactControl
ExactControl(f, version, last) == RowIs(f.row, version, last) /\ f.row.state = "READY"

ExactLegacy(f) ==
  /\ KnownHistory(f)
  /\ ExactControl(f, f.history, f.history)
  /\ CatalogMatches(f.objects, ExpectedCatalog("legacy", f.history, 0))

ExactOfficialPrefix(f, kind) ==
  /\ f.journal \in 1..Official
  /\ ExactControl(f, LegacyTop, OfficialId(f.journal))
  /\ CatalogMatches(f.objects, ExpectedCatalog(kind, LegacyTop, f.journal))

\* detectDatabaseState
Detected(f) ==
  IF f.history = Without /\ f.journal = Without /\ ~HasControlTable(f) THEN "EMPTY"
  ELSE IF Kind(f) = "bridged" /\ f.history = LegacyTop /\ WholeJournal(f)
            /\ ExactOfficialPrefix(f, "bridged") THEN "DRIZZLE_BRIDGED"
  ELSE IF Kind(f) = "legacy" /\ ExactLegacy(f) THEN "LEGACY"
  ELSE IF Kind(f) = "drizzle" /\ ExactOfficialPrefix(f, "drizzle") THEN "DRIZZLE_MANAGED"
  ELSE "UNKNOWN"

\* inspectSqliteApplicationCompatibility
Readiness(f) ==
  CASE Detected(f) = "EMPTY" -> "UNINITIALIZED"
    [] Detected(f) = "LEGACY" -> IF f.history = LegacyTop THEN "CUSTOM_V8" ELSE "LEGACY"
    [] Detected(f) \in {"DRIZZLE_BRIDGED", "DRIZZLE_MANAGED"} ->
         IF WholeJournal(f) /\ f.row.state = "READY" THEN "READY" ELSE "UPDATE_REQUIRED"
    [] OTHER -> "UNAVAILABLE"

-----------------------------------------------------------------------------
(* What the program writes                                                 *)

Write(f) == database' = f /\ UNCHANGED edits

\* MigrationService.migrate on an empty file, the foundation.
CreateFoundation ==
  /\ database = EmptyDatabase
  /\ Write(File(1, Without, NoRow, LegacyObjects(1)))

\* DatabaseControlService.initialize: a row that is there stays as it is.
InitializeControl ==
  /\ HasControlTable(database) /\ KnownHistory(database) /\ database.row = NoRow
  /\ Write([database EXCEPT !.row = Row(database.history, database.history)])

\* One step of UpgradeCoordinator, history, objects and row in one lease.
UpgradeLegacy ==
  /\ Kind(database) = "legacy" /\ ExactLegacy(database) /\ database.history < LegacyTop
  /\ LET v == database.history + 1 IN
       Write([database EXCEPT !.history = v, !.row = Row(v, v),
                              !.objects = @ \cup {<<"legacy", v>>}])

\* seedOfficialDrizzleBaseline
SeedBaseline ==
  /\ Detected(database) = "LEGACY" /\ database.history = LegacyTop
  /\ Write([database EXCEPT !.journal = 1])

\* The migrator runs what its journal has and the file's has not; tables
\* that are already there make it fail and leave the file alone.
MigrateJournal ==
  /\ \/ database = EmptyDatabase
     \/ database.journal \in 1..Official - 1
  /\ LET from == IF database.journal = Without THEN 0 ELSE database.journal
         pending == OfficialObjects(from + 1..Official) IN
       /\ database.objects \cap pending = {}
       /\ Write([database EXCEPT !.journal = Official, !.objects = @ \cup pending])

\* initializeDrizzleControl: this program's id, the last journal row's hash.
InitializeDrizzleControl ==
  /\ HasControlTable(database) /\ database.journal \in 1..Official + 1 /\ database.row = NoRow
  /\ Write([database EXCEPT !.row = [Row(LegacyTop, OfficialId(Official)) EXCEPT
                                       !.checksum = OfficialId(database.journal)]])

\* synchronizeDrizzleControl
SynchronizeControl ==
  /\ WholeJournal(database)
  /\ database.row.version = LegacyTop /\ database.row.state = "READY"
  /\ database.row # Row(LegacyTop, OfficialId(Official))
  /\ Write([database EXCEPT !.row = Row(LegacyTop, OfficialId(Official))])

\* The last resort of a failed upgrade stamps the row with datetime('now').
MarkRecoveryRequired ==
  /\ database.row # NoRow
  /\ Write([database EXCEPT !.row.state = "RECOVERY_REQUIRED", !.row.iso = FALSE])

\* CompatibilityService.ensureCompatibilityTable
EnsureCompatibilityTable ==
  /\ database # EmptyDatabase /\ ~(Matrix \subseteq database.objects)
  /\ Write([database EXCEPT !.objects = @ \cup Matrix])

\* From outside, as the repository's own fixtures do: a migration's objects
\* are dropped, or its journal row, with the row of the control set back.
DropObjects ==
  /\ edits < MaxEdits /\ edits' = edits + 1
  /\ \E o \in database.objects : database' = [database EXCEPT !.objects = @ \ {o}]

RewindJournal ==
  /\ edits < MaxEdits /\ edits' = edits + 1
  /\ database.journal \in 2..Official
  /\ LET j == database.journal - 1 IN
       database' = [database EXCEPT !.journal = j, !.row = Row(LegacyTop, OfficialId(j))]

ControlInit == database \in LeftByRelease /\ edits = 0

ControlNext ==
  \/ CreateFoundation \/ InitializeControl \/ UpgradeLegacy \/ SeedBaseline
  \/ MigrateJournal \/ InitializeDrizzleControl \/ SynchronizeControl
  \/ MarkRecoveryRequired \/ EnsureCompatibilityTable
  \/ DropObjects \/ RewindJournal

ControlSpec == ControlInit /\ [][ControlNext]_controlVars

-----------------------------------------------------------------------------
(* Properties                                                              *)

\* The gate lets a business session in exactly when the detector reports a
\* current database or a legacy v8 one that was never bridged, and then inspect
\* serves the same file to readers and writers.
RecognisersAgree ==
  /\ GateAdmits(database) <=> Readiness(database) \in {"READY", "CUSTOM_V8"}
  /\ GateAdmits(database) => CompatibleReader(database, Protocol) /\ CompatibleWriter(database, Protocol)

\* "never permit a partial or tampered suffix": whatever the exceptions let
\* stay, a file that is served lacks nothing its history stands for.
ServedFilesAreWhole ==
  Inspection(database) = "AVAILABLE" \/ GateAdmits(database)
    => ExpectedCatalog(Kind(database), database.history, database.journal) \subseteq database.objects
================================================================================
