--------------------------- MODULE SchemaMigrations --------------------------
(***************************************************************************)
(* MigrationService: numbered migrations run in order under the migration  *)
(* lease, one transaction, each behind a savepoint; a failing one is left  *)
(* DIRTY in the table it commits, and only a recovery that an operator     *)
(* asks for, with the exact state he expects and probes that hold, makes   *)
(* it APPLIED.  The table itself may have one of four older formats.  A    *)
(* death or an error inside the lease loses the whole session.             *)
(***************************************************************************)
EXTENDS Naturals, Sequences, FiniteSets

CONSTANTS
  MaxMigration,  \* the migrations are 1 .. MaxMigration, run in this order
  Effects(_),    \* the schema objects a migration makes
  Probes(_),     \* those its verification manifest selects; {} when it has no manifest
  MaxAudits      \* bound: recoveries asked for

Migrations == 1 .. MaxMigration
Blocking == {"APPLYING", "DIRTY"}

ASSUME MigrationsAssumption ==
  /\ MaxMigration \in Nat \ {0}
  /\ \A m \in Migrations : Probes(m) \subseteq Effects(m)

VARIABLES
  format,   \* of schema_migrations as committed
  rows,     \* its rows by migration
  objects,  \* the schema objects in the file
  audit,    \* migration_recovery_audit, [migration, success] in order
  session   \* what the holder of the lease has done so far, and at which migration it is

migrationVars == <<format, rows, objects, audit, session>>

Formats == {"NONE", "CURRENT", "gate0", "dirty_flag", "strict_status_lease", "nullable_status", "UNKNOWN"}
\* The states a format can express; no row is read without one.
Expressible(f) == CASE f \in {"NONE", "UNKNOWN", "gate0"} -> {"APPLIED"}
                    [] f = "dirty_flag" -> {"APPLIED", "DIRTY"}
                    [] f = "nullable_status" -> {"APPLIED", "APPLYING", "DIRTY", "NULL"}
                    [] OTHER -> {"APPLIED", "APPLYING", "DIRTY"}

Missing == [status |-> "NONE", same |-> TRUE, reason |-> FALSE, manifest |-> FALSE]
Idle == [at |-> 0, rows |-> [m \in Migrations |-> Missing], objects |-> {}, edited |-> {}]

\* What earlier programs leave behind: a prefix of the migrations, the last of
\* them perhaps unfinished with any part of its effects.
MigrationInit ==
  /\ format \in Formats
  /\ \E k \in 0 .. MaxMigration, last \in Expressible(format), r \in BOOLEAN, extra \in SUBSET Effects(MaxMigration) :
       /\ k = 0 \/ format \notin {"NONE", "UNKNOWN"}
       /\ rows = [m \in Migrations |->
            IF m > k THEN Missing
            ELSE [Missing EXCEPT !.status = IF m = k THEN last ELSE "APPLIED",
                    !.reason = m = k /\ last = "DIRTY" /\ r /\ format \in {"CURRENT", "dirty_flag"},
                    !.manifest = format = "CURRENT" /\ Probes(m) # {}]]
       /\ objects = (IF k = MaxMigration THEN extra ELSE {})
                 \cup UNION {Effects(m) : m \in {n \in Migrations : rows[n].status = "APPLIED"}}
  /\ audit = <<>>
  /\ session = Idle

-----------------------------------------------------------------------------
(* The control table: its format is recognised by its exact columns, its   *)
(* rows are carried over to the current one, or nothing is.                *)

\* Mutant: a row of the dirty-flag table is applied whatever its flag.
FlagLost(f, row) == [row EXCEPT !.manifest = FALSE, !.reason = FALSE,
                                !.status = IF f = "dirty_flag" THEN "APPLIED" ELSE @]

\* A row in the current columns: the reason survives from the dirty-flag table
\* only, a verification manifest from none.
Canonical(f, row) == [row EXCEPT !.manifest = FALSE, !.reason = @ /\ f = "dirty_flag"]

\* A row without a status has no place in the current table.
Extractable(f) == f # "UNKNOWN" /\ \A m \in Migrations : rows[m].status # "NULL"

Upgraded == IF format \in {"NONE", "CURRENT"} THEN rows
            ELSE [m \in Migrations |-> Canonical(format, rows[m])]

\* getStatus: the rows that block, in whatever format the columns can be read.
BlockingRows(table) == {m \in Migrations : table[m].status \in Blocking}

-----------------------------------------------------------------------------
(* migrate.  edited: the migrations whose SQL is not what was applied.     *)

\* Upgrade the table, create what is missing, refuse when anything blocks.
BeginMigrate(edited) ==
  /\ session.at = 0
  /\ Extractable(format)
  /\ BlockingRows(Upgraded) = {}
  /\ session' = [at |-> 1, rows |-> Upgraded, objects |-> objects, edited |-> edited]
  /\ UNCHANGED <<format, rows, objects, audit>>

Current == session.rows[session.at]

\* A row that is there is APPLIED; its checksum has to match.
SkipApplied ==
  /\ session.at \in Migrations
  /\ Current.status = "APPLIED" /\ Current.same = (session.at \notin session.edited)
  /\ session' = [session EXCEPT !.at = @ + 1]
  /\ UNCHANGED <<format, rows, objects, audit>>

\* A checksum that differs throws: the transaction is rolled back.
ChecksumMismatch ==
  /\ session.at \in Migrations
  /\ Current.status = "APPLIED" /\ Current.same # (session.at \notin session.edited)
  /\ session' = Idle
  /\ UNCHANGED <<format, rows, objects, audit>>

MarkApplying ==
  /\ session.at \in Migrations
  /\ Current.status = "NONE"
  /\ session' = [session EXCEPT !.rows[session.at] =
                   [status |-> "APPLYING", same |-> session.at \notin session.edited, reason |-> FALSE,
                    manifest |-> Probes(session.at) # {}]]
  /\ UNCHANGED <<format, rows, objects, audit>>

RunDdl ==
  /\ session.at \in Migrations
  /\ Current.status = "APPLYING"
  /\ Effects(session.at) \cap session.objects = {}
  /\ session' = [session EXCEPT !.rows[session.at].status = "APPLIED",
                                !.objects = @ \cup Effects(session.at), !.at = @ + 1]
  /\ UNCHANGED <<format, rows, objects, audit>>

\* Mutant: the run goes on with the migration after the failed one.
NextAfterFailure == session.at + 1

\* A failed migration ends the run: its callback returns, so what was done
\* before it and its DIRTY row are committed.
AfterFailure == MaxMigration + 1

\* The DDL fails, as it must on an object that is there: the savepoint takes
\* its effects back, the row stays and is DIRTY.
FailDdl ==
  /\ session.at \in Migrations
  /\ Current.status = "APPLYING"
  /\ session' = [session EXCEPT !.rows[session.at] = [@ EXCEPT !.status = "DIRTY", !.reason = TRUE],
                                !.at = AfterFailure]
  /\ UNCHANGED <<format, rows, objects, audit>>

CommitLease ==
  /\ session.at > MaxMigration
  /\ format' = "CURRENT" /\ rows' = session.rows /\ objects' = session.objects
  /\ session' = Idle
  /\ UNCHANGED audit

\* The holder dies or throws: the transaction is rolled back.
LoseLease ==
  /\ session.at > 0
  /\ session' = Idle
  /\ UNCHANGED <<format, rows, objects, audit>>

-----------------------------------------------------------------------------
(* recoverDirty *)

\* The manifest the caller's definition carries is valid and is the one stored
\* with the row.
ManifestMatches(m, row) == Probes(m) # {} /\ row.manifest

\* Mutant: the probes are trusted.
NoProbes(m) == TRUE

ProbesHold(m) == Probes(m) \subseteq objects

\* One lease of its own: compare the expected state, the definition, the stored
\* manifest and every probe; the attempt is audited whatever comes of it.
RecoverDirty(m, expectedStatus, expectedReason, edited) ==
  LET row == Upgraded[m]
      success == /\ row.status = expectedStatus /\ row.reason = expectedReason
                 /\ row.same = ~edited
                 /\ ManifestMatches(m, row)
                 /\ ProbesHold(m)
  IN /\ session.at = 0
     /\ Extractable(format)
     /\ row.status # "NONE"
     /\ Len(audit) < MaxAudits
     /\ format' = "CURRENT"
     /\ rows' = IF success THEN [Upgraded EXCEPT ![m] = [@ EXCEPT !.status = "APPLIED", !.reason = FALSE]]
                           ELSE Upgraded
     /\ audit' = Append(audit, [migration |-> m, success |-> success])
     /\ UNCHANGED <<objects, session>>

\* upgradeControlSchema on its own.
UpgradeControlSchema ==
  /\ session.at = 0
  /\ Extractable(format) /\ format # "NONE"
  /\ format' = "CURRENT" /\ rows' = Upgraded
  /\ UNCHANGED <<objects, audit, session>>

\* The operator makes what a failed migration should have made.
Repair(o) ==
  /\ session.at = 0
  /\ objects' = objects \cup {o}
  /\ UNCHANGED <<format, rows, audit, session>>

MigrationNext ==
  \/ \E edited \in SUBSET Migrations : BeginMigrate(edited)
  \/ SkipApplied \/ ChecksumMismatch \/ MarkApplying \/ RunDdl \/ FailDdl
  \/ CommitLease \/ LoseLease
  \/ \E m \in Migrations, s \in Blocking, r, e \in BOOLEAN : RecoverDirty(m, s, r, e)
  \/ UpgradeControlSchema
  \/ \E m \in BlockingRows(rows) : \E o \in Effects(m) : Repair(o)

MigrationSpec == MigrationInit /\ [][MigrationNext]_migrationVars

-----------------------------------------------------------------------------
Recovered == {audit[i].migration : i \in {j \in DOMAIN audit : audit[j].success}}

\* A migration reads APPLIED only when every earlier one does and its objects
\* are there: all of them, or after a recovery at least those it probed.  A
\* failure half-way, a death under the lease, an upgrade of the table and a
\* recovery on the wrong expectation cannot make it say more than was done.
AppliedIsBacked ==
  \A m \in Migrations : rows[m].status = "APPLIED" =>
    /\ \A n \in 1 .. m : rows[n].status = "APPLIED"
    /\ (IF m \in Recovered THEN Probes(m) ELSE Effects(m)) \subseteq objects

\* An unfinished migration becomes APPLIED by a recovery and by nothing else, and
\* the recovery is in the audit from the same commit on; the audit only grows.
OnlyAuditedRecoveryUnblocks ==
  [][/\ \A m \in Migrations : rows[m].status \in Blocking /\ rows'[m].status = "APPLIED"
          => audit' = Append(audit, [migration |-> m, success |-> TRUE])
     /\ \A m \in Migrations : rows[m].status \in Blocking => rows'[m].status # "NONE"
     /\ SubSeq(audit', 1, Len(audit)) = audit]_migrationVars
=============================================================================
