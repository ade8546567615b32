------------------------ MODULE AdministrationProofs -------------------------
(***************************************************************************)
(* What surrounds the books, for every value of the constants: the hashed  *)
(* migrations of a database, the code that recognises the database, the    *)
(* tenants with their BookSets, the personal tax case and its return.      *)
(*                                                                         *)
(* The five share no state; each has an inductive invariant of its own,    *)
(* explained where it is defined.                                          *)
(***************************************************************************)
EXTENDS SchemaMigrations, DatabaseControl, Tenancy, TaxCases, TaxReturns,
        SumTheorems, SequenceTheorems, TLAPS

-----------------------------------------------------------------------------
(* SchemaMigrations.  The invariant says of the committed table, and of    *)
(* the table the holder of the lease has in his transaction, that the      *)
(* migrations stand in order and that an applied one is backed by its      *)
(* objects; and that a lease is only held over a table in which nothing    *)
(* blocks, so that its commit can unblock nothing.                         *)

RowStatuses == {"NONE", "APPLIED", "APPLYING", "DIRTY", "NULL"}
MigrationRow == [status : RowStatuses, same : BOOLEAN, reason : BOOLEAN, manifest : BOOLEAN]
Tables == [Migrations -> MigrationRow]
Things == UNION {Effects(m) : m \in Migrations}
Sessions == [at : 0 .. (MaxMigration + 1), rows : Tables, objects : SUBSET Things,
             edited : SUBSET Migrations]

MigrationTypes ==
  /\ rows \in Tables
  /\ objects \subseteq Things
  /\ audit \in Seq([migration : Migrations, success : BOOLEAN])
  /\ session \in Sessions

\* A migration that left a row comes after migrations that are applied.
InOrder(table) ==
  \A m \in Migrations : table[m].status # "NONE" =>
    \A n \in Migrations : n < m => table[n].status = "APPLIED"

Needed(m) == IF m \in Recovered THEN Probes(m) ELSE Effects(m)

Backed(table, made) ==
  \A m \in Migrations : table[m].status = "APPLIED" => Needed(m) \subseteq made

\* What the holder of the lease has in his transaction.
SessionSound ==
  session.at > 0 =>
    /\ BlockingRows(rows) = {}
    /\ InOrder(session.rows)
    /\ Backed(session.rows, session.objects)
    /\ session.at \in Migrations =>
         \A n \in Migrations : n < session.at => session.rows[n].status = "APPLIED"

MigrationInv == MigrationTypes /\ InOrder(rows) /\ Backed(rows, objects) /\ SessionSound

-----------------------------------------------------------------------------
(* Lemmas                                                                  *)

LEMMA CanonicalRow ==
  ASSUME NEW f, NEW row \in MigrationRow
  PROVE  Canonical(f, row) \in MigrationRow /\ Canonical(f, row).status = row.status
BY DEF Canonical, MigrationRow

\* Carrying the rows over to the current columns changes no status.
LEMMA UpgradedRows ==
  ASSUME rows \in Tables
  PROVE  Upgraded \in Tables /\ \A m \in Migrations : Upgraded[m].status = rows[m].status
<1>1. CASE format \in {"NONE", "CURRENT"}
  BY <1>1 DEF Upgraded
<1>2. CASE format \notin {"NONE", "CURRENT"}
  <2>1. Upgraded = [m \in Migrations |-> Canonical(format, rows[m])]
    BY <1>2 DEF Upgraded
  <2>2. \A m \in Migrations : rows[m] \in MigrationRow
    BY DEF Tables
  <2>3. \A m \in Migrations : /\ Canonical(format, rows[m]) \in MigrationRow
                              /\ Canonical(format, rows[m]).status = rows[m].status
    BY <2>2, CanonicalRow
  <2> QED BY <2>1, <2>3 DEF Tables
<1> QED BY <1>1, <1>2

\* Order and backing depend on the statuses alone.
LEMMA SameStatuses ==
  ASSUME NEW s, NEW t, NEW made, \A m \in Migrations : t[m].status = s[m].status
  PROVE  /\ InOrder(s) => InOrder(t)
         /\ Backed(s, made) => Backed(t, made)
         /\ BlockingRows(t) = BlockingRows(s)
BY DEF InOrder, Backed, BlockingRows

\* One row of an ordered table whose predecessors are applied may change: its
\* successors have no row unless it was applied.
LEMMA OneRow ==
  ASSUME NEW s \in Tables, NEW m \in Migrations, NEW row \in MigrationRow, InOrder(s),
         \A n \in Migrations : n < m => s[n].status = "APPLIED",
         s[m].status # "APPLIED"
  PROVE  LET t == [s EXCEPT ![m] = row]
         IN  /\ t \in Tables
             /\ InOrder(t)
             /\ \A n \in Migrations : n # m => t[n] = s[n]
             /\ t[m] = row
<1> DEFINE t == [s EXCEPT ![m] = row]
<1>1. /\ t \in Tables
      /\ \A n \in Migrations : n # m => t[n] = s[n]
      /\ t[m] = row
  BY DEF Tables
<1>2. Migrations \subseteq Int
  BY DEF Migrations
<1>3. \A n \in Migrations : m < n => s[n].status = "NONE"
  BY DEF InOrder
<1> HIDE DEF t
<1>4. ASSUME NEW k \in Migrations, t[k].status # "NONE", NEW n \in Migrations, n < k
      PROVE  t[n].status = "APPLIED"
  <2>1. CASE k = m
    BY <1>1, <1>2, <1>4, <2>1
  <2>2. CASE k # m
    <3>1. s[k].status # "NONE" /\ ~(m < k)
      BY <1>1, <1>3, <1>4, <2>2
    <3>2. n # m
      BY <1>4, <3>1
    <3> QED BY <1>1, <1>4, <3>1, <3>2 DEF InOrder
  <2> QED BY <2>1, <2>2
<1>5. InOrder(t)
  BY <1>4 DEF InOrder
<1> QED BY <1>1, <1>5 DEF t

\* A step of the holder that leaves what is committed alone.
HolderOnly == UNCHANGED <<format, rows, objects, audit>>

LEMMA HolderKeeps ==
  ASSUME MigrationInv, HolderOnly
  PROVE  /\ rows' \in Tables /\ objects' \subseteq Things
         /\ audit' \in Seq([migration : Migrations, success : BOOLEAN])
         /\ InOrder(rows)' /\ Backed(rows, objects)'
         /\ Recovered' = Recovered
         /\ BlockingRows(rows)' = BlockingRows(rows)
BY DEF MigrationInv, MigrationTypes, HolderOnly, InOrder, Backed, Needed, Recovered, BlockingRows

LEMMA NeededStays ==
  ASSUME UNCHANGED audit, NEW m
  PROVE  Needed(m)' = Needed(m)
BY DEF Needed, Recovered

LEMMA IdleKeeps ==
  ASSUME MigrationInv, HolderOnly, session' = Idle
  PROVE  MigrationInv'
<1>1. Missing \in MigrationRow
  BY DEF Missing, MigrationRow, RowStatuses
<1>2. Idle \in Sessions /\ Idle.at = 0
  BY <1>1, MigrationsAssumption DEF Idle, Sessions, Tables
<1>3. SessionSound'
  BY <1>2 DEF SessionSound
<1> QED BY <1>2, <1>3, HolderKeeps DEF MigrationInv, MigrationTypes

-----------------------------------------------------------------------------
(* The steps of a run                                                      *)

LEMMA BeginStep ==
  ASSUME MigrationInv, NEW edited \in SUBSET Migrations, BeginMigrate(edited)
  PROVE  MigrationInv'
<1>1. HolderOnly /\ session' = [at |-> 1, rows |-> Upgraded, objects |-> objects, edited |-> edited]
  BY DEF BeginMigrate, HolderOnly
<1>2. Upgraded \in Tables /\ \A m \in Migrations : Upgraded[m].status = rows[m].status
  BY UpgradedRows DEF MigrationInv, MigrationTypes
<1> HIDE DEF Upgraded
<1>3. /\ session'.at = 1 /\ session'.rows = Upgraded /\ session'.objects = objects
      /\ session'.edited = edited
  BY <1>1
<1>4. session' \in Sessions
  BY <1>1, <1>2, MigrationsAssumption DEF Sessions, MigrationInv, MigrationTypes
<1>5. /\ InOrder(Upgraded) /\ Backed(Upgraded, objects)
      /\ BlockingRows(Upgraded) = BlockingRows(rows)
  BY <1>2, SameStatuses DEF MigrationInv
<1>6. BlockingRows(rows)' = {}
  BY <1>1, <1>5, HolderKeeps DEF BeginMigrate
<1>7. InOrder(session.rows)' /\ Backed(session.rows, session.objects)'
  BY <1>1, <1>3, <1>5, NeededStays DEF InOrder, Backed, HolderOnly
<1>8. ~\E n \in Migrations : n < 1
  BY DEF Migrations
<1>9. SessionSound'
  BY <1>3, <1>6, <1>7, <1>8 DEF SessionSound
<1> QED BY <1>1, <1>4, <1>9, HolderKeeps DEF MigrationInv, MigrationTypes

LEMMA SkipStep ==
  ASSUME MigrationInv, SkipApplied
  PROVE  MigrationInv'
<1> DEFINE m == session.at
<1>1. HolderOnly /\ m \in Migrations /\ session' = [session EXCEPT !.at = m + 1]
  BY DEF SkipApplied, HolderOnly
<1>2. session \in Sessions
  BY DEF MigrationInv, MigrationTypes
<1>3. /\ session'.at = m + 1 /\ session'.rows = session.rows
      /\ session'.objects = session.objects
  BY <1>1, <1>2 DEF Sessions
<1>4. m \in Nat /\ m > 0 /\ m + 1 \in 0 .. (MaxMigration + 1)
  BY <1>1, MigrationsAssumption DEF Migrations
<1>5. session' \in Sessions
  BY <1>1, <1>2, <1>4 DEF Sessions
<1>6. /\ BlockingRows(rows) = {} /\ InOrder(session.rows) /\ Backed(session.rows, session.objects)
      /\ \A n \in Migrations : n < m => session.rows[n].status = "APPLIED"
  BY <1>1, <1>4 DEF MigrationInv, SessionSound
<1>7. session.rows[m].status = "APPLIED"
  BY DEF SkipApplied, Current
<1>8. \A n \in Migrations : n < m + 1 => session.rows[n].status = "APPLIED"
  BY <1>4, <1>6, <1>7 DEF Migrations
<1>9. InOrder(session.rows)' /\ Backed(session.rows, session.objects)'
  BY <1>1, <1>3, <1>6, NeededStays DEF InOrder, Backed, HolderOnly
<1>10. SessionSound'
  BY <1>1, <1>3, <1>6, <1>8, <1>9, HolderKeeps DEF SessionSound
<1> QED BY <1>1, <1>5, <1>10, HolderKeeps DEF MigrationInv, MigrationTypes

\* The holder writes the row of the migration he is at; its predecessors are
\* applied and it is not.
LEMMA RowStep ==
  ASSUME MigrationInv, HolderOnly, NEW m \in Migrations, m = session.at,
         session.rows[m].status # "APPLIED",
         NEW row \in MigrationRow, NEW made \in SUBSET Things, NEW next \in {m, m + 1, MaxMigration + 1},
         session' = [session EXCEPT !.rows = [session.rows EXCEPT ![m] = row],
                                    !.objects = made, !.at = next],
         session.objects \subseteq made,
         row.status = "APPLIED" => Needed(m) \subseteq made,
         next = m + 1 => row.status = "APPLIED" \/ next \notin Migrations
  PROVE  MigrationInv'
<1> DEFINE table == [session.rows EXCEPT ![m] = row]
<1>1. session \in Sessions
  BY DEF MigrationInv, MigrationTypes
<1>2. m \in Nat /\ m > 0 /\ m <= MaxMigration /\ MaxMigration \in Nat
  BY MigrationsAssumption DEF Migrations
<1>3. /\ BlockingRows(rows) = {} /\ InOrder(session.rows) /\ Backed(session.rows, session.objects)
      /\ \A n \in Migrations : n < m => session.rows[n].status = "APPLIED"
  BY <1>2 DEF MigrationInv, SessionSound
<1>4. session.rows \in Tables
  BY <1>1 DEF Sessions
<1>5. /\ table \in Tables /\ InOrder(table) /\ table[m] = row
      /\ \A n \in Migrations : n # m => table[n] = session.rows[n]
  BY <1>3, <1>4, OneRow
<1> HIDE DEF table
<1>6. next \in 0 .. (MaxMigration + 1)
  BY <1>2
<1>7. session' = [session EXCEPT !.rows = table, !.objects = made, !.at = next]
  BY DEF table
<1>8. session'.rows = table /\ session'.objects = made /\ session'.at = next
  BY <1>1, <1>7 DEF Sessions
<1>9. session' \in Sessions
  BY <1>1, <1>5, <1>6, <1>7 DEF Sessions
<1>10. Backed(table, made)
  BY <1>3, <1>5 DEF Backed
<1>11. InOrder(session.rows)' /\ Backed(session.rows, session.objects)'
  <2>1. InOrder(session.rows)'
    BY <1>5, <1>8 DEF InOrder
  <2>2. \A k : Needed(k)' = Needed(k)
    BY NeededStays DEF HolderOnly
  <2>3. Backed(session.rows, session.objects)'
    BY <1>8, <1>10, <2>2 DEF Backed
  <2> QED BY <2>1, <2>3
<1>12. ASSUME next \in Migrations, NEW n \in Migrations, n < next
       PROVE  table[n].status = "APPLIED"
  <2>1. next = m \/ next = m + 1
    BY <1>2, <1>12 DEF Migrations
  <2>2. n < m \/ (n = m /\ next = m + 1)
    BY <1>2, <1>12, <2>1 DEF Migrations
  <2>3. CASE n < m
    BY <1>2, <1>3, <1>5, <2>3
  <2>4. CASE n = m /\ next = m + 1
    BY <1>5, <1>12, <2>4
  <2> QED BY <2>2, <2>3, <2>4
<1>13. SessionSound'
  BY <1>3, <1>8, <1>11, <1>12, HolderKeeps DEF SessionSound
<1> QED BY <1>9, <1>13, HolderKeeps DEF MigrationInv, MigrationTypes

LEMMA NeededIsMade ==
  ASSUME NEW m \in Migrations
  PROVE  Needed(m) \subseteq Effects(m)
BY MigrationsAssumption DEF Needed

LEMMA DdlStep ==
  ASSUME MigrationInv, MarkApplying \/ RunDdl \/ FailDdl
  PROVE  MigrationInv'
<1> DEFINE m == session.at
<1>1. session \in Sessions /\ session.rows \in Tables /\ session.objects \in SUBSET Things
  BY DEF MigrationInv, MigrationTypes, Sessions
<1>2. HolderOnly /\ m \in Migrations
  BY DEF MarkApplying, RunDdl, FailDdl, HolderOnly
<1>3. session.rows[m] \in MigrationRow
  BY <1>1, <1>2 DEF Tables
<1>4. m \in Nat /\ MaxMigration \in Nat
  BY <1>2, MigrationsAssumption DEF Migrations
<1>5. CASE MarkApplying
  <2> DEFINE row == [status |-> "APPLYING", same |-> m \notin session.edited, reason |-> FALSE,
                     manifest |-> Probes(m) # {}]
  <2>1. row \in MigrationRow /\ row.status = "APPLYING"
    BY DEF MigrationRow, RowStatuses
  <2>2. session' = [session EXCEPT !.rows = [session.rows EXCEPT ![m] = row]]
    BY <1>1, <1>5 DEF MarkApplying, Sessions
  <2> HIDE DEF row
  <2>3. session' = [session EXCEPT !.rows = [session.rows EXCEPT ![m] = row],
                                   !.objects = session.objects, !.at = m]
    BY <1>1, <2>2 DEF Sessions
  <2>4. session.rows[m].status # "APPLIED"
    BY <1>5 DEF MarkApplying, Current
  <2>5. m # m + 1
    BY <1>4
  <2> QED BY <1>1, <1>2, <2>1, <2>3, <2>4, <2>5, RowStep
<1>6. CASE RunDdl
  <2> DEFINE row == [session.rows[m] EXCEPT !.status = "APPLIED"]
             made == session.objects \cup Effects(m)
  <2>1. row \in MigrationRow /\ row.status = "APPLIED"
    BY <1>3 DEF MigrationRow, RowStatuses
  <2>2. session' = [session EXCEPT !.rows = [session.rows EXCEPT ![m] = row],
                                   !.objects = made, !.at = m + 1]
    BY <1>1, <1>2, <1>6 DEF RunDdl, Sessions, Tables
  <2>3. session.rows[m].status # "APPLIED"
    BY <1>6 DEF RunDdl, Current
  <2>4. made \in SUBSET Things /\ session.objects \subseteq made /\ Effects(m) \subseteq made
    BY <1>1, <1>2 DEF Things
  <2>5. Needed(m) \subseteq made
    BY <1>2, <2>4, NeededIsMade
  <2> HIDE DEF row, made
  <2> QED BY <1>1, <1>2, <2>1, <2>2, <2>3, <2>4, <2>5, RowStep
<1>7. CASE FailDdl
  <2> DEFINE row == [session.rows[m] EXCEPT !.status = "DIRTY", !.reason = TRUE]
  <2>1. row \in MigrationRow /\ row.status = "DIRTY"
    BY <1>3 DEF MigrationRow, RowStatuses
  <2>2. session' = [session EXCEPT !.rows = [session.rows EXCEPT ![m] = row], !.at = MaxMigration + 1]
    BY <1>1, <1>2, <1>7 DEF FailDdl, AfterFailure, Sessions, Tables
  <2> HIDE DEF row
  <2>3. session' = [session EXCEPT !.rows = [session.rows EXCEPT ![m] = row],
                                   !.objects = session.objects, !.at = MaxMigration + 1]
    BY <1>1, <2>2 DEF Sessions
  <2>4. session.rows[m].status # "APPLIED"
    BY <1>7 DEF FailDdl, Current
  <2>5. MaxMigration + 1 \notin Migrations
    BY <1>4 DEF Migrations
  <2> QED BY <1>1, <1>2, <2>1, <2>3, <2>4, <2>5, RowStep
<1> QED BY <1>5, <1>6, <1>7

LEMMA CommitStep ==
  ASSUME MigrationInv, CommitLease
  PROVE  MigrationInv'
<1>1. /\ rows' = session.rows /\ objects' = session.objects /\ session' = Idle
      /\ UNCHANGED audit /\ session.at > 0
  BY MigrationsAssumption DEF CommitLease, MigrationInv, MigrationTypes, Sessions
<1>2. rows' \in Tables /\ objects' \subseteq Things
  BY <1>1 DEF MigrationInv, MigrationTypes, Sessions
<1>3. InOrder(rows)' /\ Backed(rows, objects)'
  BY <1>1, NeededStays DEF MigrationInv, SessionSound, InOrder, Backed
<1>4. Idle \in Sessions /\ Idle.at = 0
  BY MigrationsAssumption DEF Idle, Sessions, Tables, Missing, MigrationRow, RowStatuses
<1>5. SessionSound'
  BY <1>1, <1>4 DEF SessionSound
<1> QED BY <1>1, <1>2, <1>3, <1>4, <1>5 DEF MigrationInv, MigrationTypes

-----------------------------------------------------------------------------
(* The steps between runs                                                  *)

\* An attempt at a recovery: what it does when it succeeds and when it does not.
Attempted(m, table, success) ==
  /\ session.at = 0
  /\ audit' = Append(audit, [migration |-> m, success |-> success])
  /\ UNCHANGED <<objects, session>>
  /\ table \in Tables /\ \A n \in Migrations : table[n].status = rows[n].status
  /\ rows' = IF success THEN [table EXCEPT ![m] = [@ EXCEPT !.status = "APPLIED", !.reason = FALSE]]
                        ELSE table
  /\ success => rows[m].status \in Blocking /\ Probes(m) \subseteq objects

LEMMA RecoverCases ==
  ASSUME MigrationInv, NEW m \in Migrations, NEW s \in Blocking, NEW r \in BOOLEAN,
         NEW e \in BOOLEAN, RecoverDirty(m, s, r, e)
  PROVE  \E success \in BOOLEAN : Attempted(m, Upgraded, success)
<1> DEFINE success == /\ Upgraded[m].status = s /\ Upgraded[m].reason = r
                      /\ Upgraded[m].same = ~e
                      /\ ManifestMatches(m, Upgraded[m])
                      /\ ProbesHold(m)
<1>1. Upgraded \in Tables /\ \A n \in Migrations : Upgraded[n].status = rows[n].status
  BY UpgradedRows DEF MigrationInv, MigrationTypes
<1>2. success \in BOOLEAN
  OBVIOUS
<1>3. success => rows[m].status \in Blocking /\ Probes(m) \subseteq objects
  BY <1>1 DEF ProbesHold
<1>4. /\ session.at = 0
      /\ rows' = IF success THEN [Upgraded EXCEPT ![m] = [@ EXCEPT !.status = "APPLIED", !.reason = FALSE]]
                            ELSE Upgraded
      /\ audit' = Append(audit, [migration |-> m, success |-> success])
      /\ UNCHANGED <<objects, session>>
  BY DEF RecoverDirty
<1> HIDE DEF success
<1>5. Attempted(m, Upgraded, success)
  BY <1>1, <1>3, <1>4 DEF Attempted
<1> QED BY <1>2, <1>5

\* The audit grows by the attempt.
LEMMA AuditGrows ==
  ASSUME audit \in Seq([migration : Migrations, success : BOOLEAN]),
         NEW x \in [migration : Migrations, success : BOOLEAN], audit' = Append(audit, x)
  PROVE  /\ audit' \in Seq([migration : Migrations, success : BOOLEAN])
         /\ SubSeq(audit', 1, Len(audit)) = audit
         /\ Recovered' = Recovered \cup (IF x.success THEN {x.migration} ELSE {})
<1> DEFINE n == Len(audit)  S == [migration : Migrations, success : BOOLEAN]
<1>1. /\ audit' \in Seq(S) /\ n \in Nat /\ DOMAIN audit = 1 .. n /\ DOMAIN audit' = 1 .. (n + 1)
      /\ \A i \in 1 .. n : audit'[i] = audit[i]
      /\ audit'[n + 1] = x
  BY AppendProperties, LenProperties
<1>2. SubSeq(audit', 1, n) = audit
  BY <1>1
<1>3. ASSUME NEW m
      PROVE  m \in Recovered' <=> (m \in Recovered \/ (x.success /\ m = x.migration))
  <2>1. m \in Recovered' <=> \E i \in 1 .. (n + 1) : audit'[i].success /\ m = audit'[i].migration
    BY <1>1 DEF Recovered
  <2>2. m \in Recovered <=> \E i \in 1 .. n : audit[i].success /\ m = audit[i].migration
    BY <1>1 DEF Recovered
  <2>3. \A i \in 1 .. (n + 1) : i \in 1 .. n \/ i = n + 1
    BY <1>1
  <2>4. n + 1 \in 1 .. (n + 1) /\ 1 .. n \subseteq 1 .. (n + 1)
    BY <1>1
  <2> QED BY <1>1, <2>1, <2>2, <2>3, <2>4
<1> QED BY <1>1, <1>2, <1>3

LEMMA AttemptStep ==
  ASSUME MigrationInv, NEW m \in Migrations, NEW table, NEW success \in BOOLEAN,
         Attempted(m, table, success)
  PROVE  MigrationInv'
<1> DEFINE x == [migration |-> m, success |-> success]
           row == [table[m] EXCEPT !.status = "APPLIED", !.reason = FALSE]
<1>1. /\ table \in Tables /\ \A n \in Migrations : table[n].status = rows[n].status
      /\ session.at = 0 /\ UNCHANGED <<objects, session>> /\ audit' = Append(audit, x)
      /\ success => rows[m].status \in Blocking /\ Probes(m) \subseteq objects
  BY DEF Attempted
<1>2. /\ x \in [migration : Migrations, success : BOOLEAN]
      /\ x.success = success /\ x.migration = m
  OBVIOUS
<1>3. /\ audit' \in Seq([migration : Migrations, success : BOOLEAN])
      /\ Recovered' = Recovered \cup (IF success THEN {m} ELSE {})
  <2> HIDE DEF x
  <2> QED BY <1>1, <1>2, AuditGrows DEF MigrationInv, MigrationTypes
<1>4. InOrder(table) /\ Backed(table, objects)
  BY <1>1, SameStatuses DEF MigrationInv
<1>5. SessionSound' /\ session' \in Sessions /\ objects' \subseteq Things
  BY <1>1 DEF SessionSound, MigrationInv, MigrationTypes
<1>6. CASE ~success
  <2>1. rows' = table
    BY <1>6 DEF Attempted
  <2>2. \A k : Needed(k)' = Needed(k)
    BY <1>3, <1>6 DEF Needed
  <2>3. InOrder(rows)' /\ Backed(rows, objects)'
    BY <1>1, <1>4, <2>1, <2>2 DEF InOrder, Backed
  <2> QED BY <1>1, <1>3, <1>5, <2>1, <2>3 DEF MigrationInv, MigrationTypes
<1>7. CASE success
  <2>1. rows' = [table EXCEPT ![m] = row]
    BY <1>1, <1>7 DEF Attempted, Tables
  <2>2. row \in MigrationRow /\ row.status = "APPLIED"
    BY <1>1 DEF Tables, MigrationRow, RowStatuses
  <2> HIDE DEF row
  <2>3. table[m].status # "APPLIED" /\ table[m].status # "NONE"
    BY <1>1, <1>7 DEF Blocking
  <2>4. \A n \in Migrations : n < m => table[n].status = "APPLIED"
    BY <1>4, <2>3 DEF InOrder
  <2>5. /\ rows' \in Tables /\ InOrder(rows') /\ rows'[m] = row
        /\ \A n \in Migrations : n # m => rows'[n] = table[n]
    <3> DEFINE t == [table EXCEPT ![m] = row]
    <3>1. /\ t \in Tables /\ InOrder(t) /\ t[m] = row
          /\ \A n \in Migrations : n # m => t[n] = table[n]
      BY <1>1, <1>4, <2>2, <2>3, <2>4, OneRow
    <3>2. rows' = t
      BY <2>1
    <3> HIDE DEF t
    <3> QED BY <3>1, <3>2
  <2>6. InOrder(rows)'
    BY <2>5 DEF InOrder
  <2>7. Needed(m)' = Probes(m) /\ \A n \in Migrations : n # m => Needed(n)' = Needed(n)
    BY <1>3, <1>7 DEF Needed
  <2>8. Backed(rows, objects)'
    BY <1>1, <1>4, <1>7, <2>5, <2>7 DEF Backed
  <2> QED BY <1>3, <1>5, <2>5, <2>6, <2>8 DEF MigrationInv, MigrationTypes
<1> QED BY <1>6, <1>7

LEMMA UpgradeStep ==
  ASSUME MigrationInv, UpgradeControlSchema
  PROVE  MigrationInv' /\ \A m \in Migrations : rows'[m].status = rows[m].status
<1>1. /\ session.at = 0 /\ rows' = Upgraded
      /\ UNCHANGED <<objects, audit, session>>
  BY DEF UpgradeControlSchema
<1>2. rows' \in Tables /\ \A m \in Migrations : rows'[m].status = rows[m].status
  BY <1>1, UpgradedRows DEF MigrationInv, MigrationTypes
<1>3. InOrder(rows')
  BY <1>2, SameStatuses DEF MigrationInv
<1>4. Backed(rows', objects)
  BY <1>2, SameStatuses DEF MigrationInv
<1>5. InOrder(rows)' /\ Backed(rows, objects)'
  BY <1>1, <1>3, <1>4, NeededStays DEF InOrder, Backed
<1>6. SessionSound'
  BY <1>1 DEF SessionSound
<1> QED BY <1>1, <1>2, <1>5, <1>6 DEF MigrationInv, MigrationTypes

LEMMA RepairStep ==
  ASSUME MigrationInv, NEW m \in BlockingRows(rows), NEW o \in Effects(m), Repair(o)
  PROVE  MigrationInv'
<1>1. /\ session.at = 0 /\ objects' = objects \cup {o} /\ UNCHANGED <<format, rows, audit, session>>
  BY DEF Repair
<1>2. objects' \subseteq Things
  BY <1>1 DEF MigrationInv, MigrationTypes, Things, BlockingRows
<1>3. InOrder(rows)' /\ Backed(rows, objects)'
  BY <1>1, NeededStays DEF MigrationInv, InOrder, Backed
<1>4. SessionSound'
  BY <1>1 DEF SessionSound
<1> QED BY <1>1, <1>2, <1>3, <1>4 DEF MigrationInv, MigrationTypes

-----------------------------------------------------------------------------
(* The theorems                                                            *)

LEMMA MigrationsStart == MigrationInit => MigrationInv
<1> SUFFICES ASSUME MigrationInit PROVE MigrationInv
  OBVIOUS
<1>1. PICK k \in 0 .. MaxMigration, last \in Expressible(format), r \in BOOLEAN,
           extra \in SUBSET Effects(MaxMigration) :
       /\ k = 0 \/ format \notin {"NONE", "UNKNOWN"}
       /\ rows = [m \in Migrations |->
            IF m > k THEN Missing
            ELSE [Missing EXCEPT !.status = IF m = k THEN last ELSE "APPLIED",
                    !.reason = m = k /\ last = "DIRTY" /\ r /\ format \in {"CURRENT", "dirty_flag"},
                    !.manifest = format = "CURRENT" /\ Probes(m) # {}]]
       /\ objects = (IF k = MaxMigration THEN extra ELSE {})
                 \cup UNION {Effects(m) : m \in {n \in Migrations : rows[n].status = "APPLIED"}}
  BY DEF MigrationInit
<1>2. last \in RowStatuses
  BY DEF Expressible, RowStatuses
<1>3. /\ k \in Nat /\ MaxMigration \in Nat /\ MaxMigration \in Migrations /\ Migrations \subseteq Nat
  BY MigrationsAssumption DEF Migrations
<1>4. \A m \in Migrations : rows[m].status = IF m > k THEN "NONE" ELSE IF m = k THEN last ELSE "APPLIED"
  BY <1>1 DEF Missing
<1>5. rows \in Tables
  <2>1. \A m \in Migrations : rows[m] \in MigrationRow
    BY <1>1, <1>2 DEF Missing, MigrationRow, RowStatuses
  <2> QED BY <1>1, <2>1 DEF Tables
<1>6. objects \subseteq Things
  <2> DEFINE A == UNION {Effects(m) : m \in {n \in Migrations : rows[n].status = "APPLIED"}}
             B == IF k = MaxMigration THEN extra ELSE {}
  <2>1. A \subseteq Things /\ B \subseteq Things
    BY <1>3 DEF Things
  <2>2. objects = B \cup A
    BY <1>1
  <2> HIDE DEF A, B
  <2> QED BY <2>1, <2>2
<1>7. audit = <<>> /\ session = Idle /\ Recovered = {}
  <2>1. audit = <<>> /\ session = Idle
    BY DEF MigrationInit
  <2>2. DOMAIN audit = {}
    BY <2>1
  <2> QED BY <2>1, <2>2 DEF Recovered
<1>8. session \in Sessions /\ session.at = 0
  BY <1>7, MigrationsAssumption DEF Idle, Sessions, Tables, Missing, MigrationRow, RowStatuses
<1>9. InOrder(rows)
  BY <1>3, <1>4 DEF InOrder
<1>10. Backed(rows, objects)
  <2>1. \A m \in Migrations : Needed(m) = Effects(m)
    BY <1>7 DEF Needed
  <2> QED BY <1>1, <2>1 DEF Backed
<1> QED BY <1>5, <1>6, <1>7, <1>8, <1>9, <1>10 DEF MigrationInv, MigrationTypes, SessionSound

LEMMA MigrationsStep == MigrationInv /\ [MigrationNext]_migrationVars => MigrationInv'
<1> SUFFICES ASSUME MigrationInv, [MigrationNext]_migrationVars PROVE MigrationInv'
  OBVIOUS
<1>1. CASE UNCHANGED migrationVars
  <2>1. HolderOnly /\ UNCHANGED session
    BY <1>1 DEF migrationVars, HolderOnly
  <2>2. SessionSound'
    BY <2>1, HolderKeeps, NeededStays DEF MigrationInv, SessionSound, InOrder, Backed, HolderOnly
  <2> QED BY <2>1, <2>2, HolderKeeps DEF MigrationInv, MigrationTypes
<1>2. CASE ChecksumMismatch \/ LoseLease
  BY <1>2, IdleKeeps DEF ChecksumMismatch, LoseLease, HolderOnly
<1>3. ASSUME NEW m \in Migrations, NEW s \in Blocking, NEW r \in BOOLEAN, NEW e \in BOOLEAN,
             RecoverDirty(m, s, r, e)
      PROVE  MigrationInv'
  BY <1>3, RecoverCases, AttemptStep
<1> QED
  BY <1>1, <1>2, <1>3, BeginStep, SkipStep, DdlStep, CommitStep, UpgradeStep, RepairStep
     DEF MigrationNext

\* However runs fail, die and are recovered, a migration reads APPLIED only when
\* every earlier one does and its objects, or those a recovery probed, are there.
THEOREM AppliedMigrationsAreBacked == MigrationSpec => []AppliedIsBacked
<1>1. MigrationInv => AppliedIsBacked
  <2> SUFFICES ASSUME MigrationInv, NEW m \in Migrations, rows[m].status = "APPLIED"
               PROVE  /\ \A n \in 1 .. m : rows[n].status = "APPLIED"
                      /\ (IF m \in Recovered THEN Probes(m) ELSE Effects(m)) \subseteq objects
    BY DEF AppliedIsBacked
  <2>1. Needed(m) \subseteq objects
    BY DEF MigrationInv, Backed
  <2>2. \A n \in Migrations : n < m => rows[n].status = "APPLIED"
    BY DEF MigrationInv, InOrder
  <2>3. \A n \in 1 .. m : n \in Migrations /\ (n < m \/ n = m)
    BY MigrationsAssumption DEF Migrations
  <2> QED BY <2>1, <2>2, <2>3 DEF Needed
<1> QED BY <1>1, MigrationsStart, MigrationsStep, PTL DEF MigrationSpec

\* What one step may do to an unfinished migration and to the audit.
Unblocks ==
  /\ \A m \in Migrations : rows[m].status \in Blocking /\ rows'[m].status = "APPLIED"
       => audit' = Append(audit, [migration |-> m, success |-> TRUE])
  /\ \A m \in Migrations : rows[m].status \in Blocking => rows'[m].status # "NONE"
  /\ SubSeq(audit', 1, Len(audit)) = audit

LEMMA UnblocksStep ==
  ASSUME MigrationInv, [MigrationNext]_migrationVars
  PROVE  Unblocks
<1>1. ASSUME UNCHANGED audit
      PROVE  SubSeq(audit', 1, Len(audit)) = audit
  BY <1>1 DEF MigrationInv, MigrationTypes
<1>2. ASSUME UNCHANGED audit, \A m \in Migrations : rows'[m].status = rows[m].status
      PROVE  Unblocks
  BY <1>1, <1>2 DEF Unblocks, Blocking
<1>3. ASSUME UNCHANGED <<rows, audit>>
      PROVE  Unblocks
  BY <1>2, <1>3
<1>4. CASE CommitLease
  <2>1. session.at > 0 /\ UNCHANGED audit
    BY <1>4, MigrationsAssumption DEF CommitLease, MigrationInv, MigrationTypes, Sessions
  <2>2. BlockingRows(rows) = {}
    BY <2>1 DEF MigrationInv, SessionSound
  <2> QED BY <1>1, <2>1, <2>2 DEF Unblocks, BlockingRows
<1>5. ASSUME NEW k \in Migrations, NEW s \in Blocking, NEW r \in BOOLEAN, NEW e \in BOOLEAN,
             RecoverDirty(k, s, r, e)
      PROVE  Unblocks
  <2>1. PICK success \in BOOLEAN : Attempted(k, Upgraded, success)
    BY <1>5, RecoverCases
  <2> DEFINE x == [migration |-> k, success |-> success]  table == Upgraded
  <2> HIDE DEF table
  <2>2. /\ table \in Tables /\ \A n \in Migrations : table[n].status = rows[n].status
        /\ audit' = Append(audit, x)
        /\ ~success => rows' = table
    BY <2>1 DEF Attempted, table
  <2>3. x \in [migration : Migrations, success : BOOLEAN]
    OBVIOUS
  <2>4. SubSeq(audit', 1, Len(audit)) = audit
    <3> HIDE DEF x
    <3> QED BY <2>2, <2>3, AuditGrows DEF MigrationInv, MigrationTypes
  <2>5. success => /\ rows'[k].status = "APPLIED"
                   /\ \A n \in Migrations : n # k => rows'[n].status = rows[n].status
    BY <2>1, <2>2 DEF Attempted, table, Tables, MigrationRow
  <2>6. CASE success
    <3>1. x = [migration |-> k, success |-> TRUE]
      BY <2>6
    <3> QED BY <2>2, <2>4, <2>5, <2>6, <3>1 DEF Unblocks, Blocking
  <2>7. CASE ~success
    BY <2>2, <2>4, <2>7 DEF Unblocks, Blocking
  <2> QED BY <2>6, <2>7
<1>6. CASE UpgradeControlSchema
  BY <1>2, <1>6, UpgradeStep DEF UpgradeControlSchema
<1>7. CASE SkipApplied \/ ChecksumMismatch \/ MarkApplying \/ RunDdl \/ FailDdl \/ LoseLease
  BY <1>3, <1>7 DEF SkipApplied, ChecksumMismatch, MarkApplying, RunDdl, FailDdl, LoseLease
<1>8. ASSUME NEW edited, BeginMigrate(edited)
      PROVE  Unblocks
  BY <1>3, <1>8 DEF BeginMigrate
<1>9. ASSUME NEW o, Repair(o)
      PROVE  Unblocks
  BY <1>3, <1>9 DEF Repair
<1>10. CASE UNCHANGED migrationVars
  BY <1>3, <1>10 DEF migrationVars
<1> QED BY <1>4, <1>5, <1>6, <1>7, <1>8, <1>9, <1>10 DEF MigrationNext

\* An unfinished migration becomes APPLIED by an audited recovery and by nothing
\* else: a run holds the lease only over a table in which nothing blocks.
THEOREM OnlyRecoveryUnblocks == MigrationSpec => OnlyAuditedRecoveryUnblocks
<1>1. MigrationInv /\ [MigrationNext]_migrationVars
      => [/\ \A m \in Migrations : rows[m].status \in Blocking /\ rows'[m].status = "APPLIED"
               => audit' = Append(audit, [migration |-> m, success |-> TRUE])
          /\ \A m \in Migrations : rows[m].status \in Blocking => rows'[m].status # "NONE"
          /\ SubSeq(audit', 1, Len(audit)) = audit]_migrationVars
  BY UnblocksStep DEF Unblocks
<1> QED BY <1>1, MigrationsStart, MigrationsStep, PTL DEF MigrationSpec, OnlyAuditedRecoveryUnblocks

-----------------------------------------------------------------------------
(* DatabaseControl.  That a file which is served is whole is a fact about  *)
(* sqliteCatalogMatches and holds of every file there could be.  That the  *)
(* recognisers agree does not: only some of them look at the timestamps of *)
(* the row, so it takes the invariant that a row is READY only with its    *)
(* timestamps as they were written.                                        *)

CatalogObjects == LegacyObjects(LegacyTop) \cup OfficialObjects(1 .. Official + 1) \cup Matrix
ControlRow == [version : Nat, last : Nat, checksum : Nat,
               state : {"NONE", "READY", "RECOVERY_REQUIRED"}, iso : BOOLEAN]
Files == [history : {Without} \cup 1 .. LegacyTop, journal : {Without} \cup 1 .. Official + 1,
          row : ControlRow, objects : SUBSET CatalogObjects]

\* A row that is READY has timestamps that print as they were written.
ReadyRowsAreIso == database.row.state = "READY" => database.row.iso

ControlInv == database \in Files /\ ReadyRowsAreIso

-----------------------------------------------------------------------------
\* There is a legacy version and an official migration.
LEMMA Numbers ==
  /\ LegacyTop \in Nat /\ LegacyTop >= 1
  /\ Official \in Nat /\ Official >= 1
BY CatalogAssumption

\* A row this program writes is a row of the control table, with its timestamps.
LEMMA Rows ==
  ASSUME NEW v \in Nat, NEW last \in Nat
  PROVE  Row(v, last) \in ControlRow /\ Row(v, last).iso = TRUE
BY DEF Row, ControlRow

\* The id of an official migration is a number.
LEMMA OfficialIds == \A n \in Nat : OfficialId(n) \in Nat
BY Numbers DEF OfficialId

\* A missing row is not READY.
LEMMA NoRowIsRow == NoRow \in ControlRow /\ NoRow.state # "READY"
BY DEF NoRow, ControlRow

\* What a legacy version makes is among the objects.
LEMMA LegacyCatalog ==
  ASSUME NEW v \in 1 .. LegacyTop
  PROVE  LegacyObjects(v) \subseteq CatalogObjects /\ <<"legacy", v>> \in CatalogObjects
<1>1. 1 .. v \subseteq 1 .. LegacyTop
  BY Numbers
<1> QED BY <1>1, Numbers DEF LegacyObjects, CatalogObjects

\* What official migrations make is among the objects.
LEMMA OfficialCatalog ==
  ASSUME NEW S \in SUBSET (1 .. Official + 1)
  PROVE  OfficialObjects(S) \subseteq CatalogObjects
BY DEF OfficialObjects, CatalogObjects

-----------------------------------------------------------------------------
\* Whatever an exception lets stay or go, the catalog that is compared lacks
\* nothing that is expected, provided what is expected is the program's own.
LEMMA ToleratedIsWhole ==
  ASSUME NEW actual, NEW expected, Tolerated(actual, expected)
  PROVE  expected \subseteq actual
<1> DEFINE historical == expected \cap Named(Computation) = {} /\ actual \cap Named(Computation) # {}
           Comparable(S) == IF historical THEN S \ Named(Computation) ELSE S
           a == Comparable(actual)
           current == Comparable(CurrentCatalog)
           later == SuffixNames \ Named(Authority)
           wholeSuffix == a \cap SuffixNames = current \cap SuffixNames
           noAuthority == (expected \cup a) \cap Named(Authority) = {}
                          /\ a \cap later = current \cap later
<1>1. \/ actual = expected
      \/ historical /\ a = expected
      \/ (wholeSuffix \/ noAuthority) /\ a \ SuffixNames = expected \ SuffixNames
      \/ ~wholeSuffix /\ ~noAuthority /\ Matrix \subseteq a /\ a \ Matrix = expected
  BY DEF Tolerated
<1>2. a \subseteq actual
  OBVIOUS
<1>3. SuffixNames \subseteq CurrentCatalog
  <2>1. Authority \cup Computation \cup Statement \subseteq 1 .. Official
    BY CatalogAssumption
  <2> QED BY <2>1 DEF SuffixNames, CurrentCatalog, Named, OfficialObjects
<1>4. \A o \in expected : o \in SuffixNames => o \in current \cap SuffixNames
  <2>1. \A o \in expected : historical => o \notin Named(Computation)
    OBVIOUS
  <2> QED BY <1>3, <2>1
<1>5. CASE wholeSuffix /\ a \ SuffixNames = expected \ SuffixNames
  BY <1>2, <1>4, <1>5
<1>6. CASE noAuthority /\ a \ SuffixNames = expected \ SuffixNames
  <2>1. \A o \in expected : o \in SuffixNames => o \in later
    BY <1>6
  <2>2. \A o \in expected : o \in SuffixNames => o \in current \cap later
    BY <1>4, <2>1
  <2>3. a \cap later = current \cap later
    BY <1>6
  <2> HIDE DEF a, current, later
  <2>4. \A o \in expected : o \in SuffixNames => o \in a
    BY <2>2, <2>3
  <2> QED BY <1>2, <1>6, <2>4
<1> QED BY <1>1, <1>2, <1>5, <1>6

\* The same of sqliteCatalogMatches, with its second comparison.
LEMMA MatchingIsWhole ==
  ASSUME NEW actual, NEW expected, CatalogMatches(actual, expected)
  PROVE  expected \subseteq actual
<1>1. CASE Tolerated(actual, expected)
  BY <1>1, ToleratedIsWhole
<1>2. CASE /\ actual \cap Named(Statement) = CurrentCatalog \cap Named(Statement)
           /\ Tolerated(actual \ Named(Statement), expected \ Named(Statement))
  <2>1. expected \ Named(Statement) \subseteq actual \ Named(Statement)
    BY <1>2, ToleratedIsWhole
  <2>2. Named(Statement) \subseteq CurrentCatalog
    <3>1. Statement \subseteq 1 .. Official
      BY CatalogAssumption
    <3> QED BY <3>1 DEF CurrentCatalog, Named, OfficialObjects
  <2>3. Named(Statement) \subseteq actual
    BY <1>2, <2>2
  <2> QED BY <2>1, <2>3
<1> QED BY <1>1, <1>2 DEF CatalogMatches

-----------------------------------------------------------------------------
\* Served by inspect or let in by the gate, a file is whole: this is so of every file there could be.
LEMMA ServedIsWhole ==
  ASSUME NEW f, Inspection(f) = "AVAILABLE" \/ GateAdmits(f)
  PROVE  ExpectedCatalog(Kind(f), f.history, f.journal) \subseteq f.objects
<1>1. CASE Inspection(f) = "AVAILABLE"
  <2>1. HasControlTable(f) /\ IdentityHolds(f)
    BY <1>1 DEF Inspection
  <2> QED BY <2>1, MatchingIsWhole DEF IdentityHolds
<1>2. CASE GateAdmits(f)
  <2>1. CASE Kind(f) = "legacy" /\ LegacyGate(f)
    <3>1. ExpectedCatalog("legacy", LegacyTop, 0) \subseteq f.objects
      BY <2>1, MatchingIsWhole DEF LegacyGate
    <3> QED BY <2>1, <3>1 DEF LegacyGate, ExpectedCatalog
  <2>2. CASE Kind(f) = "drizzle" /\ FreshGate(f)
    <3>1. ExpectedCatalog("drizzle", LegacyTop, f.journal) \subseteq f.objects
      BY <2>2, MatchingIsWhole DEF FreshGate
    <3> QED BY <2>2, <3>1 DEF ExpectedCatalog
  <2>3. CASE Kind(f) = "bridged" /\ BridgedGate(f)
    <3>1. ExpectedCatalog("bridged", LegacyTop, f.journal) \subseteq f.objects
      BY <2>3, MatchingIsWhole DEF BridgedGate
    <3> QED BY <2>3, <3>1 DEF ExpectedCatalog
  <2> QED BY <1>2, <2>1, <2>2, <2>3 DEF GateAdmits
<1> QED BY <1>1, <1>2

-----------------------------------------------------------------------------
\* What a matching catalog of a kind has to have: the control table of that kind.
LEMMA ControlTableIsThere ==
  ASSUME NEW f \in Files,
         \/ Kind(f) = "legacy" /\ f.history = LegacyTop
            /\ CatalogMatches(f.objects, ExpectedCatalog("legacy", LegacyTop, 0))
         \/ Kind(f) = "drizzle" /\ WholeJournal(f)
            /\ CatalogMatches(f.objects, ExpectedCatalog("drizzle", LegacyTop, f.journal))
         \/ Kind(f) = "bridged" /\ WholeJournal(f)
            /\ CatalogMatches(f.objects, ExpectedCatalog("bridged", LegacyTop, f.journal))
  PROVE  HasControlTable(f) /\ ControlTableFits(f)
<1>1. <<"legacy", 1>> \in LegacyObjects(LegacyTop) /\ <<"official", 1>> \in OfficialObjects(1 .. Official)
  BY Numbers DEF LegacyObjects, OfficialObjects
<1>2. CASE Kind(f) = "legacy" /\ CatalogMatches(f.objects, ExpectedCatalog("legacy", LegacyTop, 0))
  <2>1. ExpectedCatalog("legacy", LegacyTop, 0) \subseteq f.objects
    BY <1>2, MatchingIsWhole
  <2> QED BY <1>1, <1>2, <2>1 DEF ExpectedCatalog, HasControlTable, ControlTableFits
<1>3. CASE Kind(f) = "drizzle" /\ WholeJournal(f)
           /\ CatalogMatches(f.objects, ExpectedCatalog("drizzle", LegacyTop, f.journal))
  <2>1. ExpectedCatalog("drizzle", LegacyTop, f.journal) \subseteq f.objects
    BY <1>3, MatchingIsWhole
  <2> QED BY <1>1, <1>3, <2>1 DEF ExpectedCatalog, HasControlTable, ControlTableFits, WholeJournal
<1>4. CASE Kind(f) = "bridged" /\ CatalogMatches(f.objects, ExpectedCatalog("bridged", LegacyTop, f.journal))
  <2>1. ExpectedCatalog("bridged", LegacyTop, f.journal) \subseteq f.objects
    BY <1>4, MatchingIsWhole
  <2> QED BY <1>1, <1>4, <2>1 DEF ExpectedCatalog, HasControlTable, ControlTableFits
<1> QED BY <1>2, <1>3, <1>4

\* The kind of a file is read off its two history tables.
LEMMA Kinds ==
  ASSUME NEW f \in Files
  PROVE  /\ Kind(f) = "legacy" <=> f.journal = Without
         /\ Kind(f) = "drizzle" <=> f.journal # Without /\ f.history = Without
         /\ Kind(f) = "bridged" <=> f.journal # Without /\ f.history # Without
BY DEF Kind

\* What is current, and what is a v8 database nothing was bridged to.
LEMMA ReadyFiles ==
  ASSUME NEW f \in Files
  PROVE  Readiness(f) \in {"READY", "CUSTOM_V8"} <=>
           \/ /\ Kind(f) = "bridged" /\ f.history = LegacyTop /\ WholeJournal(f)
              /\ ExactOfficialPrefix(f, "bridged")
           \/ Kind(f) = "legacy" /\ f.history = LegacyTop /\ ExactLegacy(f)
           \/ Kind(f) = "drizzle" /\ WholeJournal(f) /\ ExactOfficialPrefix(f, "drizzle")
<1> DEFINE empty == f.history = Without /\ f.journal = Without /\ ~HasControlTable(f)
           bridged == Kind(f) = "bridged" /\ f.history = LegacyTop /\ WholeJournal(f)
                      /\ ExactOfficialPrefix(f, "bridged")
           legacy == Kind(f) = "legacy" /\ ExactLegacy(f)
           drizzle == Kind(f) = "drizzle" /\ ExactOfficialPrefix(f, "drizzle")
<1>1. Detected(f) = IF empty THEN "EMPTY" ELSE IF bridged THEN "DRIZZLE_BRIDGED"
                    ELSE IF legacy THEN "LEGACY" ELSE IF drizzle THEN "DRIZZLE_MANAGED" ELSE "UNKNOWN"
  BY DEF Detected
<1>2. empty => ~bridged /\ ~drizzle /\ ~(legacy /\ f.history = LegacyTop)
  <2>1. empty => f.history # LegacyTop
    BY Numbers DEF Without
  <2> QED BY <2>1, Kinds
<1>3. legacy => ~bridged /\ ~drizzle
  BY Kinds
<1>4. bridged => WholeJournal(f) /\ f.row.state = "READY"
  BY DEF ExactOfficialPrefix, ExactControl
<1>5. drizzle => f.row.state = "READY" /\ ~bridged
  BY DEF ExactOfficialPrefix, ExactControl
<1> HIDE DEF empty, bridged, legacy, drizzle
<1>6. /\ Detected(f) = "DRIZZLE_BRIDGED" <=> bridged
      /\ Detected(f) = "DRIZZLE_MANAGED" <=> drizzle
      /\ Detected(f) = "LEGACY" <=> legacy /\ ~empty
  BY <1>1, <1>2, <1>3, <1>5
<1>7. Readiness(f) \in {"READY", "CUSTOM_V8"} <=>
        \/ bridged
        \/ legacy /\ ~empty /\ f.history = LegacyTop
        \/ drizzle /\ WholeJournal(f)
  BY <1>4, <1>5, <1>6 DEF Readiness
<1> QED BY <1>2, <1>7 DEF bridged, legacy, drizzle

\* On a file whose READY row has its timestamps the recognisers agree.
LEMMA RecognisersAgreeOn ==
  ASSUME ControlInv
  PROVE  RecognisersAgree
<1> DEFINE f == database
<1>1. f \in Files /\ (f.row.state = "READY" => f.row.iso)
  BY DEF ControlInv, ReadyRowsAreIso
<1> HIDE DEF f
<1>2. LegacyTop \in 1 .. LegacyTop /\ Official \in 1 .. Official
  BY Numbers
<1>3. WholeJournal(f) => OfficialId(f.journal) = OfficialId(Official)
  BY DEF WholeJournal
<1>4. (Kind(f) = "legacy" /\ f.history = LegacyTop /\ ExactLegacy(f)) <=> (Kind(f) = "legacy" /\ LegacyGate(f))
  <2>1. f.history = LegacyTop => KnownHistory(f)
    BY <1>2 DEF KnownHistory
  <2>2. f.history = LegacyTop => ExpectedCatalog("legacy", f.history, 0) = ExpectedCatalog("legacy", LegacyTop, 0)
    OBVIOUS
  <2>3. f.history = LegacyTop =>
          (ExactControl(f, f.history, f.history) <=>
             f.row.version = LegacyTop /\ f.row.state = "READY" /\ f.row.last = LegacyTop /\ f.row.checksum = LegacyTop)
    BY <1>1 DEF ExactControl, RowIs
  <2> HIDE DEF ExpectedCatalog
  <2> QED BY <2>1, <2>2, <2>3 DEF ExactLegacy, LegacyGate
<1>5. WholeJournal(f) =>
        (ExactControl(f, LegacyTop, OfficialId(f.journal)) <=>
           /\ f.row.version = LegacyTop /\ f.row.state = "READY"
           /\ f.row.last = OfficialId(Official) /\ f.row.checksum = OfficialId(f.journal))
  BY <1>1, <1>3 DEF ExactControl, RowIs
<1>6. WholeJournal(f) => f.journal \in 1 .. Official
  BY <1>2 DEF WholeJournal
<1>7. f.row.state = "READY" => f.row # NoRow
  BY DEF NoRow
<1>8. (WholeJournal(f) /\ ExactOfficialPrefix(f, "drizzle")) <=> FreshGate(f)
  BY <1>3, <1>5, <1>6, <1>7 DEF ExactOfficialPrefix, FreshGate
<1>9. (f.history = LegacyTop /\ WholeJournal(f) /\ ExactOfficialPrefix(f, "bridged")) <=> BridgedGate(f)
  BY <1>3, <1>5, <1>6 DEF ExactOfficialPrefix, BridgedGate
<1>10. \/ Kind(f) = "legacy" /\ LegacyGate(f)
       \/ Kind(f) = "drizzle" /\ FreshGate(f)
       \/ Kind(f) = "bridged" /\ BridgedGate(f)
       => HasControlTable(f) /\ ControlTableFits(f)
  BY <1>1, ControlTableIsThere DEF LegacyGate, FreshGate, BridgedGate
<1>11. GateAdmits(f) <=> Readiness(f) \in {"READY", "CUSTOM_V8"}
  BY <1>1, <1>4, <1>8, <1>9, <1>10, ReadyFiles DEF GateAdmits
<1>12. ASSUME GateAdmits(f) PROVE Inspection(f) = "AVAILABLE" /\ f.row.state = "READY"
  <2>1. HasControlTable(f) /\ ControlTableFits(f)
    BY <1>12 DEF GateAdmits
  <2>2. f.row.state = "READY"
    BY <1>12 DEF GateAdmits, LegacyGate, FreshGate, BridgedGate
  <2>3. CASE Kind(f) = "legacy" /\ LegacyGate(f)
    <3>1. f.history = LegacyTop /\ KnownHistory(f)
      BY <1>2, <2>3 DEF LegacyGate, KnownHistory
    <3>2. ExpectedCatalog(Kind(f), f.history, f.journal) = ExpectedCatalog("legacy", LegacyTop, 0)
      BY <2>3, <3>1 DEF ExpectedCatalog
    <3>3. IdentityHolds(f)
      BY <2>1, <2>3, <3>1, <3>2 DEF IdentityHolds, LegacyGate
    <3>4. RowIs(f.row, f.history, Last(f))
      BY <1>1, <2>2, <2>3, <3>1 DEF RowIs, Last, LegacyGate
    <3> QED BY <1>7, <2>1, <2>2, <2>3, <3>3, <3>4 DEF Inspection
  <2>4. CASE Kind(f) = "drizzle" /\ FreshGate(f)
    <3>1. ExpectedCatalog(Kind(f), f.history, f.journal) = ExpectedCatalog("drizzle", LegacyTop, f.journal)
      BY <2>4 DEF ExpectedCatalog
    <3>2. IdentityHolds(f)
      BY <2>1, <2>4, <3>1 DEF IdentityHolds, FreshGate
    <3>3. RowIs(f.row, LegacyTop, Last(f))
      BY <1>1, <1>3, <2>2, <2>4 DEF RowIs, Last, FreshGate
    <3> QED BY <1>7, <2>1, <2>2, <2>4, <3>2, <3>3 DEF Inspection
  <2>5. CASE Kind(f) = "bridged" /\ BridgedGate(f)
    <3>1. ExpectedCatalog(Kind(f), f.history, f.journal) = ExpectedCatalog("bridged", LegacyTop, f.journal)
      BY <2>5 DEF ExpectedCatalog
    <3>2. IdentityHolds(f)
      BY <2>1, <2>5, <3>1 DEF IdentityHolds, BridgedGate
    <3>3. RowIs(f.row, LegacyTop, Last(f))
      BY <1>1, <2>2, <2>5 DEF RowIs, Last, BridgedGate
    <3> QED BY <1>7, <2>1, <2>2, <2>5, <3>2, <3>3 DEF Inspection
  <2> QED BY <1>12, <2>3, <2>4, <2>5 DEF GateAdmits
<1>13. Protocol \in Protocol .. Protocol
  BY DEF Protocol
<1> QED BY <1>11, <1>12, <1>13 DEF RecognisersAgree, CompatibleReader, CompatibleWriter, f

-----------------------------------------------------------------------------
\* A file made of its four parts.
LEMMA FilesOf ==
  ASSUME NEW h \in {Without} \cup 1 .. LegacyTop, NEW j \in {Without} \cup 1 .. Official + 1,
         NEW row \in ControlRow, NEW S \in SUBSET CatalogObjects
  PROVE  File(h, j, row, S) \in Files
BY DEF File, Files

\* Every file a release left is one.
LEMMA ControlStarts == ControlInit => ControlInv
<1> SUFFICES ASSUME database \in LeftByRelease PROVE ControlInv
  BY DEF ControlInit
<1> USE DEF ControlInv, ReadyRowsAreIso
<1>1. CASE database = EmptyDatabase
  BY <1>1, FilesOf, NoRowIsRow DEF EmptyDatabase, File
<1>2. ASSUME NEW v \in 1 .. LegacyTop, database = File(v, Without, Row(v, v), ExpectedCatalog("legacy", v, 0))
      PROVE  ControlInv
  <2>1. v \in Nat
    OBVIOUS
  <2>2. ExpectedCatalog("legacy", v, 0) \in SUBSET CatalogObjects
    BY LegacyCatalog DEF ExpectedCatalog
  <2>3. database \in Files
    BY <1>2, <2>1, <2>2, FilesOf, Rows
  <2>4. database.row = Row(v, v)
    BY <1>2 DEF File
  <2> QED BY <2>1, <2>3, <2>4, Rows
<1>3. ASSUME NEW j \in 1 .. Official,
             database = File(LegacyTop, j, Row(LegacyTop, OfficialId(j)), ExpectedCatalog("bridged", LegacyTop, j))
      PROVE  ControlInv
  <2>1. j \in 1 .. Official + 1 /\ LegacyTop \in 1 .. LegacyTop /\ OfficialId(j) \in Nat /\ LegacyTop \in Nat
    BY Numbers, OfficialIds
  <2>2. 2 .. j \in SUBSET (1 .. Official + 1)
    BY Numbers
  <2>3. ExpectedCatalog("bridged", LegacyTop, j) \in SUBSET CatalogObjects
    BY <2>1, <2>2, LegacyCatalog, OfficialCatalog DEF ExpectedCatalog
  <2>4. database \in Files
    BY <1>3, <2>1, <2>3, FilesOf, Rows
  <2>5. database.row = Row(LegacyTop, OfficialId(j))
    BY <1>3 DEF File
  <2> QED BY <2>1, <2>4, <2>5, Rows
<1>4. ASSUME NEW j \in 1 .. Official + 1,
             database = File(Without, j, Row(LegacyTop, OfficialId(j)), ExpectedCatalog("drizzle", LegacyTop, j))
      PROVE  ControlInv
  <2>1. OfficialId(j) \in Nat /\ LegacyTop \in Nat
    BY Numbers, OfficialIds
  <2>2. 1 .. j \in SUBSET (1 .. Official + 1)
    BY Numbers
  <2>3. ExpectedCatalog("drizzle", LegacyTop, j) \in SUBSET CatalogObjects
    BY <2>2, OfficialCatalog DEF ExpectedCatalog
  <2>4. database \in Files
    BY <1>4, <2>1, <2>3, FilesOf, Rows
  <2>5. database.row = Row(LegacyTop, OfficialId(j))
    BY <1>4 DEF File
  <2> QED BY <2>1, <2>4, <2>5, Rows
<1> QED BY <1>1, <1>2, <1>3, <1>4 DEF LeftByRelease

\* What a step may write: a file whose row, if it is another one, is READY only with its timestamps.
LEMMA WrittenKeeps ==
  ASSUME NEW f \in Files, database' = f, f.row.state = "READY" => f.row.iso
  PROVE  ControlInv'
BY DEF ControlInv, ReadyRowsAreIso

\* Replacing the row of a file.
LEMMA WrittenRow ==
  ASSUME NEW f \in Files, NEW row \in ControlRow
  PROVE  [f EXCEPT !.row = row] \in Files /\ [f EXCEPT !.row = row].row = row
BY DEF Files

\* Replacing the catalog of a file.
LEMMA WrittenObjects ==
  ASSUME NEW f \in Files, NEW S \in SUBSET CatalogObjects
  PROVE  [f EXCEPT !.objects = S] \in Files /\ [f EXCEPT !.objects = S].row = f.row
BY DEF Files

\* Every write of the program and every edit from outside keep the invariant.
LEMMA ControlStep == ControlInv /\ [ControlNext]_controlVars => ControlInv'
<1> SUFFICES ASSUME ControlInv, [ControlNext]_controlVars PROVE ControlInv'
  OBVIOUS
<1>1. /\ database \in Files
      /\ database.row \in ControlRow /\ database.objects \subseteq CatalogObjects
      /\ database.row.state = "READY" => database.row.iso
  BY DEF ControlInv, ReadyRowsAreIso, Files
<1>2. CASE CreateFoundation
  <2>1. 1 \in 1 .. LegacyTop
    BY Numbers
  <2>5. LegacyObjects(1) \in SUBSET CatalogObjects
    BY <2>1, LegacyCatalog
  <2> DEFINE f == File(1, Without, NoRow, LegacyObjects(1))
  <2>2. f \in Files
    BY <2>1, <2>5, FilesOf, NoRowIsRow
  <2>3. f.row.state # "READY"
    BY NoRowIsRow DEF File
  <2>4. database' = f
    BY <1>2 DEF CreateFoundation, Write
  <2> HIDE DEF f
  <2> QED BY <2>2, <2>3, <2>4, WrittenKeeps
<1>3. CASE InitializeControl
  <2>1. database.history \in Nat
    BY <1>3 DEF InitializeControl, KnownHistory
  <2> DEFINE row == Row(database.history, database.history)
             f == [database EXCEPT !.row = row]
  <2>2. row \in ControlRow /\ row.iso
    BY <2>1, Rows
  <2>3. database' = f
    BY <1>3 DEF InitializeControl, Write
  <2> HIDE DEF row
  <2>4. f \in Files /\ f.row = row
    BY <1>1, <2>2, WrittenRow
  <2> HIDE DEF f
  <2> QED BY <2>2, <2>3, <2>4, WrittenKeeps
<1>4. CASE UpgradeLegacy
  <2> DEFINE v == database.history + 1
             f == [database EXCEPT !.history = v, !.row = Row(v, v), !.objects = @ \cup {<<"legacy", v>>}]
  <2>1. v \in 1 .. LegacyTop
    BY <1>4, Numbers DEF UpgradeLegacy, ExactLegacy, KnownHistory
  <2>2. database' = f
    BY <1>4 DEF UpgradeLegacy, Write
  <2> HIDE DEF v
  <2>3. Row(v, v) \in ControlRow /\ Row(v, v).iso
    <3>1. v \in Nat
      BY <2>1
    <3> QED BY <3>1, Rows
  <2>4. <<"legacy", v>> \in CatalogObjects
    BY <2>1, LegacyCatalog
  <2>5. f \in Files /\ f.row = Row(v, v)
    BY <1>1, <2>1, <2>3, <2>4 DEF Files
  <2> HIDE DEF f
  <2> QED BY <2>2, <2>3, <2>5, WrittenKeeps
<1>5. CASE SeedBaseline
  <2> DEFINE f == [database EXCEPT !.journal = 1]
  <2>1. database' = f
    BY <1>5 DEF SeedBaseline, Write
  <2>2. f \in Files /\ f.row = database.row
    BY <1>1, Numbers DEF Files
  <2> HIDE DEF f
  <2> QED BY <1>1, <2>1, <2>2, WrittenKeeps
<1>6. CASE MigrateJournal
  <2> DEFINE from == IF database.journal = Without THEN 0 ELSE database.journal
             pending == OfficialObjects(from + 1 .. Official)
             f == [database EXCEPT !.journal = Official, !.objects = @ \cup pending]
  <2>1. database' = f
    BY <1>6 DEF MigrateJournal, Write
  <2>2. from \in Nat
    BY <1>1 DEF Files
  <2>3. from + 1 .. Official \in SUBSET (1 .. Official + 1)
    BY <2>2, Numbers
  <2>4. pending \subseteq CatalogObjects
    BY <2>3, OfficialCatalog
  <2> HIDE DEF pending
  <2> DEFINE S == database.objects \cup pending
  <2>5. S \in SUBSET CatalogObjects /\ Official \in 1 .. Official + 1
    BY <1>1, <2>4, Numbers
  <2>6. f = [database EXCEPT !.journal = Official, !.objects = S]
    OBVIOUS
  <2> HIDE DEF S, f
  <2>7. f \in Files /\ f.row = database.row
    BY <1>1, <2>5, <2>6 DEF Files
  <2> QED BY <1>1, <2>1, <2>7, WrittenKeeps
<1>7. CASE InitializeDrizzleControl
  <2> DEFINE plain == Row(LegacyTop, OfficialId(Official))
             row == [plain EXCEPT !.checksum = OfficialId(database.journal)]
             f == [database EXCEPT !.row = row]
  <2>1. database' = f
    BY <1>7 DEF InitializeDrizzleControl, Write
  <2>2. database.journal \in Nat
    BY <1>7 DEF InitializeDrizzleControl
  <2>3. OfficialId(database.journal) \in Nat /\ plain \in ControlRow /\ plain.iso
    BY <2>2, Numbers, OfficialIds, Rows
  <2>4. row \in ControlRow /\ row.iso
    <3> HIDE DEF plain
    <3> QED BY <2>3 DEF ControlRow
  <2> HIDE DEF row
  <2>5. f \in Files /\ f.row = row
    BY <1>1, <2>4, WrittenRow
  <2> HIDE DEF f
  <2> QED BY <2>1, <2>4, <2>5, WrittenKeeps
<1>8. CASE SynchronizeControl
  <2> DEFINE row == Row(LegacyTop, OfficialId(Official))
             f == [database EXCEPT !.row = row]
  <2>1. database' = f
    BY <1>8 DEF SynchronizeControl, Write
  <2>2. row \in ControlRow /\ row.iso
    BY Numbers, OfficialIds, Rows
  <2> HIDE DEF row
  <2>3. f \in Files /\ f.row = row
    BY <1>1, <2>2, WrittenRow
  <2> HIDE DEF f
  <2> QED BY <2>1, <2>2, <2>3, WrittenKeeps
<1>9. CASE MarkRecoveryRequired
  <2> DEFINE f == [database EXCEPT !.row.state = "RECOVERY_REQUIRED", !.row.iso = FALSE]
  <2>1. database' = f
    BY <1>9 DEF MarkRecoveryRequired, Write
  <2>2. f \in Files /\ f.row.state = "RECOVERY_REQUIRED"
    BY <1>1 DEF Files, ControlRow
  <2> HIDE DEF f
  <2> QED BY <2>1, <2>2, WrittenKeeps
<1>10. CASE EnsureCompatibilityTable
  <2> DEFINE S == database.objects \cup Matrix
             f == [database EXCEPT !.objects = S]
  <2>1. database' = f
    BY <1>10 DEF EnsureCompatibilityTable, Write
  <2>2. S \in SUBSET CatalogObjects
    BY <1>1 DEF CatalogObjects
  <2> HIDE DEF S
  <2>3. f \in Files /\ f.row = database.row
    BY <1>1, <2>2, WrittenObjects
  <2> HIDE DEF f
  <2> QED BY <1>1, <2>1, <2>3, WrittenKeeps
<1>11. CASE DropObjects
  <2>1. PICK o \in database.objects : database' = [database EXCEPT !.objects = @ \ {o}]
    BY <1>11 DEF DropObjects
  <2> DEFINE S == database.objects \ {o}
             f == [database EXCEPT !.objects = S]
  <2>2. database' = f /\ S \in SUBSET CatalogObjects
    BY <1>1, <2>1
  <2> HIDE DEF S
  <2>3. f \in Files /\ f.row = database.row
    BY <1>1, <2>2, WrittenObjects
  <2> HIDE DEF f
  <2> QED BY <1>1, <2>2, <2>3, WrittenKeeps
<1>12. CASE RewindJournal
  <2> DEFINE j == database.journal - 1
             row == Row(LegacyTop, OfficialId(j))
             f == [database EXCEPT !.journal = j, !.row = row]
  <2>1. database' = f
    BY <1>12 DEF RewindJournal
  <2>2. j \in 1 .. Official + 1
    BY <1>12, Numbers DEF RewindJournal
  <2> HIDE DEF j
  <2>3. row \in ControlRow /\ row.iso
    <3>1. j \in Nat
      BY <2>2
    <3>2. OfficialId(j) \in Nat /\ LegacyTop \in Nat
      BY <3>1, Numbers, OfficialIds
    <3> QED BY <3>2, Rows
  <2> HIDE DEF row
  <2>4. f \in Files /\ f.row = row
    BY <1>1, <2>2, <2>3 DEF Files
  <2> HIDE DEF f
  <2> QED BY <2>1, <2>3, <2>4, WrittenKeeps
<1>13. CASE UNCHANGED controlVars
  BY <1>13 DEF controlVars, ControlInv, ReadyRowsAreIso
<1> QED BY <1>2, <1>3, <1>4, <1>5, <1>6, <1>7, <1>8, <1>9, <1>10, <1>11, <1>12, <1>13 DEF ControlNext

\* So whatever is in the file, it is whole when it is served.
LEMMA FilesAreWhole == ServedFilesAreWhole
BY ServedIsWhole DEF ServedFilesAreWhole

\* The gate of the session runner, the state detector and inspect agree on
\* every file that any sequence of releases, migrations, failed upgrades and
\* edits can leave, for any number of migrations and of edits.
THEOREM RecognisersHold == ControlSpec => []RecognisersAgree
BY ControlStarts, ControlStep, RecognisersAgreeOn, PTL DEF ControlSpec

\* A file that is served lacks nothing its history stands for, whatever the
\* exceptions of sqliteCatalogMatches forgive: no number of edits gets a file
\* with a partial suffix past inspect or the gate.
THEOREM ServedFilesHold == ControlSpec => []ServedFilesAreWhole
BY FilesAreWhole, PTL DEF ControlSpec

-----------------------------------------------------------------------------
(* Tenancy.  What the triggers and unique indexes say of the rows they are *)
(* fired for is said of every row: after the migration it holds, and no    *)
(* write disturbs the rows it does not touch.  Of an unmigrated database   *)
(* only what the old format promised is known.                             *)

TenantRow == [kind : TenantKinds, lifecycle : {"CREATING", "ACTIVE", "ARCHIVED"}, default : Nat]
BookSetRow == [tenant : Nat, kind : BookSetKinds, name : Names \cup {Unnamed}, lifecycle : {"ACTIVE", "ARCHIVED"}]

TenancyTypes ==
  /\ rules \in {"v2", "v3"}
  /\ tenants \in Seq(TenantRow)
  /\ bookSets \in Seq(BookSetRow)

\* Every BookSet has a tenant that may hold one of its kind.
BooksHaveTheirTenant ==
  \A b \in DOMAIN bookSets :
    bookSets[b].tenant \in DOMAIN tenants /\ MayHold(tenants[bookSets[b].tenant].kind, bookSets[b].kind)

\* A default is a BookSet of the tenant, in either format.
DefaultsAreOwn ==
  \A t \in DOMAIN tenants :
    tenants[t].default # NoBookSet =>
      tenants[t].default \in DOMAIN bookSets /\ bookSets[tenants[t].default].tenant = t

\* Once migrated, the triggers and the unique indexes hold of every row.
TriggersHold ==
  rules = "v3" =>
    /\ \A t \in DOMAIN tenants : AcceptedTenant(t, tenants[t], bookSets)
    /\ \A a, b \in DOMAIN bookSets : a # b => MayCoexist(bookSets[a], bookSets[b])

TenancyInv == TenancyTypes /\ BooksHaveTheirTenant /\ DefaultsAreOwn /\ TriggersHold

\* Both an empty database and any database of the old format satisfy the invariant.
LEMMA TenancyStarts == TenancyInit => TenancyInv
<1> SUFFICES ASSUME TenancyInit PROVE TenancyInv
  OBVIOUS
<1>1. CASE rules = "v3" /\ tenants = <<>> /\ bookSets = <<>>
  BY <1>1 DEF TenancyInv, TenancyTypes, BooksHaveTheirTenant, DefaultsAreOwn, TriggersHold
<1>2. CASE rules = "v2"
  <2>1. PICK n \in 1 .. MaxTenants, m \in 0 .. MaxBookSets - 1 :
          \E t \in [1 .. n -> OldTenants], table \in [1 .. m -> OldBookSets] :
            Old(t, table) /\ tenants = t /\ bookSets = table
    BY <1>2 DEF TenancyInit
  <2>2. /\ tenants \in [1 .. n -> OldTenants]
        /\ bookSets \in [1 .. m -> OldBookSets]
        /\ Old(tenants, bookSets)
    BY <2>1
  <2>3. n \in Nat /\ m \in Nat
    BY TenancyAssumption, <2>1
  <2>4. OldTenants \subseteq TenantRow /\ OldBookSets \subseteq BookSetRow
    BY TenancyAssumption DEF OldTenants, OldBookSets, TenantRow, BookSetRow
  <2>5. tenants \in [1 .. n -> TenantRow] /\ bookSets \in [1 .. m -> BookSetRow]
    BY <2>2, <2>4
  <2>6. tenants \in Seq(TenantRow) /\ bookSets \in Seq(BookSetRow)
    <3> HIDE DEF TenantRow, BookSetRow
    <3> QED BY <2>3, <2>5
  <2> QED BY <1>2, <2>2, <2>6 DEF TenancyInv, TenancyTypes, BooksHaveTheirTenant, DefaultsAreOwn, TriggersHold, Old
<1> QED BY <1>1, <1>2 DEF TenancyInit

\* The rebuild renames BookSets and has every row pass the triggers: what they accept is what the new format asks.
LEMMA MigrateKeeps == ASSUME TenancyInv, Migrate PROVE TenancyInv'
<1> DEFINE named == [b \in DOMAIN bookSets |-> [bookSets[b] EXCEPT !.name = SeedName(bookSets[b].kind)]]
           n == Len(bookSets)
<1>1. /\ \A t \in DOMAIN tenants : AcceptedTenant(t, tenants[t], named)
      /\ \A a, b \in DOMAIN named : a # b => MayCoexist(named[a], named[b])
      /\ rules' = "v3"
      /\ bookSets' = named
      /\ tenants' = tenants
  BY DEF Migrate, ExistingTenantAccepted
<1>2. n \in Nat /\ DOMAIN bookSets = 1 .. n
  BY DEF TenancyInv, TenancyTypes
<1>3. \A b \in DOMAIN bookSets : /\ named[b] \in BookSetRow
                                 /\ named[b].tenant = bookSets[b].tenant
                                 /\ named[b].kind = bookSets[b].kind
  <2> TAKE b \in DOMAIN bookSets
  <2>1. bookSets[b] \in BookSetRow
    <3> HIDE DEF BookSetRow
    <3> QED BY DEF TenancyInv, TenancyTypes
  <2>2. SeedName(bookSets[b].kind) \in Names
    BY <2>1, TenancyAssumption DEF BookSetRow
  <2> QED BY <2>1, <2>2 DEF BookSetRow
<1>4. named \in [1 .. n -> BookSetRow]
  <2> HIDE DEF BookSetRow, n
  <2> QED BY <1>2, <1>3
<1>5. named \in Seq(BookSetRow)
  <2> HIDE DEF BookSetRow, n, named
  <2> QED BY <1>2, <1>4
<1>6. DOMAIN named = DOMAIN bookSets
  OBVIOUS
<1> HIDE DEF named, BookSetRow
<1>7. TenancyTypes'
  BY <1>1, <1>5 DEF TenancyInv, TenancyTypes
<1>8. BooksHaveTheirTenant'
  BY <1>1, <1>3, <1>6 DEF TenancyInv, BooksHaveTheirTenant
<1>9. DefaultsAreOwn'
  BY <1>1, <1>3, <1>6 DEF TenancyInv, DefaultsAreOwn
<1>10. TriggersHold'
  BY <1>1 DEF TriggersHold
<1> QED BY <1>7, <1>8, <1>9, <1>10 DEF TenancyInv

\* A new tenant comes with a BookSet of its own, of the kind it may hold, as its default.
LEMMA TenantCreateKeeps ==
  ASSUME TenancyInv, NEW r \in Requests, NEW k \in TenantKinds, NEW seeds, TenantCreate(r, k, seeds)
  PROVE  TenancyInv'
<1> DEFINE t == Len(tenants) + 1
           b == Len(bookSets) + 1
           kind == IF k = "COMPANY" THEN "COMPANY" ELSE "PERSONAL"
           tenant == [kind |-> k, lifecycle |-> "CREATING", default |-> b]
           seeded == [tenant |-> t, kind |-> kind, name |-> SeedName(kind), lifecycle |-> "ACTIVE"]
<1>1. /\ tenants' = Append(tenants, tenant)
      /\ bookSets' = Append(bookSets, seeded)
      /\ rules' = rules
  BY DEF TenantCreate
<1>2. tenants \in Seq(TenantRow) /\ bookSets \in Seq(BookSetRow)
  BY DEF TenancyInv, TenancyTypes
<1>3. Len(tenants) \in Nat /\ Len(bookSets) \in Nat
  BY <1>2
<1>4. tenant \in TenantRow /\ seeded \in BookSetRow
  BY <1>3, TenancyAssumption DEF TenantRow, BookSetRow, BookSetKinds
<1>5. MayHold(k, kind)
  BY DEF MayHold, TenantKinds
<1>6. /\ tenant.kind = k /\ tenant.lifecycle = "CREATING" /\ tenant.default = b
      /\ seeded.tenant = t /\ seeded.kind = kind /\ seeded.lifecycle = "ACTIVE"
  OBVIOUS
<1> HIDE DEF TenantRow, BookSetRow, tenant, seeded, kind
<1>7. /\ tenants' \in Seq(TenantRow)
      /\ DOMAIN tenants' = DOMAIN tenants \cup {t}
      /\ tenants'[t] = tenant
      /\ \A i \in DOMAIN tenants : i # t /\ tenants'[i] = tenants[i]
  BY <1>1, <1>2, <1>4
<1>8. /\ bookSets' \in Seq(BookSetRow)
      /\ DOMAIN bookSets' = DOMAIN bookSets \cup {b}
      /\ bookSets'[b] = seeded
      /\ \A i \in DOMAIN bookSets : i # b /\ bookSets'[i] = bookSets[i]
  BY <1>1, <1>2, <1>4
<1>9. t # 0 /\ b # 0 /\ t \notin DOMAIN tenants
  BY <1>2, <1>3
<1> HIDE DEF t, b
<1>10. TenancyTypes'
  BY <1>1, <1>7, <1>8 DEF TenancyInv, TenancyTypes
<1>11. BooksHaveTheirTenant'
  BY <1>5, <1>6, <1>7, <1>8 DEF TenancyInv, BooksHaveTheirTenant
<1>12. DefaultsAreOwn'
  BY <1>6, <1>7, <1>8 DEF TenancyInv, DefaultsAreOwn
<1>13. TriggersHold'
  <2> SUFFICES ASSUME rules = "v3"
               PROVE  /\ \A i \in DOMAIN tenants' : AcceptedTenant(i, tenants'[i], bookSets')
                      /\ \A c, d \in DOMAIN bookSets' : c # d => MayCoexist(bookSets'[c], bookSets'[d])
    BY <1>1 DEF TriggersHold
  <2>1. AcceptedTenant(t, tenant, bookSets')
    BY <1>6, <1>8 DEF AcceptedTenant
  <2>2. \A i \in DOMAIN tenants : AcceptedTenant(i, tenants[i], bookSets')
    BY <1>8 DEF TenancyInv, TriggersHold, DefaultsAreOwn, AcceptedTenant
  <2>3. \A c \in DOMAIN bookSets : bookSets[c].tenant # t
    BY <1>9 DEF TenancyInv, BooksHaveTheirTenant
  <2>4. \A c \in DOMAIN bookSets : MayCoexist(bookSets[c], seeded) /\ MayCoexist(seeded, bookSets[c])
    BY <1>6, <2>3 DEF MayCoexist
  <2>5. \A c, d \in DOMAIN bookSets : c # d => MayCoexist(bookSets[c], bookSets[d])
    BY DEF TenancyInv, TriggersHold
  <2> QED BY <1>7, <1>8, <2>1, <2>2, <2>4, <2>5
<1> QED BY <1>10, <1>11, <1>12, <1>13 DEF TenancyInv

\* A row that replaces a tenant's, with its kind and a default of its own.
LEMMA UpdateTenantKeeps ==
  ASSUME TenancyInv, NEW t \in DOMAIN tenants, NEW row \in TenantRow,
         row.kind = tenants[t].kind,
         row.default # NoBookSet => row.default \in DOMAIN bookSets /\ bookSets[row.default].tenant = t,
         UpdateTenant(t, row)
  PROVE  TenancyInv'
<1> HIDE DEF TenantRow, BookSetRow
<1>1. /\ AcceptedTenant(t, row, bookSets)
      /\ tenants' = [tenants EXCEPT ![t] = row]
      /\ rules' = rules /\ bookSets' = bookSets
  BY DEF UpdateTenant
<1>2. tenants \in Seq(TenantRow)
  BY DEF TenancyInv, TenancyTypes
<1>3. /\ tenants' \in Seq(TenantRow)
      /\ DOMAIN tenants' = DOMAIN tenants
      /\ tenants'[t] = row
      /\ \A i \in DOMAIN tenants : i # t => tenants'[i] = tenants[i]
  BY <1>1, <1>2
<1>4. TenancyTypes'
  BY <1>1, <1>3 DEF TenancyInv, TenancyTypes
<1>5. BooksHaveTheirTenant'
  <2>1. \A i \in DOMAIN tenants : tenants'[i].kind = tenants[i].kind
    BY <1>3
  <2> QED BY <1>1, <1>3, <2>1 DEF TenancyInv, BooksHaveTheirTenant
<1>6. DefaultsAreOwn'
  BY <1>1, <1>3 DEF TenancyInv, DefaultsAreOwn
<1>7. TriggersHold'
  <2> SUFFICES ASSUME rules = "v3", NEW i \in DOMAIN tenants
               PROVE  AcceptedTenant(i, tenants'[i], bookSets)
    BY <1>1, <1>3 DEF TenancyInv, TriggersHold
  <2>1. CASE i = t
    BY <1>1, <1>3, <2>1
  <2>2. CASE i # t
    BY <1>3, <2>2 DEF TenancyInv, TriggersHold
  <2> QED BY <2>1, <2>2
<1> QED BY <1>4, <1>5, <1>6, <1>7 DEF TenancyInv

\* A row of the table of tenants has the columns of one.
LEMMA TenantRows ==
  ASSUME TenancyInv, NEW t \in DOMAIN tenants
  PROVE  tenants[t] \in TenantRow
<1> HIDE DEF TenantRow
<1> QED BY DEF TenancyInv, TenancyTypes

\* Activating or archiving a tenant leaves its kind and its default alone.
LEMMA LifecycleKeeps ==
  ASSUME TenancyInv, NEW t \in DOMAIN tenants, NEW value \in {"ACTIVE", "ARCHIVED"},
         UpdateTenant(t, [tenants[t] EXCEPT !.lifecycle = value])
  PROVE  TenancyInv'
<1> DEFINE row == [tenants[t] EXCEPT !.lifecycle = value]
<1>1. row \in TenantRow /\ row.kind = tenants[t].kind /\ row.default = tenants[t].default
  BY TenantRows DEF TenantRow
<1>2. row.default # NoBookSet => row.default \in DOMAIN bookSets /\ bookSets[row.default].tenant = t
  BY <1>1 DEF TenancyInv, DefaultsAreOwn
<1>3. UpdateTenant(t, row)
  OBVIOUS
<1> HIDE DEF row
<1> QED BY <1>1, <1>2, <1>3, UpdateTenantKeeps

\* A default is only moved to a BookSet of the tenant.
LEMMA SetDefaultKeeps ==
  ASSUME TenancyInv, NEW t \in DOMAIN tenants, NEW b \in DOMAIN bookSets, BookSetSetDefault(t, b)
  PROVE  TenancyInv'
<1> DEFINE row == [tenants[t] EXCEPT !.default = b]
<1>1. b \in Nat /\ bookSets[b].tenant = t
  BY DEF BookSetSetDefault, OwnBooks, TenancyInv, TenancyTypes
<1>2. row \in TenantRow /\ row.kind = tenants[t].kind /\ row.default = b
  BY <1>1, TenantRows DEF TenantRow
<1>3. UpdateTenant(t, row)
  BY DEF BookSetSetDefault
<1> HIDE DEF row
<1> QED BY <1>1, <1>2, <1>3, UpdateTenantKeeps

\* A BookSet that is created is of a kind its tenant may hold, and the unique indexes let it in.
LEMMA BookSetCreateKeeps ==
  ASSUME TenancyInv, NEW t \in DOMAIN tenants, NEW k \in BookSetKinds, NEW name \in Names,
         BookSetCreate(t, k, name)
  PROVE  TenancyInv'
<1> DEFINE row == [tenant |-> t, kind |-> k, name |-> name, lifecycle |-> "ACTIVE"]
           b == Len(bookSets) + 1
<1>1. /\ MayHold(tenants[t].kind, k)
      /\ \A c \in DOMAIN bookSets : MayCoexist(bookSets[c], row)
      /\ bookSets' = Append(bookSets, row)
      /\ rules' = rules /\ tenants' = tenants
  BY DEF BookSetCreate
<1>2. bookSets \in Seq(BookSetRow) /\ t \in Nat
  BY DEF TenancyInv, TenancyTypes
<1>3. row \in BookSetRow /\ row.tenant = t /\ row.kind = k
  BY <1>2 DEF BookSetRow
<1>4. \A c \in DOMAIN bookSets : MayCoexist(row, bookSets[c])
  BY <1>1 DEF MayCoexist
<1> HIDE DEF row, BookSetRow
<1>5. /\ bookSets' \in Seq(BookSetRow)
      /\ DOMAIN bookSets' = DOMAIN bookSets \cup {b}
      /\ bookSets'[b] = row
      /\ \A i \in DOMAIN bookSets : i # b /\ bookSets'[i] = bookSets[i]
  BY <1>1, <1>2, <1>3
<1> HIDE DEF b
<1>6. TenancyTypes'
  BY <1>1, <1>5 DEF TenancyInv, TenancyTypes
<1>7. BooksHaveTheirTenant'
  BY <1>1, <1>3, <1>5 DEF TenancyInv, BooksHaveTheirTenant
<1>8. DefaultsAreOwn'
  BY <1>1, <1>5 DEF TenancyInv, DefaultsAreOwn
<1>9. TriggersHold'
  <2> SUFFICES ASSUME rules = "v3"
               PROVE  /\ \A i \in DOMAIN tenants : AcceptedTenant(i, tenants[i], bookSets')
                      /\ \A c, d \in DOMAIN bookSets' : c # d => MayCoexist(bookSets'[c], bookSets'[d])
    BY <1>1 DEF TriggersHold
  <2>1. \A i \in DOMAIN tenants : AcceptedTenant(i, tenants[i], bookSets')
    BY <1>5 DEF TenancyInv, TriggersHold, DefaultsAreOwn, AcceptedTenant
  <2>2. \A c, d \in DOMAIN bookSets : c # d => MayCoexist(bookSets[c], bookSets[d])
    BY DEF TenancyInv, TriggersHold
  <2> QED BY <1>1, <1>4, <1>5, <2>1, <2>2
<1> QED BY <1>6, <1>7, <1>8, <1>9 DEF TenancyInv

\* A BookSet that is archived is nobody's default; its kind and its name stay taken.
LEMMA BookSetArchiveKeeps ==
  ASSUME TenancyInv, NEW t \in DOMAIN tenants, NEW b \in DOMAIN bookSets, BookSetArchive(t, b)
  PROVE  TenancyInv'
<1>1. /\ \A u \in DOMAIN tenants : tenants[u].default # b
      /\ bookSets' = [bookSets EXCEPT ![b].lifecycle = "ARCHIVED"]
      /\ rules' = rules /\ tenants' = tenants
  BY DEF BookSetArchive, MayBeArchived
<1> DEFINE row == [bookSets[b] EXCEPT !.lifecycle = "ARCHIVED"]
<1>2. bookSets' = [bookSets EXCEPT ![b] = row]
  BY <1>1
<1>3. bookSets \in Seq(BookSetRow)
  BY DEF TenancyInv, TenancyTypes
<1>4. bookSets[b] \in BookSetRow
  <2> HIDE DEF BookSetRow
  <2> QED BY <1>3
<1>5. row \in BookSetRow /\ row.tenant = bookSets[b].tenant /\ row.kind = bookSets[b].kind /\ row.name = bookSets[b].name
  BY <1>4 DEF BookSetRow
<1> HIDE DEF row, BookSetRow
<1>6. /\ bookSets' \in Seq(BookSetRow)
      /\ DOMAIN bookSets' = DOMAIN bookSets
      /\ bookSets'[b] = row
      /\ \A c \in DOMAIN bookSets : c # b => bookSets'[c] = bookSets[c]
  BY <1>2, <1>3, <1>5
<1>7. \A c \in DOMAIN bookSets : /\ bookSets'[c].tenant = bookSets[c].tenant
                                 /\ bookSets'[c].kind = bookSets[c].kind
                                 /\ bookSets'[c].name = bookSets[c].name
  BY <1>5, <1>6
<1>8. TenancyTypes'
  BY <1>1, <1>6 DEF TenancyInv, TenancyTypes
<1>9. BooksHaveTheirTenant'
  BY <1>1, <1>6, <1>7 DEF TenancyInv, BooksHaveTheirTenant
<1>10. DefaultsAreOwn'
  BY <1>1, <1>6, <1>7 DEF TenancyInv, DefaultsAreOwn
<1>11. TriggersHold'
  <2> SUFFICES ASSUME rules = "v3"
               PROVE  /\ \A i \in DOMAIN tenants : AcceptedTenant(i, tenants[i], bookSets')
                      /\ \A c, d \in DOMAIN bookSets : c # d => MayCoexist(bookSets'[c], bookSets'[d])
    BY <1>1, <1>6 DEF TriggersHold
  <2>1. \A i \in DOMAIN tenants : AcceptedTenant(i, tenants[i], bookSets')
    BY <1>1, <1>6 DEF TenancyInv, TriggersHold, DefaultsAreOwn, AcceptedTenant
  <2>2. \A c, d \in DOMAIN bookSets : c # d => MayCoexist(bookSets[c], bookSets[d])
    BY DEF TenancyInv, TriggersHold
  <2>3. \A c, d \in DOMAIN bookSets : c # d => MayCoexist(bookSets'[c], bookSets'[d])
    BY <1>7, <2>2 DEF MayCoexist
  <2> QED BY <2>1, <2>3
<1> QED BY <1>8, <1>9, <1>10, <1>11 DEF TenancyInv

\* PANs, accounts and replayed requests are no part of the invariant.
LEMMA TenancyStays ==
  ASSUME TenancyInv, UNCHANGED <<rules, tenants, bookSets>>
  PROVE  TenancyInv'
BY DEF TenancyInv, TenancyTypes, BooksHaveTheirTenant, DefaultsAreOwn, TriggersHold

\* Every command, the migration and a stutter keep the invariant.
LEMMA TenancyStep == TenancyInv /\ [TenancyNext]_tenancyVars => TenancyInv'
<1> SUFFICES ASSUME TenancyInv, [TenancyNext]_tenancyVars PROVE TenancyInv'
  OBVIOUS
<1>1. CASE Migrate
  BY <1>1, MigrateKeeps
<1>2. ASSUME NEW r \in Requests, NEW k \in TenantKinds, NEW seeds \in {{}, SeedCodes}, TenantCreate(r, k, seeds)
      PROVE  TenancyInv'
  BY <1>2, TenantCreateKeeps
<1>3. ASSUME NEW t \in DOMAIN tenants, NEW asserted \in DOMAIN bookSets, TenantActivate(t, asserted)
      PROVE  TenancyInv'
  BY <1>3, LifecycleKeeps DEF TenantActivate
<1>4. ASSUME NEW t \in DOMAIN tenants, TenantArchive(t) PROVE TenancyInv'
  BY <1>4, LifecycleKeeps DEF TenantArchive
<1>5. ASSUME NEW t \in DOMAIN tenants, NEW k \in BookSetKinds, NEW name \in Names, BookSetCreate(t, k, name)
      PROVE  TenancyInv'
  BY <1>5, BookSetCreateKeeps
<1>6. ASSUME NEW t \in DOMAIN tenants, NEW b \in DOMAIN bookSets, BookSetSetDefault(t, b) PROVE TenancyInv'
  BY <1>6, SetDefaultKeeps
<1>7. ASSUME NEW t \in DOMAIN tenants, NEW b \in DOMAIN bookSets, BookSetArchive(t, b) PROVE TenancyInv'
  BY <1>7, BookSetArchiveKeeps
<1>8. ASSUME NEW t \in DOMAIN tenants, NEW profile \in Pans, NEW expected \in Pans, TenantPanSet(t, profile, expected)
      PROVE  TenancyInv'
  BY <1>8, TenancyStays DEF TenantPanSet
<1>9. ASSUME NEW b \in DOMAIN bookSets, NEW c \in Codes, AccountCreate(b, c) PROVE TenancyInv'
  BY <1>9, TenancyStays DEF AccountCreate
<1>10. ASSUME NEW i \in DOMAIN accounts, AccountArchive(i) PROVE TenancyInv'
  BY <1>10, TenancyStays DEF AccountArchive
<1>11. CASE UNCHANGED tenancyVars
  BY <1>11, TenancyStays DEF tenancyVars
<1> QED BY <1>1, <1>2, <1>3, <1>4, <1>5, <1>6, <1>7, <1>8, <1>9, <1>10, <1>11 DEF TenancyNext

\* The invariant is what the readers of a tenant rely on.
LEMMA TenantsAreServed == TenancyInv => ServedTenantsHaveTheirBooks
<1> SUFFICES ASSUME TenancyInv, rules = "v3", NEW t \in DOMAIN tenants
             PROVE  /\ tenants[t].lifecycle = "ACTIVE" => tenants[t].default # NoBookSet
                    /\ tenants[t].default # NoBookSet =>
                         tenants[t].default \in OwnBooks(t) /\ bookSets[tenants[t].default].lifecycle = "ACTIVE"
                    /\ \A b \in OwnBooks(t) : MayHold(tenants[t].kind, bookSets[b].kind)
                    /\ \A a, b \in OwnBooks(t) : a # b =>
                         /\ bookSets[a].kind = bookSets[b].kind => bookSets[a].kind = "PROPRIETORSHIP"
                         /\ NoCase(bookSets[a].name) # NoCase(bookSets[b].name)
  BY DEF ServedTenantsHaveTheirBooks
<1>1. AcceptedTenant(t, tenants[t], bookSets)
  BY DEF TenancyInv, TriggersHold
<1>2. \A a, b \in DOMAIN bookSets : a # b => MayCoexist(bookSets[a], bookSets[b])
  BY DEF TenancyInv, TriggersHold
<1>3. \A b \in OwnBooks(t) : b \in DOMAIN bookSets /\ bookSets[b].tenant = t
  BY DEF OwnBooks
<1>4. tenants[t].default # NoBookSet => tenants[t].default \in OwnBooks(t)
  BY DEF TenancyInv, DefaultsAreOwn, OwnBooks
<1>5. \A b \in OwnBooks(t) : MayHold(tenants[t].kind, bookSets[b].kind)
  BY <1>3 DEF TenancyInv, BooksHaveTheirTenant
<1>6. \A a, b \in OwnBooks(t) : a # b => MayCoexist(bookSets[a], bookSets[b])
  BY <1>2, <1>3
<1> QED BY <1>1, <1>3, <1>4, <1>5, <1>6 DEF AcceptedTenant, MayCoexist

\* A tenant that is served has an ACTIVE default BookSet of its own, of a
\* kind it may hold, and the unique indexes hold, after any sequence of the
\* commands of tenant-command-service and bookset-command-service over a
\* database of either format, for any number of tenants and BookSets.
THEOREM TenantsHold == TenancySpec => []ServedTenantsHaveTheirBooks
BY TenancyStarts, TenancyStep, TenantsAreServed, PTL DEF TenancySpec

-----------------------------------------------------------------------------
(* TaxCases.  A confirmed assessment binds decided facts only, a line is   *)
(* never used beyond its amount, and a worksheet is what its snapshot says *)
(* it is; the rest follows from what a CURRENT snapshot excludes.          *)

FactStatuses == {"NONE", "PROPOSED", "HUMAN_CONFIRMED", "REJECTED"}
FactRow == [status : FactStatuses, source : Sources \cup {"-"}, key : Keys \cup {"-"},
            payload : Payloads \cup {"-"}, corrects : Facts \cup {"-"}]

\* An assessment, with nothing undecided among what it binds once it is confirmed.
AssessmentRow ==
  {row \in [bound : UNION {[of -> FactStatuses] : of \in SUBSET Facts},
            event : {"PREPARED", "CONFIRMED", "REJECTED", "SUPERSEDED"}] :
     row.event = "CONFIRMED" => Settled(row.bound)}

TaxCaseTypes ==
  /\ sources \subseteq Sources
  /\ facts \in [Facts -> FactRow]
  /\ allocated \in [Facts \X Lines -> Nat]
  /\ assessments \in [Sources -> Seq(AssessmentRow)]
  /\ \E S : snapshots \in Seq(S)
  /\ DOMAIN worksheets = 1 .. MaxSnapshots

\* What is proposed says something.
ProposedHavePayloads == \A f \in Facts : facts[f].status # "NONE" => facts[f].payload \in Payloads

LinesNotOverused == \A l \in Lines : OfLine(l) <= LineOf(l).amount

\* The confirmed income facts of a snapshot.
IncomeOf(snapshot) ==
  {f \in DOMAIN snapshot.facts :
     snapshot.facts[f][1].status = "HUMAN_CONFIRMED" /\ snapshot.facts[f][1].payload.income}

WorksheetsFollowSnapshots ==
  \A i \in 1 .. MaxSnapshots :
    \/ worksheets[i] = Nothing
    \/ i \in DOMAIN snapshots /\ worksheets[i] = IncomeOf(snapshots[i])

SnapshotsFit == DOMAIN snapshots \subseteq 1 .. MaxSnapshots

TaxCaseInv ==
  TaxCaseTypes /\ SnapshotsFit /\ ProposedHavePayloads /\ LinesNotOverused /\ WorksheetsFollowSnapshots

-----------------------------------------------------------------------------
\* What the assumptions say of the tables.
LEMMA LinesAreFinite ==
  IsFiniteSet(Facts) /\ IsFiniteSet(Lines) /\ \A l \in Lines : LineOf(l).amount \in Nat
BY TaxCasesAssumption

\* An allocation is an amount, for every fact and line.
LEMMA AllocatedPairs ==
  ASSUME TaxCaseTypes, NEW f \in Facts, NEW l \in Lines
  PROVE  allocated[<<f, l>>] \in Nat
BY DEF TaxCaseTypes

\* What is used of a line is an amount.
LEMMA OfLineNat == ASSUME TaxCaseTypes, NEW l \in Lines PROVE OfLine(l) \in Nat
<1> DEFINE used == [f \in Facts |-> allocated[<<f, l>>]]
<1>1. \A f \in Facts : used[f] \in Nat
  BY AllocatedPairs
<1> HIDE DEF used
<1>2. SumFunctionOnSet(used, Facts) \in Nat
  BY <1>1, LinesAreFinite, SumNat
<1> QED BY <1>2 DEF OfLine, used

\* A case starts with nothing proposed, allocated, assessed or sealed.
LEMMA TaxCaseStarts == TaxCaseInit => TaxCaseInv
<1> SUFFICES ASSUME TaxCaseInit PROVE TaxCaseInv
  OBVIOUS
<1>1. facts \in [Facts -> FactRow]
  BY DEF TaxCaseInit, NoFact, FactRow, FactStatuses
<1>2. allocated \in [Facts \X Lines -> Nat]
  BY DEF TaxCaseInit
<1>3. assessments \in [Sources -> Seq(AssessmentRow)]
  <2> HIDE DEF AssessmentRow
  <2> QED BY DEF TaxCaseInit
<1>4. snapshots \in Seq({})
  BY DEF TaxCaseInit
<1>5. TaxCaseTypes
  BY <1>1, <1>2, <1>3, <1>4 DEF TaxCaseTypes, TaxCaseInit
<1>6. ProposedHavePayloads
  BY DEF TaxCaseInit, NoFact, ProposedHavePayloads
<1>7. LinesNotOverused
  <2> SUFFICES ASSUME NEW l \in Lines PROVE OfLine(l) <= LineOf(l).amount
    BY DEF LinesNotOverused
  <2> DEFINE used == [f \in Facts |-> allocated[<<f, l>>]]
  <2>1. \A f \in Facts : used[f] = 0
    <3>1. \A f \in Facts : allocated[<<f, l>>] = 0
      BY DEF TaxCaseInit
    <3> QED BY <3>1
  <2> HIDE DEF used
  <2>2. SumFunctionOnSet(used, Facts) = 0
    BY <2>1, LinesAreFinite, SumZero
  <2>3. LineOf(l).amount \in Nat
    BY LinesAreFinite
  <2>4. OfLine(l) = SumFunctionOnSet(used, Facts)
    BY DEF OfLine, used
  <2> QED BY <2>2, <2>3, <2>4
<1>8. WorksheetsFollowSnapshots
  BY DEF TaxCaseInit, WorksheetsFollowSnapshots
<1>9. SnapshotsFit
  BY DEF TaxCaseInit, SnapshotsFit
<1> QED BY <1>5, <1>6, <1>7, <1>8, <1>9 DEF TaxCaseInv

-----------------------------------------------------------------------------
\* Books, PAN and membership are no part of the invariant.
LEMMA TaxCaseStays ==
  ASSUME TaxCaseInv, sources' \subseteq Sources, UNCHANGED <<facts, allocated, assessments, snapshots, worksheets>>
  PROVE  TaxCaseInv'
BY DEF TaxCaseInv, TaxCaseTypes, ProposedHavePayloads, LinesNotOverused, OfLine, WorksheetsFollowSnapshots, SnapshotsFit

\* A fact that is proposed or decided.
LEMMA FactChangeKeeps ==
  ASSUME TaxCaseInv, NEW f \in Facts, NEW row \in FactRow,
         row.payload \in Payloads,
         facts' = [facts EXCEPT ![f] = row],
         UNCHANGED <<sources, allocated, assessments, snapshots, worksheets>>
  PROVE  TaxCaseInv'
<1> HIDE DEF FactRow
<1>1. facts' \in [Facts -> FactRow]
  BY DEF TaxCaseInv, TaxCaseTypes
<1>2. ProposedHavePayloads'
  BY DEF TaxCaseInv, TaxCaseTypes, ProposedHavePayloads
<1> QED BY <1>1, <1>2 DEF TaxCaseInv, TaxCaseTypes, LinesNotOverused, OfLine, WorksheetsFollowSnapshots, SnapshotsFit

\* A proposed fact says something.
LEMMA ProposeKeeps ==
  ASSUME TaxCaseInv, NEW f \in Facts, NEW s \in Sources, NEW k \in Keys, NEW p \in Payloads,
         ProposeTaxCaseFact(f, s, k, p)
  PROVE  TaxCaseInv'
<1>1. PICK corrects \in (IF SameRecord(s, k) = {} THEN {"-"} ELSE SameRecord(s, k)) :
        facts' = [facts EXCEPT ![f] =
          [status |-> "PROPOSED", source |-> s, key |-> k, payload |-> p, corrects |-> corrects]]
  BY DEF ProposeTaxCaseFact
<1> DEFINE row == [status |-> "PROPOSED", source |-> s, key |-> k, payload |-> p, corrects |-> corrects]
<1>2. corrects \in Facts \cup {"-"}
  BY <1>1 DEF SameRecord, FactsOf, Proposed
<1>3. row \in FactRow /\ row.payload \in Payloads
  BY <1>2 DEF FactRow, FactStatuses
<1>4. facts' = [facts EXCEPT ![f] = row] /\ UNCHANGED <<sources, allocated, assessments, snapshots, worksheets>>
  BY <1>1 DEF ProposeTaxCaseFact
<1> HIDE DEF row
<1> QED BY <1>3, <1>4, FactChangeKeeps

\* A decision changes the status of a fact and leaves what it says.
LEMMA DecideKeeps ==
  ASSUME TaxCaseInv, NEW f \in Facts, NEW v \in {"HUMAN_CONFIRMED", "REJECTED"}, DecideTaxCaseFact(f, v)
  PROVE  TaxCaseInv'
<1> DEFINE row == [facts[f] EXCEPT !.status = v]
<1>1. facts[f] \in FactRow /\ facts[f].payload \in Payloads
  <2> HIDE DEF FactRow
  <2> QED BY DEF DecideTaxCaseFact, TaxCaseInv, TaxCaseTypes, ProposedHavePayloads
<1>2. row \in FactRow /\ row.payload \in Payloads
  BY <1>1 DEF FactRow, FactStatuses
<1>3. facts' = [facts EXCEPT ![f] = row] /\ UNCHANGED <<sources, allocated, assessments, snapshots, worksheets>>
  BY DEF DecideTaxCaseFact
<1> HIDE DEF row
<1> QED BY <1>2, <1>3, FactChangeKeeps

\* A line is reconciled up to what is left of it, whichever facts used it before.
LEMMA ReconcileKeeps ==
  ASSUME TaxCaseInv, NEW f \in Facts, NEW l \in Lines, NEW amount \in 1 .. LineOf(l).amount,
         RecordTaxCaseReconciliation(f, l, amount)
  PROVE  TaxCaseInv'
<1>1. /\ amount \in 1 .. LineOf(l).amount - OfLine(l)
      /\ allocated' = [allocated EXCEPT ![<<f, l>>] = @ + amount]
      /\ UNCHANGED <<sources, facts, assessments, snapshots, worksheets>>
  BY DEF RecordTaxCaseReconciliation
<1>2. TaxCaseTypes
  BY DEF TaxCaseInv
<1>3. amount \in Nat /\ OfLine(l) \in Nat /\ LineOf(l).amount \in Nat /\ OfLine(l) + amount <= LineOf(l).amount
  BY <1>1, <1>2, OfLineNat, LinesAreFinite
<1>4. allocated' \in [Facts \X Lines -> Nat]
  BY <1>1, <1>2, <1>3 DEF TaxCaseTypes
<1>5. /\ allocated'[<<f, l>>] = allocated[<<f, l>>] + amount
      /\ \A g \in Facts, m \in Lines : g # f \/ m # l => allocated'[<<g, m>>] = allocated[<<g, m>>]
  BY <1>1, <1>2 DEF TaxCaseTypes
<1>6. LinesNotOverused'
  <2> SUFFICES ASSUME NEW m \in Lines PROVE OfLine(m)' <= LineOf(m).amount
    BY DEF LinesNotOverused
  <2> DEFINE used == [g \in Facts |-> allocated[<<g, m>>]]
             after == [g \in Facts |-> allocated'[<<g, m>>]]
  <2>1. OfLine(m) = SumFunctionOnSet(used, Facts) /\ OfLine(m)' = SumFunctionOnSet(after, Facts)
    BY DEF OfLine
  <2>2. \A g \in Facts : used[g] \in Int
    <3>1. \A g \in Facts : allocated[<<g, m>>] \in Nat
      BY <1>2, AllocatedPairs
    <3> QED BY <3>1
  <2>3. CASE m = l
    <3>1. after[f] = used[f] + amount /\ \A g \in Facts : g # f => after[g] = used[g]
      BY <1>5, <2>3
    <3> HIDE DEF used, after
    <3>2. amount \in Int
      BY <1>3
    <3>3. SumFunctionOnSet(after, Facts) = SumFunctionOnSet(used, Facts) + amount
      BY <2>2, <3>1, <3>2, LinesAreFinite, SumChange
    <3> QED BY <1>3, <2>1, <2>3, <3>3
  <2>4. CASE m # l
    <3>1. used = after
      BY <1>5, <2>4
    <3> QED BY <2>1, <3>1 DEF TaxCaseInv, LinesNotOverused
  <2> QED BY <2>3, <2>4
<1> QED BY <1>1, <1>4, <1>6 DEF TaxCaseInv, TaxCaseTypes, ProposedHavePayloads, WorksheetsFollowSnapshots, SnapshotsFit

-----------------------------------------------------------------------------
\* What binds the facts of a source is of the kind an assessment binds.
LEMMA BindingsAreBound ==
  ASSUME TaxCaseTypes, NEW s
  PROVE  Bindings(s) \in UNION {[of -> FactStatuses] : of \in SUBSET Facts}
<1>1. FactsOf(s) \in SUBSET Facts
  BY DEF FactsOf, Proposed
<1>2. \A f \in FactsOf(s) : facts[f].status \in FactStatuses
  BY <1>1 DEF TaxCaseTypes, FactRow
<1>3. Bindings(s) \in [FactsOf(s) -> FactStatuses]
  BY <1>2 DEF Bindings
<1> QED BY <1>1, <1>3

\* The list of a source after one of its assessments changed or came.
LEMMA AssessmentKeeps ==
  ASSUME TaxCaseInv, NEW s \in Sources, NEW list \in Seq(AssessmentRow),
         assessments' = [assessments EXCEPT ![s] = list],
         UNCHANGED <<sources, facts, allocated, snapshots, worksheets>>
  PROVE  TaxCaseInv'
<1> HIDE DEF AssessmentRow
<1>1. assessments' \in [Sources -> Seq(AssessmentRow)]
  BY DEF TaxCaseInv, TaxCaseTypes
<1> QED BY <1>1 DEF TaxCaseInv, TaxCaseTypes, ProposedHavePayloads, LinesNotOverused, OfLine, WorksheetsFollowSnapshots, SnapshotsFit

\* Superseding an assessment leaves its bindings; a confirmed one is confirmed no more.
LEMMA SupersededRows ==
  ASSUME NEW list \in Seq(AssessmentRow), NEW old
  PROVE  Superseded(list, old) \in Seq(AssessmentRow) /\ Len(Superseded(list, old)) = Len(list)
<1> DEFINE n == Len(list)
           row(i) == IF i = old THEN [list[i] EXCEPT !.event = "SUPERSEDED"] ELSE list[i]
           after == [i \in 1 .. n |-> row(i)]
<1>1. n \in Nat /\ DOMAIN list = 1 .. n
  OBVIOUS
<1>2. \A i \in 1 .. n : row(i) \in AssessmentRow
  <2> TAKE i \in 1 .. n
  <2>1. list[i] \in AssessmentRow
    <3> HIDE DEF AssessmentRow
    <3> QED OBVIOUS
  <2> QED BY <2>1 DEF AssessmentRow
<1>3. Superseded(list, old) = after
  BY <1>1 DEF Superseded
<1> HIDE DEF AssessmentRow, n, row
<1>4. after \in [1 .. n -> AssessmentRow]
  BY <1>2
<1> HIDE DEF after
<1>5. after \in Seq(AssessmentRow) /\ Len(after) = n
  BY <1>1, <1>4
<1> QED BY <1>3, <1>5 DEF n

\* A new assessment is PREPARED wherever it sorts in the list.
LEMMA PrepareKeeps ==
  ASSUME TaxCaseInv, NEW s \in Sources, NEW old \in 0 .. MaxAssessments, NEW tie \in BOOLEAN,
         PrepareTaxCaseSourceAssessment(s, old, tie)
  PROVE  TaxCaseInv'
<1> DEFINE list == Superseded(assessments[s], old)
           at == IF tie /\ list # <<>> THEN Len(list) ELSE Len(list) + 1
           new == [bound |-> Bindings(s), event |-> "PREPARED"]
           front == SubSeq(list, 1, at - 1)
           back == SubSeq(list, at, Len(list))
           after == front \o <<new>> \o back
<1>1. list \in Seq(AssessmentRow)
  <2> HIDE DEF AssessmentRow
  <2> QED BY SupersededRows DEF TaxCaseInv, TaxCaseTypes
<1>2. new \in AssessmentRow
  BY BindingsAreBound DEF AssessmentRow, TaxCaseInv
<1>3. assessments' = [assessments EXCEPT ![s] = after] /\ UNCHANGED <<sources, facts, allocated, snapshots, worksheets>>
  BY DEF PrepareTaxCaseSourceAssessment
<1> HIDE DEF list, new, AssessmentRow
<1>4. at \in 1 .. Len(list) + 1
  BY <1>1
<1> HIDE DEF at
<1>5. front \in Seq(AssessmentRow) /\ back \in Seq(AssessmentRow)
  BY <1>1, <1>4
<1> HIDE DEF front, back
<1>6. after \in Seq(AssessmentRow)
  BY <1>2, <1>5
<1> HIDE DEF after
<1> QED BY <1>3, <1>6, AssessmentKeeps

\* An assessment is confirmed over bindings that are all decided.
LEMMA DecideAssessmentKeeps ==
  ASSUME TaxCaseInv, NEW s \in Sources, NEW i \in 1 .. MaxAssessments, NEW v \in {"CONFIRMED", "REJECTED"},
         DecideTaxCaseSourceAssessment(s, i, v)
  PROVE  TaxCaseInv'
<1> DEFINE row == [assessments[s][i] EXCEPT !.event = v]
           after == [assessments[s] EXCEPT ![i] = row]
<1>1. i \in DOMAIN assessments[s] /\ assessments[s] \in Seq(AssessmentRow)
  <2> HIDE DEF AssessmentRow
  <2> QED BY DEF DecideTaxCaseSourceAssessment, TaxCaseInv, TaxCaseTypes
<1>2. assessments[s][i] \in AssessmentRow
  <2> HIDE DEF AssessmentRow
  <2> QED BY <1>1
<1>3. row.event = "CONFIRMED" => Settled(row.bound)
  BY <1>2 DEF DecideTaxCaseSourceAssessment, AssessmentRow
<1>4. row \in AssessmentRow
  BY <1>2, <1>3 DEF AssessmentRow
<1>5. assessments' = [assessments EXCEPT ![s] = after] /\ UNCHANGED <<sources, facts, allocated, snapshots, worksheets>>
  BY DEF DecideTaxCaseSourceAssessment
<1> HIDE DEF row, AssessmentRow
<1>6. after \in Seq(AssessmentRow)
  BY <1>1, <1>4
<1> HIDE DEF after
<1> QED BY <1>5, <1>6, AssessmentKeeps

-----------------------------------------------------------------------------
\* Sealing appends; no snapshot that is there changes.
LEMMA SealKeeps == ASSUME TaxCaseInv, SealTaxCaseFilingSnapshot PROVE TaxCaseInv'
<1>1. snapshots' = Append(snapshots, BuildCandidate) /\ UNCHANGED <<sources, facts, allocated, assessments, worksheets>>
  BY DEF SealTaxCaseFilingSnapshot
<1>2. PICK S : snapshots \in Seq(S)
  BY DEF TaxCaseInv, TaxCaseTypes
<1> DEFINE candidate == BuildCandidate
<1> HIDE DEF candidate
<1>3. snapshots \in Seq(S \cup {candidate})
  BY <1>2
<1>4. /\ Append(snapshots, candidate) \in Seq(S \cup {candidate})
      /\ \A i \in DOMAIN snapshots : i \in DOMAIN Append(snapshots, candidate)
                                     /\ Append(snapshots, candidate)[i] = snapshots[i]
  BY <1>3
<1>5. /\ \E T : snapshots' \in Seq(T)
      /\ \A i \in DOMAIN snapshots : i \in DOMAIN snapshots' /\ snapshots'[i] = snapshots[i]
  BY <1>1, <1>4 DEF candidate
<1>6. WorksheetsFollowSnapshots'
  BY <1>1, <1>5 DEF TaxCaseInv, WorksheetsFollowSnapshots
<1>7. SnapshotsFit'
  <2>1. Len(snapshots) \in Nat /\ Len(snapshots) < MaxSnapshots /\ MaxSnapshots \in Nat
    BY <1>2, TaxCasesAssumption DEF SealTaxCaseFilingSnapshot
  <2>2. DOMAIN Append(snapshots, candidate) = 1 .. Len(snapshots) + 1
    BY <1>3
  <2> QED BY <1>1, <2>1, <2>2 DEF SnapshotsFit, candidate
<1> QED BY <1>1, <1>5, <1>6, <1>7 DEF TaxCaseInv, TaxCaseTypes, ProposedHavePayloads, LinesNotOverused, OfLine

\* A worksheet counts the confirmed income facts of its snapshot.
LEMMA GenerateKeeps ==
  ASSUME TaxCaseInv, NEW i \in 1 .. MaxSnapshots, GenerateTaxCasePositionWorksheet(i)
  PROVE  TaxCaseInv'
<1>1. /\ i \in DOMAIN snapshots
      /\ worksheets' = [worksheets EXCEPT ![i] = IncomeOf(snapshots[i])]
      /\ UNCHANGED <<sources, facts, allocated, assessments, snapshots>>
  BY DEF GenerateTaxCasePositionWorksheet, IncomeOf
<1>2. DOMAIN worksheets' = 1 .. MaxSnapshots /\ WorksheetsFollowSnapshots'
  <2> HIDE DEF IncomeOf
  <2> QED BY <1>1 DEF TaxCaseInv, TaxCaseTypes, WorksheetsFollowSnapshots
<1> QED BY <1>1, <1>2 DEF TaxCaseInv, TaxCaseTypes, ProposedHavePayloads, LinesNotOverused, OfLine, SnapshotsFit

\* Every operation of the case, whatever moves around it and a stutter keep the invariant.
LEMMA TaxCaseStep == TaxCaseInv /\ [TaxCaseNext]_taxCaseVars => TaxCaseInv'
<1> SUFFICES ASSUME TaxCaseInv, [TaxCaseNext]_taxCaseVars PROVE TaxCaseInv'
  OBVIOUS
<1>1. ASSUME NEW b \in Proprietorships, OpenBookSet(b) PROVE TaxCaseInv'
  BY <1>1, TaxCaseStays DEF OpenBookSet, TaxCaseInv, TaxCaseTypes
<1>2. ASSUME NEW b \in BookSets, ArchiveMember(b) PROVE TaxCaseInv'
  BY <1>2, TaxCaseStays DEF ArchiveMember, TaxCaseInv, TaxCaseTypes
<1>3. ASSUME NEW b \in BookSets, PostInto(b) PROVE TaxCaseInv'
  BY <1>3, TaxCaseStays DEF PostInto, TaxCaseInv, TaxCaseTypes
<1>4. CASE ReplacePan \/ CreateTaxCase \/ RefreshTaxCaseMembership
  BY <1>4, TaxCaseStays DEF ReplacePan, CreateTaxCase, RefreshTaxCaseMembership, TaxCaseInv, TaxCaseTypes
<1>5. ASSUME NEW s \in Sources, ImportTaxCaseSource(s) PROVE TaxCaseInv'
  BY <1>5, TaxCaseStays DEF ImportTaxCaseSource, TaxCaseInv, TaxCaseTypes
<1>6. ASSUME NEW f \in Facts, NEW s \in Sources, NEW k \in Keys, NEW p \in Payloads, ProposeTaxCaseFact(f, s, k, p)
      PROVE  TaxCaseInv'
  BY <1>6, ProposeKeeps
<1>7. ASSUME NEW f \in Facts, NEW v \in {"HUMAN_CONFIRMED", "REJECTED"}, DecideTaxCaseFact(f, v)
      PROVE  TaxCaseInv'
  BY <1>7, DecideKeeps
<1>8. ASSUME NEW f \in Facts, NEW l \in Lines, NEW amount \in 1 .. LineOf(l).amount,
             RecordTaxCaseReconciliation(f, l, amount)
      PROVE  TaxCaseInv'
  BY <1>8, ReconcileKeeps
<1>9. ASSUME NEW s \in Sources, NEW old \in 0 .. MaxAssessments, NEW tie \in BOOLEAN,
             PrepareTaxCaseSourceAssessment(s, old, tie)
      PROVE  TaxCaseInv'
  BY <1>9, PrepareKeeps
<1>10. ASSUME NEW s \in Sources, NEW i \in 1 .. MaxAssessments, NEW v \in {"CONFIRMED", "REJECTED"},
              DecideTaxCaseSourceAssessment(s, i, v)
       PROVE  TaxCaseInv'
  BY <1>10, DecideAssessmentKeeps
<1>11. CASE SealTaxCaseFilingSnapshot
  BY <1>11, SealKeeps
<1>12. ASSUME NEW i \in 1 .. MaxSnapshots, GenerateTaxCasePositionWorksheet(i) PROVE TaxCaseInv'
  BY <1>12, GenerateKeeps
<1>13. CASE UNCHANGED taxCaseVars
  BY <1>13, TaxCaseStays DEF taxCaseVars, TaxCaseInv, TaxCaseTypes
<1> QED BY <1>1, <1>2, <1>3, <1>4, <1>5, <1>6, <1>7, <1>8, <1>9, <1>10, <1>11, <1>12, <1>13 DEF TaxCaseNext

-----------------------------------------------------------------------------
\* READY compares the bindings of the latest assessment, decided when it was confirmed, with those of now.
LEMMA ReadyIsSettled == TaxCaseInv => ReadySourceIsSettled
<1> SUFFICES ASSUME TaxCaseInv, NEW s \in Sources, SourceReadiness(s) = "READY"
             PROVE  \A f \in FactsOf(s) : facts[f].status # "PROPOSED"
  BY DEF ReadySourceIsSettled, TaxCaseInv, TaxCaseTypes
<1> DEFINE list == assessments[s]
           latest == list[Len(list)]
<1>1. list \in Seq(AssessmentRow)
  <2> HIDE DEF AssessmentRow
  <2> QED BY DEF TaxCaseInv, TaxCaseTypes
<1>2. list # <<>> /\ latest.event = "CONFIRMED" /\ latest.bound = Bindings(s)
  BY DEF SourceReadiness
<1>3. latest \in AssessmentRow
  <2> HIDE DEF AssessmentRow, list
  <2>1. Len(list) \in DOMAIN list
    BY <1>1, <1>2
  <2> QED BY <1>1, <2>1
<1>4. Settled(Bindings(s))
  BY <1>2, <1>3 DEF AssessmentRow
<1> QED BY <1>4 DEF Settled, Bindings

-----------------------------------------------------------------------------
\* What is matched of the facts of a worksheet is on lines of the case, and is all of them.
LEMMA MatchedIsIncome ==
  ASSUME TaxCaseInv, NEW of \in SUBSET Facts,
         \A f \in of : OfFact(f) = Gross(f),
         \A l \in Lines : LineOf(l).bookSet \notin Members => OfLine(l) = 0
  PROVE  FactsIncome(of) = MatchedInMembers(of)
<1> DEFINE ofCase == {l \in Lines : LineOf(l).bookSet \in Members}
           byFact == [f \in of |-> SumFunctionOnSet([l \in Lines |-> allocated[<<f, l>>]], Lines)]
           byLine == [l \in Lines |-> SumFunctionOnSet([f \in of |-> allocated[<<f, l>>]], of)]
           gross == [f \in of |-> Gross(f)]
           matched == [l \in ofCase |-> SumFunctionOnSet([f \in of |-> allocated[<<f, l>>]], of)]
<1>1. IsFiniteSet(of) /\ IsFiniteSet(Lines) /\ IsFiniteSet(ofCase)
  BY LinesAreFinite, FS_Subset
<1>2. \A f \in of, l \in Lines : allocated[<<f, l>>] \in Int
  BY DEF TaxCaseInv, TaxCaseTypes
<1>3. SumFunctionOnSet(byFact, of) = SumFunctionOnSet(byLine, Lines)
  BY <1>1, <1>2, SumByRowOrColumn
<1>4. \A f \in of : gross[f] = byFact[f]
  BY DEF OfFact
<1>5. gross = byFact
  <2> HIDE DEF Gross
  <2> QED BY <1>4
<1>6. FactsIncome(of) = SumFunctionOnSet(byFact, of)
  BY <1>5 DEF FactsIncome
<1>7. \A l \in Lines : byLine[l] \in Int
  <2> TAKE l \in Lines
  <2> DEFINE part == [f \in of |-> allocated[<<f, l>>]]
  <2>1. \A f \in of : part[f] \in Int
    BY <1>2
  <2> HIDE DEF part
  <2>2. SumFunctionOnSet(part, of) \in Int
    BY <1>1, <2>1, SumInt
  <2> QED BY <2>2 DEF part
<1>8. \A l \in Lines \ ofCase : byLine[l] = 0
  <2> TAKE l \in Lines \ ofCase
  <2> DEFINE used == [f \in Facts |-> allocated[<<f, l>>]]
             part == [f \in of |-> allocated[<<f, l>>]]
  <2>1. SumFunctionOnSet(used, Facts) = 0
    BY DEF OfLine
  <2>2. \A f \in Facts : used[f] \in Nat
    BY AllocatedPairs DEF TaxCaseInv
  <2>3. \A f \in of : part[f] = used[f]
    OBVIOUS
  <2> HIDE DEF used
  <2>4. \A f \in Facts : used[f] = 0
    <3> SUFFICES ASSUME NEW f \in Facts PROVE used[f] = 0
      OBVIOUS
    <3>1. SumFunctionOnSet(used, Facts) = used[f] + SumFunctionOnSet(used, Facts \ {f})
      BY <2>2, LinesAreFinite, SumRemove
    <3>2. SumFunctionOnSet(used, Facts \ {f}) \in Nat
      <4>1. IsFiniteSet(Facts \ {f}) /\ \A g \in Facts \ {f} : used[g] \in Nat
        BY <2>2, LinesAreFinite, FS_Subset
      <4> QED BY <4>1, SumNat
    <3> QED BY <2>1, <2>2, <3>1, <3>2
  <2>5. \A f \in of : part[f] = 0
    BY <2>3, <2>4
  <2> HIDE DEF part
  <2>6. SumFunctionOnSet(part, of) = 0
    BY <1>1, <2>5, SumZero
  <2> QED BY <2>6 DEF part
<1>9. SumFunctionOnSet(byLine, Lines) = SumFunctionOnSet(byLine, ofCase)
  <2> HIDE DEF byLine
  <2>1. ofCase \in SUBSET Lines
    OBVIOUS
  <2> HIDE DEF ofCase
  <2> QED BY <1>1, <1>7, <1>8, <2>1, SumSupport
<1>10. \A l \in ofCase : byLine[l] \in Int /\ byLine[l] = matched[l]
  BY <1>7
<1>11. SumFunctionOnSet(byLine, ofCase) = SumFunctionOnSet(matched, ofCase)
  <2> HIDE DEF byLine, matched, ofCase
  <2> QED BY <1>1, <1>10, SumEqual
<1>12. MatchedInMembers(of) = SumFunctionOnSet(matched, ofCase)
  BY DEF MatchedInMembers
<1> QED BY <1>3, <1>6, <1>9, <1>11, <1>12

\* What the blockers of a CURRENT snapshot exclude, together with the invariant, is the property.
LEMMA WorksheetsAreCovered == TaxCaseInv => WorksheetsAreCoveredByTheBooks
<1> SUFFICES ASSUME TaxCaseInv, NEW i \in Generated, WorksheetStatus(i) = "CURRENT"
             PROVE  /\ FactsIncome(worksheets[i]) = MatchedInMembers(worksheets[i])
                    /\ \A l \in Lines : OfLine(l) <= LineOf(l).amount
                    /\ CaseStatus = "CURRENT"
  BY DEF WorksheetsAreCoveredByTheBooks
<1> DEFINE of == worksheets[i]
<1>1. HardBlockers = {} /\ snapshots[i] = BuildCandidate /\ SoftBlockers = {}
  BY DEF WorksheetStatus, SnapshotStatus
<1>2. /\ \A m \in Members : books[m].lifecycle = "ACTIVE"
      /\ \A l \in Used : LineOf(l).bookSet \in Members
  BY <1>1 DEF HardBlockers
<1>3. /\ Members = Eligible
      /\ \A m \in Members : books[m].revision = membership.of[m]
      /\ \A f \in Proposed : facts[f].status = "HUMAN_CONFIRMED" => FactStatus(f) = "MATCHED"
  BY <1>1 DEF SoftBlockers
<1>4. of = IncomeOf(snapshots[i])
  <2>1. i \in DOMAIN snapshots /\ worksheets[i] # Nothing
    BY DEF Generated
  <2>2. i \in 1 .. MaxSnapshots
    BY <2>1 DEF TaxCaseInv, SnapshotsFit
  <2> QED BY <2>1, <2>2 DEF TaxCaseInv, WorksheetsFollowSnapshots
<1>5. \A f \in of : f \in Proposed /\ facts[f].status = "HUMAN_CONFIRMED"
  <2>1. snapshots[i].facts = [f \in Proposed |-> <<facts[f], OfFact(f)>>]
    BY <1>1 DEF BuildCandidate
  <2>2. \A f \in of : f \in DOMAIN snapshots[i].facts /\ snapshots[i].facts[f][1].status = "HUMAN_CONFIRMED"
    BY <1>4 DEF IncomeOf
  <2> QED BY <2>1, <2>2
<1>6. of \in SUBSET Facts
  BY <1>5 DEF Proposed
<1>7. \A f \in of : OfFact(f) = Gross(f)
  <2> SUFFICES ASSUME NEW f \in of PROVE OfFact(f) = Gross(f)
    OBVIOUS
  <2>1. FactStatus(f) = "MATCHED" /\ facts[f].status # "REJECTED"
    BY <1>3, <1>5
  <2> DEFINE reconciled == OfFact(f)
             gross == Gross(f)
  <2>2. (CASE reconciled = 0 -> "UNMATCHED"
           [] reconciled # 0 /\ reconciled = gross -> "MATCHED"
           [] reconciled # 0 /\ reconciled < gross -> "PARTIALLY_MATCHED"
           [] OTHER -> "AMOUNT_MISMATCH") = "MATCHED"
    BY <2>1 DEF FactStatus
  <2> HIDE DEF reconciled, gross
  <2>3. reconciled = gross
    BY <2>2
  <2> QED BY <2>3 DEF reconciled, gross
<1>8. \A l \in Lines : LineOf(l).bookSet \notin Members => OfLine(l) = 0
  <2>1. \A l \in Lines : OfLine(l) \in Nat
    BY OfLineNat DEF TaxCaseInv
  <2> QED BY <1>2, <2>1 DEF Used
<1>9. FactsIncome(of) = MatchedInMembers(of)
  BY <1>6, <1>7, <1>8, MatchedIsIncome
<1>10. CaseStatus = "CURRENT"
  BY <1>2, <1>3 DEF CaseStatus
<1> QED BY <1>9, <1>10 DEF TaxCaseInv, LinesNotOverused

\* A source that sourceReadinessInSession calls READY has no undecided fact,
\* for any sources, facts and assessments in whatever order they came.
THEOREM ReadySourcesHold == TaxCaseSpec => []ReadySourceIsSettled
BY TaxCaseStarts, TaxCaseStep, ReadyIsSettled, PTL DEF TaxCaseSpec

\* The income of a CURRENT worksheet of deriveWorksheet is money on journal
\* lines of the captured BookSets, and no line is used twice, for any facts,
\* lines and amounts.
THEOREM WorksheetsHold == TaxCaseSpec => []WorksheetsAreCoveredByTheBooks
BY TaxCaseStarts, TaxCaseStep, WorksheetsAreCovered, PTL DEF TaxCaseSpec

-----------------------------------------------------------------------------
(* TaxReturns.  The evaluation is a recursive function over the nodes of   *)
(* the rules.  That there is such a function, and that it never answers    *)
(* more than is known, is shown by induction over the depth of a node, for *)
(* which validateRule has a bound.  The invariant carries that to what was *)
(* selected: rules stay as they were registered.                           *)

\* The nodes from a depth on, and what a function has to be on them to be the value of each.
From(d) == UNION {NodesAt[e] : e \in d .. MaxDepth}
ValuedOn(S, value, known) == \A node \in S : value[node] = EvaluateNode(node, value, known)
HeldOn(S, holds, situation) == \A node \in S : holds[node] = HoldsAt(node, holds, situation)

\* The value of every node, which EvaluateRule and Holds take the one of a rule from.
Values(known) == CHOOSE value : value = [node \in Nodes |-> EvaluateNode(node, value, known)]
Truths(situation) == CHOOSE holds : holds = [node \in Nodes |-> HoldsAt(node, holds, situation)]

-----------------------------------------------------------------------------
\* The nodes from a depth on are those at the depth and those below it.
LEMMA Depths ==
  /\ MaxDepth \in Nat
  /\ From(0) = Nodes
  /\ From(MaxDepth + 1) = {}
  /\ \A d \in 0 .. MaxDepth : From(d) = NodesAt[d] \cup From(d + 1)
<1>1. MaxDepth \in Nat
  BY ReturnsAssumption
<1>2. (MaxDepth + 1) .. MaxDepth = {}
  BY <1>1
<1>3. \A d \in 0 .. MaxDepth : d .. MaxDepth = {d} \cup (d + 1 .. MaxDepth)
  BY <1>1
<1> QED BY <1>1, <1>2, <1>3 DEF From, Nodes

\* The children of a node are at the next depth.
LEMMA ChildrenAreDeeper ==
  ASSUME NEW d \in 0 .. MaxDepth, NEW node \in From(d)
  PROVE  Children(node) \subseteq From(d + 1)
<1>1. PICK e \in d .. MaxDepth : node \in NodesAt[e]
  BY DEF From
<1>2. e \in 0 .. MaxDepth /\ MaxDepth \in Nat
  BY ReturnsAssumption
<1>3. Children(node) \subseteq IF e < MaxDepth THEN NodesAt[e + 1] ELSE {}
  BY <1>1, <1>2, ReturnsAssumption
<1>4. CASE e < MaxDepth
  <2>1. e + 1 \in d + 1 .. MaxDepth
    BY <1>2, <1>4
  <2> HIDE DEF Children
  <2> QED BY <1>3, <1>4, <2>1 DEF From
<1>5. CASE ~(e < MaxDepth)
  BY <1>3, <1>5
<1> QED BY <1>4, <1>5

\* Induction from the leaves up, with the depths that have the property given as a set.
LEMMA DepthInduction ==
  ASSUME NEW P, MaxDepth + 1 \in P, \A d \in 0 .. MaxDepth : d + 1 \in P => d \in P
  PROVE  0 \in P
<1> DEFINE n == MaxDepth + 1
           Q == {k \in 0 .. n : n - k \in P}
<1>1. MaxDepth \in Nat /\ n \in Nat
  BY ReturnsAssumption
<1>2. 0 \in Q
  BY <1>1
<1>3. \A k \in 0 .. n - 1 : k \in Q => k + 1 \in Q
  <2> SUFFICES ASSUME NEW k \in 0 .. n - 1, n - k \in P PROVE k + 1 \in 0 .. n /\ n - (k + 1) \in P
    OBVIOUS
  <2>1. n - (k + 1) \in 0 .. MaxDepth /\ (n - (k + 1)) + 1 = n - k /\ k + 1 \in 0 .. n
    BY <1>1
  <2> QED BY <2>1
<1>4. n \in Q
  <2> HIDE DEF n, Q
  <2> QED BY <1>1, <1>2, <1>3, StepwiseInduction
<1> QED BY <1>1, <1>4

\* A node depends on its children only.
LEMMA NodeLocal ==
  ASSUME NEW rule, NEW f, NEW g, NEW known, \A child \in Children(rule) : f[child] = g[child]
  PROVE  EvaluateNode(rule, f, known) = EvaluateNode(rule, g, known)
<1> DEFINE a == {f[child] : child \in Children(rule)}
           b == {g[child] : child \in Children(rule)}
<1>1. a = b
  OBVIOUS
<1> QED BY <1>1 DEF EvaluateNode

\* The same of a rule in two values.
LEMMA TruthLocal ==
  ASSUME NEW rule, NEW f, NEW g, NEW situation, \A child \in Children(rule) : f[child] = g[child]
  PROVE  HoldsAt(rule, f, situation) = HoldsAt(rule, g, situation)
<1>1. (\A child \in Children(rule) : f[child]) <=> (\A child \in Children(rule) : g[child])
  OBVIOUS
<1>2. (\E child \in Children(rule) : f[child]) <=> (\E child \in Children(rule) : g[child])
  OBVIOUS
<1>3. (\A child \in Children(rule) : ~f[child]) <=> (\A child \in Children(rule) : ~g[child])
  OBVIOUS
<1> QED BY <1>1, <1>2, <1>3 DEF HoldsAt

-----------------------------------------------------------------------------
\* There is one function that gives every node the value its children make it, and EvaluateRule takes its values.
LEMMA ValuesUnfold ==
  ASSUME NEW known
  PROVE  ValuedOn(Nodes, Values(known), known)
<1> DEFINE P == {d \in 0 .. MaxDepth + 1 : \E f : ValuedOn(From(d), f, known)}
<1>1. MaxDepth + 1 \in P
  <2>1. MaxDepth + 1 \in 0 .. MaxDepth + 1
    BY Depths
  <2>2. \A f : ValuedOn(From(MaxDepth + 1), f, known)
    BY Depths DEF ValuedOn
  <2> QED BY <2>1, <2>2
<1>2. ASSUME NEW d \in 0 .. MaxDepth, d + 1 \in P PROVE d \in P
  <2>1. PICK f : ValuedOn(From(d + 1), f, known)
    BY <1>2
  <2> DEFINE g == [node \in From(d) |-> EvaluateNode(node, f, known)]
  <2>2. From(d + 1) \subseteq From(d)
    BY Depths
  <2>3. \A node \in From(d) : g[node] = EvaluateNode(node, f, known)
    OBVIOUS
  <2> HIDE DEF g
  <2>4. \A node \in From(d + 1) : g[node] = f[node]
    BY <2>1, <2>2, <2>3 DEF ValuedOn
  <2>5. \A node \in From(d) : g[node] = EvaluateNode(node, g, known)
    <3> TAKE node \in From(d)
    <3>1. \A child \in Children(node) : g[child] = f[child]
      BY <2>4, ChildrenAreDeeper
    <3> QED BY <2>3, <3>1, NodeLocal
  <2>6. \E h : ValuedOn(From(d), h, known)
    BY <2>5 DEF ValuedOn
  <2>7. d \in 0 .. MaxDepth + 1
    BY Depths
  <2> QED BY <2>6, <2>7
<1>3. 0 \in P
  <2> HIDE DEF P
  <2> QED BY <1>1, <1>2, DepthInduction
<1>4. PICK f : \A node \in Nodes : f[node] = EvaluateNode(node, f, known)
  BY <1>3, Depths DEF ValuedOn
<1> DEFINE g == [node \in Nodes |-> f[node]]
<1>5. \A node \in Nodes : g[node] = f[node]
  OBVIOUS
<1>6. \A node \in Nodes : EvaluateNode(node, g, known) = EvaluateNode(node, f, known)
  <2> TAKE node \in Nodes
  <2>1. \A child \in Children(node) : child \in Nodes
    <3>1. node \in From(0) /\ 0 \in 0 .. MaxDepth
      BY Depths
    <3>2. Children(node) \subseteq From(0 + 1)
      BY <3>1, ChildrenAreDeeper
    <3>3. From(0 + 1) \subseteq Nodes
      BY Depths, <3>1
    <3> QED BY <3>2, <3>3
  <2>2. \A child \in Children(node) : g[child] = f[child]
    BY <1>5, <2>1
  <2> HIDE DEF g
  <2> QED BY <2>2, NodeLocal
<1>7. g = [node \in Nodes |-> EvaluateNode(node, g, known)]
  <2>1. \A node \in Nodes : f[node] = EvaluateNode(node, g, known)
    BY <1>4, <1>6
  <2> DEFINE h == [node \in Nodes |-> EvaluateNode(node, g, known)]
  <2>2. \A node \in Nodes : h[node] = f[node]
    BY <2>1
  <2> QED BY <2>2
<1> HIDE DEF g
<1>8. Values(known) = [node \in Nodes |-> EvaluateNode(node, Values(known), known)]
  BY <1>7 DEF Values
<1> QED BY <1>8 DEF ValuedOn

\* The same of the rules in two values.
LEMMA TruthsUnfold ==
  ASSUME NEW situation
  PROVE  HeldOn(Nodes, Truths(situation), situation)
<1> DEFINE P == {d \in 0 .. MaxDepth + 1 : \E f : HeldOn(From(d), f, situation)}
<1>1. MaxDepth + 1 \in P
  <2>1. MaxDepth + 1 \in 0 .. MaxDepth + 1
    BY Depths
  <2>2. \A f : HeldOn(From(MaxDepth + 1), f, situation)
    BY Depths DEF HeldOn
  <2> QED BY <2>1, <2>2
<1>2. ASSUME NEW d \in 0 .. MaxDepth, d + 1 \in P PROVE d \in P
  <2>1. PICK f : HeldOn(From(d + 1), f, situation)
    BY <1>2
  <2> DEFINE g == [node \in From(d) |-> HoldsAt(node, f, situation)]
  <2>2. From(d + 1) \subseteq From(d)
    BY Depths
  <2>3. \A node \in From(d) : g[node] = HoldsAt(node, f, situation)
    OBVIOUS
  <2> HIDE DEF g
  <2>4. \A node \in From(d + 1) : g[node] = f[node]
    BY <2>1, <2>2, <2>3 DEF HeldOn
  <2>5. \A node \in From(d) : g[node] = HoldsAt(node, g, situation)
    <3> TAKE node \in From(d)
    <3>1. \A child \in Children(node) : g[child] = f[child]
      BY <2>4, ChildrenAreDeeper
    <3> QED BY <2>3, <3>1, TruthLocal
  <2>6. \E h : HeldOn(From(d), h, situation)
    BY <2>5 DEF HeldOn
  <2>7. d \in 0 .. MaxDepth + 1
    BY Depths
  <2> QED BY <2>6, <2>7
<1>3. 0 \in P
  <2> HIDE DEF P
  <2> QED BY <1>1, <1>2, DepthInduction
<1>4. PICK f : \A node \in Nodes : f[node] = HoldsAt(node, f, situation)
  BY <1>3, Depths DEF HeldOn
<1> DEFINE g == [node \in Nodes |-> f[node]]
<1>5. \A node \in Nodes : g[node] = f[node]
  OBVIOUS
<1>6. \A node \in Nodes : HoldsAt(node, g, situation) = HoldsAt(node, f, situation)
  <2> TAKE node \in Nodes
  <2>1. \A child \in Children(node) : child \in Nodes
    <3>1. node \in From(0) /\ 0 \in 0 .. MaxDepth
      BY Depths
    <3>2. Children(node) \subseteq From(0 + 1)
      BY <3>1, ChildrenAreDeeper
    <3>3. From(0 + 1) \subseteq Nodes
      BY Depths, <3>1
    <3> QED BY <3>2, <3>3
  <2>2. \A child \in Children(node) : g[child] = f[child]
    BY <1>5, <2>1
  <2> HIDE DEF g
  <2> QED BY <2>2, TruthLocal
<1>7. g = [node \in Nodes |-> HoldsAt(node, g, situation)]
  <2>1. \A node \in Nodes : f[node] = HoldsAt(node, g, situation)
    BY <1>4, <1>6
  <2> DEFINE h == [node \in Nodes |-> HoldsAt(node, g, situation)]
  <2>2. \A node \in Nodes : h[node] = f[node]
    BY <2>1
  <2> QED BY <2>2
<1> HIDE DEF g
<1>8. Truths(situation) = [node \in Nodes |-> HoldsAt(node, Truths(situation), situation)]
  BY <1>7 DEF Truths
<1> QED BY <1>8 DEF HeldOn

-----------------------------------------------------------------------------
\* What a node comes to is never more than is known of the situation.
Agrees(known, situation) == \A f \in DOMAIN known : known[f].verified => situation[f] = {known[f].value}
SoundOn(node, known, situation) ==
  /\ Values(known)[node] \in {"TRUE", "FALSE", "UNKNOWN"}
  /\ Values(known)[node] = "TRUE" => Truths(situation)[node]
  /\ Values(known)[node] = "FALSE" => ~Truths(situation)[node]

\* A test on a field knows only what is verified, and there the situation agrees.
LEMMA LeafIsSound ==
  ASSUME NEW known, NEW situation, Agrees(known, situation), NEW rule,
         rule.op \notin {"all", "any", "not"}
  PROVE  /\ EvaluateLeaf(rule, known) \in {"TRUE", "FALSE", "UNKNOWN"}
         /\ \A holds : EvaluateLeaf(rule, known) = "TRUE" => HoldsAt(rule, holds, situation)
         /\ \A holds : EvaluateLeaf(rule, known) = "FALSE" => ~HoldsAt(rule, holds, situation)
<1>1. CASE rule.field \notin DOMAIN known \/ ~known[rule.field].verified
  BY <1>1 DEF EvaluateLeaf
<1>2. CASE rule.field \in DOMAIN known /\ known[rule.field].verified
  <2>1. situation[rule.field] = {known[rule.field].value}
    BY <1>2 DEF Agrees
  <2>2. CASE rule.op = "exists"
    BY <1>2, <2>1, <2>2 DEF EvaluateLeaf, HoldsAt
  <2>3. CASE rule.op = "missing"
    BY <1>2, <2>1, <2>3 DEF EvaluateLeaf, HoldsAt
  <2>4. CASE rule.op \notin {"exists", "missing"}
    <3>1. EvaluateLeaf(rule, known) = IF known[rule.field].value \in rule.values THEN "TRUE" ELSE "FALSE"
      BY <1>2, <2>4 DEF EvaluateLeaf
    <3>2. \A holds : HoldsAt(rule, holds, situation) <=> situation[rule.field] \cap rule.values # {}
      BY <2>4 DEF HoldsAt
    <3> QED BY <2>1, <3>1, <3>2
  <2> QED BY <2>2, <2>3, <2>4
<1> QED BY <1>1, <1>2

\* Each connective passes on no more than its children know.
LEMMA NodeIsSound ==
  ASSUME NEW known, NEW situation, Agrees(known, situation), NEW node \in Nodes,
         \A child \in Children(node) : SoundOn(child, known, situation)
  PROVE  SoundOn(node, known, situation)
<1> DEFINE value == Values(known)
           holds == Truths(situation)
           children == {value[child] : child \in Children(node)}
<1>1. value[node] = EvaluateNode(node, value, known)
  BY ValuesUnfold DEF ValuedOn
<1>2. holds[node] = HoldsAt(node, holds, situation)
  BY TruthsUnfold DEF HeldOn
<1>3. \A child \in Children(node) :
        /\ value[child] \in {"TRUE", "FALSE", "UNKNOWN"}
        /\ value[child] = "TRUE" => holds[child]
        /\ value[child] = "FALSE" => ~holds[child]
  BY DEF SoundOn
<1>4. \A v : v \in children <=> \E child \in Children(node) : value[child] = v
  OBVIOUS
<1> SUFFICES /\ value[node] \in {"TRUE", "FALSE", "UNKNOWN"}
             /\ value[node] = "TRUE" => holds[node]
             /\ value[node] = "FALSE" => ~holds[node]
  BY DEF SoundOn
<1> HIDE DEF value, holds
<1>5. CASE node.op = "all"
  <2>1. value[node] = IF "FALSE" \in children THEN "FALSE" ELSE IF "UNKNOWN" \in children THEN "UNKNOWN" ELSE "TRUE"
    BY <1>1, <1>5 DEF EvaluateNode
  <2>2. holds[node] <=> \A child \in Children(node) : holds[child]
    BY <1>2, <1>5 DEF HoldsAt
  <2> HIDE DEF children
  <2> QED BY <1>3, <1>4, <2>1, <2>2
<1>6. CASE node.op = "any"
  <2>1. value[node] = IF "TRUE" \in children THEN "TRUE" ELSE IF "UNKNOWN" \in children THEN "UNKNOWN" ELSE "FALSE"
    BY <1>1, <1>6 DEF EvaluateNode
  <2>2. holds[node] <=> \E child \in Children(node) : holds[child]
    BY <1>2, <1>6 DEF HoldsAt
  <2> HIDE DEF children
  <2> QED BY <1>3, <1>4, <2>1, <2>2
<1>7. CASE node.op = "not"
  <2>1. value[node] = IF "UNKNOWN" \in children THEN "UNKNOWN" ELSE IF "TRUE" \in children THEN "FALSE" ELSE "TRUE"
    BY <1>1, <1>7 DEF EvaluateNode
  <2>2. holds[node] <=> \A child \in Children(node) : ~holds[child]
    BY <1>2, <1>7 DEF HoldsAt
  <2> HIDE DEF children
  <2> QED BY <1>3, <1>4, <2>1, <2>2
<1>8. CASE node.op \notin {"all", "any", "not"}
  <2>1. value[node] = EvaluateLeaf(node, known)
    BY <1>1, <1>8 DEF EvaluateNode
  <2> QED BY <1>2, <1>8, <2>1, LeafIsSound
<1> QED BY <1>5, <1>6, <1>7, <1>8

\* Three-valued evaluation is sound: by induction over the depth of a node.
LEMMA EvaluationIsSound ==
  ASSUME NEW known, NEW situation, Agrees(known, situation), NEW rule \in Rules,
         EvaluateRule(rule, known) = "TRUE"
  PROVE  Holds(rule, situation)
<1> DEFINE P == {d \in 0 .. MaxDepth + 1 : \A node \in From(d) : SoundOn(node, known, situation)}
<1>1. MaxDepth + 1 \in P
  <2>1. MaxDepth + 1 \in 0 .. MaxDepth + 1
    BY Depths
  <2> QED BY <2>1, Depths
<1>2. ASSUME NEW d \in 0 .. MaxDepth, d + 1 \in P PROVE d \in P
  <2>1. d \in 0 .. MaxDepth + 1 /\ From(d) \subseteq Nodes
    <3>1. MaxDepth \in Nat /\ d .. MaxDepth \subseteq 0 .. MaxDepth
      BY Depths
    <3> QED BY <3>1 DEF From, Nodes
  <2>2. \A child \in From(d + 1) : SoundOn(child, known, situation)
    BY <1>2
  <2>3. \A node \in From(d) : SoundOn(node, known, situation)
    BY <2>1, <2>2, ChildrenAreDeeper, NodeIsSound
  <2> QED BY <2>1, <2>3
<1>3. 0 \in P
  <2> HIDE DEF P
  <2> QED BY <1>1, <1>2, DepthInduction
<1>4. rule \in Nodes
  BY ReturnsAssumption DEF Rules, Nodes
<1>5. SoundOn(rule, known, situation)
  BY <1>3, <1>4, Depths
<1>6. EvaluateRule(rule, known) = Values(known)[rule]
  BY DEF EvaluateRule, Values
<1>7. Holds(rule, situation) = Truths(situation)[rule]
  BY DEF Holds, Truths
<1> QED BY <1>5, <1>6, <1>7 DEF SoundOn

-----------------------------------------------------------------------------
AuthorityRow == [event : {"NONE", "REGISTERED", "HUMAN_VERIFIED", "REJECTED", "SUPERSEDED"},
                 rules : RulesOfForms \cup {[f \in Forms |-> NoPack]},
                 supersedes : AuthorityPacks \cup {NoPack}]

ReturnTypes ==
  /\ authority \in [AuthorityPacks -> AuthorityRow]
  /\ \E S : evaluations \in Seq(S)
  /\ \E S : selections \in Seq(S)

RegisteredHaveRules == \A p \in AuthorityPacks : authority[p].event # "NONE" => authority[p].rules \in RulesOfForms

\* What was evaluated is still what the rules of the pack come to over the facts that were there.
Evaluated(e) ==
  /\ e.pack \in AuthorityPacks /\ authority[e.pack].event # "NONE"
  /\ e.results = [f \in Forms |-> EvaluateRule(authority[e.pack].rules[f], LatestFacts(e.facts))]
EvaluationsFollowTheirPacks == \A i \in DOMAIN evaluations : Evaluated(evaluations[i])

SelectedAreTrue ==
  \A i \in DOMAIN selections :
    /\ selections[i].evaluation \in DOMAIN evaluations /\ selections[i].form \in Forms
    /\ evaluations[selections[i].evaluation].results[selections[i].form] = "TRUE"

ReturnInv == ReturnTypes /\ RegisteredHaveRules /\ EvaluationsFollowTheirPacks /\ SelectedAreTrue

\* Nothing is registered, evaluated or selected at first.
LEMMA ReturnStarts == ReturnInit => ReturnInv
<1> SUFFICES ASSUME ReturnInit PROVE ReturnInv
  OBVIOUS
<1>1. authority \in [AuthorityPacks -> AuthorityRow]
  BY DEF ReturnInit, AuthorityRow
<1>2. evaluations \in Seq({}) /\ selections \in Seq({})
  BY DEF ReturnInit
<1>3. RegisteredHaveRules
  BY DEF ReturnInit, RegisteredHaveRules
<1> QED BY <1>1, <1>2, <1>3 DEF ReturnInit, ReturnInv, ReturnTypes, EvaluationsFollowTheirPacks, SelectedAreTrue

\* Snapshots, facts, packs of the other kinds, computations and artifacts are no part of the invariant.
LEMMA ReturnStays ==
  ASSUME ReturnInv, UNCHANGED <<authority, evaluations, selections>>
  PROVE  ReturnInv'
BY DEF ReturnInv, ReturnTypes, RegisteredHaveRules, EvaluationsFollowTheirPacks, Evaluated, SelectedAreTrue

\* A pack's rules are there once it is registered, and never change.
LEMMA AuthorityKeeps ==
  ASSUME ReturnInv, authority' \in [AuthorityPacks -> AuthorityRow], RegisteredHaveRules',
         \A p \in AuthorityPacks : authority[p].event # "NONE" =>
           authority'[p].event # "NONE" /\ authority'[p].rules = authority[p].rules,
         UNCHANGED <<evaluations, selections>>
  PROVE  ReturnInv'
<1>1. EvaluationsFollowTheirPacks'
  BY DEF ReturnInv, EvaluationsFollowTheirPacks, Evaluated
<1> QED BY <1>1 DEF ReturnInv, ReturnTypes, SelectedAreTrue

\* A pack is registered once; the one it supersedes keeps its rules.
LEMMA RegisterKeeps ==
  ASSUME ReturnInv, NEW p \in AuthorityPacks, NEW table \in RulesOfForms, NEW old \in AuthorityPacks \cup {NoPack},
         RegisterAuthorityPack(p, table, old)
  PROVE  ReturnInv'
<1>1. /\ authority[p].event = "NONE"
      /\ old # NoPack => Verified(old)
      /\ authority' = [q \in AuthorityPacks |->
           IF q = p THEN [event |-> "REGISTERED", rules |-> table, supersedes |-> old]
           ELSE IF q = old THEN [authority[q] EXCEPT !.event = "SUPERSEDED"] ELSE authority[q]]
      /\ UNCHANGED <<evaluations, selections>>
  BY DEF RegisterAuthorityPack
<1>2. \A q \in AuthorityPacks : authority[q] \in AuthorityRow
  BY DEF ReturnInv, ReturnTypes
<1>3. /\ authority'[p].event = "REGISTERED" /\ authority'[p].rules = table
      /\ authority'[p] \in AuthorityRow
  BY <1>1 DEF AuthorityRow
<1>4. ASSUME NEW q \in AuthorityPacks, q # p
      PROVE  /\ authority'[q] \in AuthorityRow
             /\ authority'[q].rules = authority[q].rules
             /\ authority'[q].event # "NONE" <=> authority[q].event # "NONE"
  <2>1. CASE q = old
    <3>1. authority'[q] = [authority[q] EXCEPT !.event = "SUPERSEDED"] /\ authority[q].event # "NONE"
      BY <1>1, <1>4, <2>1, ReturnsAssumption DEF Verified
    <3> QED BY <1>2, <3>1 DEF AuthorityRow
  <2>2. CASE q # old
    <3>1. authority'[q] = authority[q]
      BY <1>1, <1>4, <2>2
    <3> QED BY <1>2, <3>1
  <2> QED BY <2>1, <2>2
<1>5. authority' \in [AuthorityPacks -> AuthorityRow]
  <2>1. \A q \in AuthorityPacks : authority'[q] \in AuthorityRow
    BY <1>3, <1>4
  <2>2. authority' = [q \in AuthorityPacks |-> authority'[q]]
    BY <1>1
  <2> QED BY <2>1, <2>2
<1>6. RegisteredHaveRules'
  BY <1>3, <1>4 DEF ReturnInv, RegisteredHaveRules
<1> QED BY <1>1, <1>3, <1>4, <1>5, <1>6, AuthorityKeeps

\* A decision about a pack changes no rule.
LEMMA DecideAuthorityKeeps ==
  ASSUME ReturnInv, NEW p \in AuthorityPacks, NEW v \in {"HUMAN_VERIFIED", "REJECTED"}, DecideAuthorityPack(p, v)
  PROVE  ReturnInv'
<1> DEFINE row == [authority[p] EXCEPT !.event = v]
<1>1. /\ authority[p].event = "REGISTERED"
      /\ authority' = [authority EXCEPT ![p] = row]
      /\ UNCHANGED <<evaluations, selections>>
  BY DEF DecideAuthorityPack
<1>2. authority \in [AuthorityPacks -> AuthorityRow] /\ authority[p] \in AuthorityRow
  BY DEF ReturnInv, ReturnTypes
<1>3. row \in AuthorityRow /\ row.rules = authority[p].rules /\ row.event # "NONE"
  BY <1>2 DEF AuthorityRow
<1> HIDE DEF row
<1>4. /\ authority' \in [AuthorityPacks -> AuthorityRow]
      /\ authority'[p] = row
      /\ \A q \in AuthorityPacks : q # p => authority'[q] = authority[q]
  BY <1>1, <1>2, <1>3
<1>5. \A q \in AuthorityPacks : /\ authority'[q].rules = authority[q].rules
                                /\ authority'[q].event # "NONE" <=> authority[q].event # "NONE"
  BY <1>1, <1>3, <1>4
<1>6. RegisteredHaveRules'
  BY <1>5 DEF ReturnInv, RegisteredHaveRules
<1> QED BY <1>1, <1>4, <1>5, <1>6, AuthorityKeeps

\* An evaluation is what the rules of a registered pack come to.
LEMMA EvaluateKeeps ==
  ASSUME ReturnInv, NEW p \in AuthorityPacks, NEW s, Evaluate(p, s)
  PROVE  ReturnInv'
<1> DEFINE row == [pack |-> p, snapshot |-> s, facts |-> FactRows(s),
                   results |-> [f \in Forms |-> EvaluateRule(authority[p].rules[f], LatestFacts(FactRows(s)))]]
<1>1. /\ Verified(p)
      /\ evaluations' = Append(evaluations, row)
      /\ authority' = authority /\ selections' = selections
  BY DEF Evaluate
<1>2. Evaluated(row)
  BY <1>1 DEF Evaluated, Verified
<1> HIDE DEF row
<1>3. PICK S : evaluations \in Seq(S)
  BY DEF ReturnInv, ReturnTypes
<1>4. evaluations \in Seq(S \cup {row})
  BY <1>3
<1>5. /\ evaluations' \in Seq(S \cup {row})
      /\ DOMAIN evaluations' = DOMAIN evaluations \cup {Len(evaluations) + 1}
      /\ evaluations'[Len(evaluations) + 1] = row
      /\ \A i \in DOMAIN evaluations : evaluations'[i] = evaluations[i]
  BY <1>1, <1>4
<1>6. EvaluationsFollowTheirPacks'
  BY <1>1, <1>2, <1>5 DEF ReturnInv, EvaluationsFollowTheirPacks, Evaluated
<1>7. SelectedAreTrue'
  BY <1>1, <1>5 DEF ReturnInv, SelectedAreTrue
<1> QED BY <1>1, <1>5, <1>6, <1>7 DEF ReturnInv, ReturnTypes, RegisteredHaveRules

\* Only a form whose rule came to TRUE is selected.
LEMMA SelectKeeps ==
  ASSUME ReturnInv, NEW e, NEW f \in Forms, SelectForm(e, f)
  PROVE  ReturnInv'
<1> DEFINE row == [evaluation |-> e, form |-> f]
<1>1. /\ e \in DOMAIN evaluations
      /\ evaluations[e].results[f] = "TRUE"
      /\ selections' = Append(selections, row)
      /\ authority' = authority /\ evaluations' = evaluations
  BY DEF SelectForm
<1>2. row.evaluation = e /\ row.form = f
  OBVIOUS
<1> HIDE DEF row
<1>3. PICK S : selections \in Seq(S)
  BY DEF ReturnInv, ReturnTypes
<1>4. selections \in Seq(S \cup {row})
  BY <1>3
<1>5. /\ selections' \in Seq(S \cup {row})
      /\ DOMAIN selections' = DOMAIN selections \cup {Len(selections) + 1}
      /\ selections'[Len(selections) + 1] = row
      /\ \A i \in DOMAIN selections : selections'[i] = selections[i]
  BY <1>1, <1>4
<1>6. SelectedAreTrue'
  BY <1>1, <1>2, <1>5 DEF ReturnInv, SelectedAreTrue
<1> QED BY <1>1, <1>5, <1>6 DEF ReturnInv, ReturnTypes, RegisteredHaveRules, EvaluationsFollowTheirPacks, Evaluated

\* Every operation and a stutter keep the invariant.
LEMMA ReturnStep == ReturnInv /\ [ReturnNext]_returnVars => ReturnInv'
<1> SUFFICES ASSUME ReturnInv, [ReturnNext]_returnVars PROVE ReturnInv'
  OBVIOUS
<1>1. ASSUME NEW p \in AuthorityPacks, NEW table \in RulesOfForms, NEW old \in AuthorityPacks \cup {NoPack},
             RegisterAuthorityPack(p, table, old)
      PROVE  ReturnInv'
  BY <1>1, RegisterKeeps
<1>2. ASSUME NEW p \in AuthorityPacks, NEW v \in {"HUMAN_VERIFIED", "REJECTED"}, DecideAuthorityPack(p, v)
      PROVE  ReturnInv'
  BY <1>2, DecideAuthorityKeeps
<1>3. ASSUME NEW p \in AuthorityPacks, NEW s \in 1 .. MaxSnapshotsSealed, Evaluate(p, s) PROVE ReturnInv'
  BY <1>3, EvaluateKeeps
<1>4. ASSUME NEW e \in 1 .. MaxEvaluations, NEW f \in Forms, SelectForm(e, f) PROVE ReturnInv'
  BY <1>4, SelectKeeps
<1>5. CASE MoveBasis \/ SealSnapshot
  BY <1>5, ReturnStays DEF MoveBasis, SealSnapshot
<1>6. ASSUME NEW s \in 1 .. MaxSnapshotsSealed, NEW f \in Fields, NEW v \in FactValues, NEW verified \in BOOLEAN,
             NEW tie \in BOOLEAN, RecordEligibilityFact(s, f, v, verified, tie)
      PROVE  ReturnInv'
  BY <1>6, ReturnStays DEF RecordEligibilityFact
<1>7. ASSUME NEW p \in ComputationPacks \cup SchemaPacks, NEW a \in AuthorityPacks, NEW f \in Forms, RegisterPack(p, a, f)
      PROVE  ReturnInv'
  BY <1>7, ReturnStays DEF RegisterPack
<1>8. ASSUME NEW p \in ComputationPacks \cup SchemaPacks, VerifyPack(p) \/ RejectPack(p) PROVE ReturnInv'
  BY <1>8, ReturnStays DEF VerifyPack, RejectPack
<1>9. ASSUME NEW i \in DOMAIN selections, NEW p \in ComputationPacks, GenerateComputation(i, p) PROVE ReturnInv'
  BY <1>9, ReturnStays DEF GenerateComputation
<1>10. ASSUME NEW c \in 1 .. MaxComputations, ApproveComputation(c) PROVE ReturnInv'
  BY <1>10, ReturnStays DEF ApproveComputation
<1>11. ASSUME NEW c \in 1 .. MaxComputations, NEW p \in SchemaPacks, PrepareArtifact(c, p) PROVE ReturnInv'
  BY <1>11, ReturnStays DEF PrepareArtifact
<1>12. ASSUME NEW i \in 1 .. MaxArtifacts, NEW v \in {"LOCAL_VALID", "LOCAL_INVALID"}, ValidateArtifact(i, v)
       PROVE  ReturnInv'
  BY <1>12, ReturnStays DEF ValidateArtifact
<1>13. ASSUME NEW i \in 1 .. MaxArtifacts, ExportArtifact(i) PROVE ReturnInv'
  BY <1>13, ReturnStays DEF ExportArtifact
<1>14. CASE UNCHANGED returnVars
  BY <1>14, ReturnStays DEF returnVars
<1> QED BY <1>1, <1>2, <1>3, <1>4, <1>5, <1>6, <1>7, <1>8, <1>9, <1>10, <1>11, <1>12, <1>13, <1>14 DEF ReturnNext

\* The invariant and the soundness of the evaluation give the property.
LEMMA SelectedHold == ReturnInv => SelectedFormsHoldHoweverTheUnknownsFall
<1> SUFFICES ASSUME ReturnInv, NEW i \in DOMAIN selections, NEW situation \in Situations,
                    \A f \in {g \in DOMAIN LatestFacts(evaluations[EvaluationOf(i)].facts) :
                               LatestFacts(evaluations[EvaluationOf(i)].facts)[g].verified} :
                      situation[f] = {LatestFacts(evaluations[EvaluationOf(i)].facts)[f].value}
             PROVE  Holds(authority[evaluations[EvaluationOf(i)].pack].rules[selections[i].form], situation)
  BY DEF SelectedFormsHoldHoweverTheUnknownsFall
<1> DEFINE e == evaluations[EvaluationOf(i)]
           form == selections[i].form
           rule == authority[e.pack].rules[form]
<1>1. Evaluated(e) /\ form \in Forms /\ e.results[form] = "TRUE"
  BY DEF ReturnInv, EvaluationsFollowTheirPacks, SelectedAreTrue, EvaluationOf
<1>2. Agrees(LatestFacts(e.facts), situation)
  BY DEF Agrees
<1> HIDE DEF e
<1>3. rule \in Rules
  BY <1>1 DEF ReturnInv, RegisteredHaveRules, RulesOfForms, Evaluated
<1>4. EvaluateRule(rule, LatestFacts(e.facts)) = "TRUE"
  BY <1>1 DEF Evaluated
<1>5. Holds(rule, situation)
  BY <1>2, <1>3, <1>4, EvaluationIsSound
<1> QED BY <1>5 DEF e

\* Whatever the unverified facts turn out to be, the rule of a selected form
\* holds: evaluateRule is sound for every rule tree validateRule lets in, over
\* any fields and values, and neither packs nor facts that come later change
\* what was evaluated.
THEOREM SelectedFormsHold == ReturnSpec => []SelectedFormsHoldHoweverTheUnknownsFall
BY ReturnStarts, ReturnStep, SelectedHold, PTL DEF ReturnSpec
=============================================================================
