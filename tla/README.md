# Verification of Agent Bahi

TLA+ models of the parts of Agent Bahi whose correctness depends on order:
what happens between two commands, between two transactions of one command,
between two awaits of one handler, and when a process dies in the middle. TLC
checks the models on small instances; TLAPS proves the theorems listed below
for every value of the constants. Paths are relative to the repository root.

## 1. The system

Agent Bahi keeps the books of Indian companies and persons in one SQLite file.
Agents call *operations* (`src/transport/catalog.ts`) through a CLI, an MCP
server on stdio or an MCP server on HTTP. The dispatcher runs each operation
against a service; a business operation runs in one *business session*, a
`BEGIN IMMEDIATE` transaction that first reads the lifecycle gate of the
database. Risky operations are two calls: a *preview* that returns a plan
hash, and a *commit* that rebuilds the plan and refuses when the hash differs.
Callers repeat a call under the same `requestId`, and an idempotency record
makes the repetition return the first result.

| Component | State | Operations | Interacts with | What is hard about it | Model |
|---|---|---|---|---|---|
| Journal posting, idempotency | `journal_entries`, the ledger revision, `idempotency_records` | `journal.post`; the same record table behind every command | the period guard; every report reads it | a retry with the same id and another command, or after a timeout | `PeriodLedger` |
| Period close | `period_close_events` (append-only) | `period.close[.preview]`, `period.reopen[.preview]`, `period.status` | guards every dated write of every module, in TypeScript and again in triggers | two readers that order events differently; plan read in another session; clock and random ids | `PeriodLedger` |
| Fiscal-year rollover, CA close packs | `ca_close_packs`, `fiscal_year_rollovers` (append-only) | export a pack, preview, finalize, get, export | the ledger, the events, the packs | a status that is never stored, derived from three other tables | `FiscalYearRollover` |
| Bank reconciliation | statements, lines, matches | import, confirm, undo, report | journals, the period guard, the close checklist | one-to-one pairing over undo and redo; statements that straddle a period | `BankReconciliation`, `Pairing` |
| Sales, purchases, FX, TDS/TCS | documents, allocations, foreign facts, revaluation runs, withholding events | create, post, receive, pay, deposit, revalue, reverse | journals, the period guard | six commands that each move a control account and a column of their own; slices and their rounding; two ways to settle a revalued document | `Subledger` |
| GST | registrations, profiles, outward facts, return snapshots | register, post with tax, record facts, prepare, validate, export, observe | invoices | a frozen snapshot validated once, while invoices are paid and facts move on; a register beside it | `GstReturns` |
| Payroll | salaries, rules, runs, batches, remittances | prepare, approve, post, batch, export, remit | journals | a hash over rows that are read back in another order; journal and payslips from different sums | `Payroll` |
| Expense claims | claims, advances, set-offs, repayments, reimbursements | create, submit, review, post, advance, repay, reimburse | journals | two ways to use up an advance, two to settle a claim | `ExpenseClaims` |
| Personal tax cases | memberships, sources, facts, assessments, snapshots, worksheets | import, propose, decide, reconcile, assess, seal, generate | BookSets, PAN, ledger revision | nothing is locked: every status is derived anew from bindings | `TaxCases` |
| Tax returns | packs, eligibility facts, evaluations, selections, computations, artifacts | register, verify, evaluate, select, compute, approve, prepare, validate, export | the snapshot of a case | rules in three values over facts nobody verified; bindings that go stale | `TaxReturns` |
| BookSets, tenants, accounts, PAN | their rows, under two generations of schema | create, activate, make default, archive, set PAN | every command asks for an ACTIVE BookSet | rows of the old format under new constraints; triggers spread over two migrations | `Tenancy` |
| Hashed migrations | `schema_migrations` in seven formats, the recovery audit | migrate, recover, upgrade the table | the file | a failure that must be committed, not rolled back | `SchemaMigrations` |
| Database control and recognition | the row of `database_control`, the catalog | four readers: inspect, gate, detector, compatibility | every session | four judgements of one file, written separately | `DatabaseControl` |
| Database lifecycle | three version tables in the file, the path itself, backup files | `database.init`, `database.upgrade.apply`, `database.backup.create`, `database.backup.restore` | business sessions through the lock and the gate | several transactions per command, crashes, two releases, a path that is renamed over | `DatabaseLifecycle` |
| Business sessions, SQLite adapter | the open transaction, the lease | run, lease | everything | callbacks that never return | `DatabaseLifecycle` |
| MCP over HTTP | session map, admission counter, timers | POST (initialize, call), GET, DELETE, cleanup, stop | the dispatcher | awaits between a check and its use, timers, one of which throws where nothing catches it, every way out of a handler | `McpHttpServer` |
| Ledger reports | none | trial balance, P&L, balance sheet | read the ledger | consistency with what was confirmed | `PeriodLedger` |
| Fixed assets; compliance, MCA; sources; transports, catalog, schemas | registers, append-only events, staged bytes; none | see section 6 | - | - | not modelled |

The properties that make each of the modelled components correct are in
section 4; `PROJECT.json` lists the hazards with the line where each bites.

## 2. Plan

Order: the ledger first, since every module posts into it and its period guard
is the promise accountants rely on; then what derives from it; then the file
below it and the server above it; then the record keepers of a BookSet; then
what surrounds the books. All of it is done.

| Module | Models | Uses | Proofs |
|---|---|---|---|
| `PeriodLedger` | journals, period close, idempotency | composed with the next three by `MCLedger` | every property |
| `FiscalYearRollover` | packs and rollovers of one year | EXTENDS `PeriodLedger` | every invariant |
| `Pairing` | abstract: a one-to-one pairing | - | - |
| `BankReconciliation` | statements and matches | EXTENDS `PeriodLedger`, implements `Pairing` | safety and refinement |
| `DatabaseLifecycle` | init, upgrade, backup, restore, sessions | composed with the next by `MCPrograms` | safety |
| `McpHttpServer` | HTTP sessions, admission, timers | - | safety |
| `Subledger`, `GstReturns`, `Payroll`, `ExpenseClaims` | the record keepers of a BookSet | composed by `MCBooks` | every property, in `BooksProofs` |
| `SchemaMigrations`, `DatabaseControl`, `Tenancy`, `TaxCases`, `TaxReturns` | what surrounds the books | composed by `MCAdministration` | every property, in `AdministrationProofs` |
| `SumTheorems` | lemmas about the sums of the community modules | used by the two modules above | - |

Every safety property that a passing run checks is a theorem. What would come
next: the abstract register of packs and artifacts that six services share (see
section 6), and theorems that relate components which now stand side by side.

## 3. The models and the code

### PeriodLedger

Sources: `src/application/services/period-close-service.ts`,
`journal-command-service.ts`, `ledger-report-service.ts`,
`bookset-command-service.ts`, `drizzle/0018_period_close_v1.sql`.

A business session is one SQLite transaction that excludes other writers from
its first read on, so **one command is one action**. What interleaves is whole
commands: any number of them may commit between a preview and the commit that
cites its plan hash.

| Model | Code |
|---|---|
| `journals`, `revision` | `journal_entries` rows with their lines summed into the amount they move on one account; the ledger revision a trigger advances |
| `events` | `period_close_events`, in the order of commits. `id` stands for the random UUID, `at` for `occurred_at` |
| `clock` | `new Date()` as read inside the session; `ClockSteps` says how far it moves between two recorded events |
| `plans` | what a preview returned. The record stands for the plan hash, which hashes exactly these fields |
| `unresolved` | what the close checklist finds, per module: an id and the range it belongs to |
| `idem`, `answers` | `idempotency_records`, and what retries were answered |
| `ReadClosed`, `Status`, `PeriodOpen`, `RangeOpen` | the service's reading: last event by (`occurred_at`, `id`) |
| `TriggerAborts` | the triggers' reading: a CLOSED event that no REOPENED one follows *strictly* in `occurred_at` |
| `CommittedClosed` | the truth both approximate: the last committed event |
| `PostJournal`, `Preview`, `ClosePeriod`, `ReopenPeriod`, `ArchiveBookSet` | the operations, each with its guards in order, its rows and its idempotency record |
| `Replay` | a request id that was recorded comes back: the stored result for the same command, an error for another |
| `MoveItem` | the modules that open and resolve checklist items; none is bound to the period being open |

### FiscalYearRollover

Sources: `fiscal-year-rollover-service.ts`, `close-pack-service.ts`,
`drizzle/0034_fiscal_year_rollover_v1.sql`. Extends the ledger with `packs`,
`rollovers` and held `previews`. `RolloverStatus` is derived on every read, as
in the code, from the revision, the period's latest events and the latest
pack; nothing stores STALE. `FinalizeRollover` rebuilds the preview, asks for
a pack bound to the last close and refuses a second rollover of the year.

### BankReconciliation and Pairing

Source: `bank-reconciliation-service.ts`. Extends the ledger with `statements`
and `matches`; `unresolved` is no longer moved from outside but follows the
lines (`unresolved' = Unmatched'`), which is how the close checklist sees
them. Import compares the statement's range with the closed periods, confirm
and undo compare the line's own date, and the triggers compare both again.
`Pairing` is what the reconciliation promises: a set of (line, journal) pairs
of equal amounts in which neither side occurs twice. `PairsOneToOne` is the
refinement, with the ACTIVE matches as the pairs.

### DatabaseLifecycle

Sources: `src/application/application.ts`, `src/infrastructure/services/`
(`backup-service.ts`, `upgrade-coordinator.ts`, `drizzle-baseline.ts`,
`database-state-detector.ts`, `database-operations-service.ts`,
`database-control-service.ts`), `src/infrastructure/adapters/`.

What the program knows of a database is in three tables written by different
steps: `schema_migrations`, `__drizzle_migrations` and the row of
`database_control`. `files` are the inodes the path has named, `path` the one
it names now: a restore renames a new file over the path, and a connection
stays with the file it opened. `DbState` is the detector's verdict,
`Compatibility` the status reported to operators, `Backable` what
`createBackup` accepts, `GateOpen` what a business session asks for.

One action per lease or migrator transaction, since each holds the write lock
from its first read to COMMIT: `TakeBackup`, `Hop` (one legacy version),
`Seed`, `ReadJournal` and `ApplyPending` (the migrator reads the last journal
row *before* its transaction), `Synchronize`, `Verify`, and on failure
`RestoreBackup`, `CheckRestored`, `MarkRecovery`. `InitControl`, `CreateBackup`,
`ReplaceByBackup` and `InspectRestored` are the steps of init, backup and
restore. A session is two actions, `BeginSession` and `CommitSession`, because a restore takes no
lock and can fall between them. `Crash` ends a command where it stands,
`StepFails` makes its current step throw, `LeaseTimesOut` is the deadline of a
lease, `InstallRelease` puts the next release of the program beside the file.

### McpHttpServer

Source: `src/mcp-http.ts`. One action per stretch of code between two awaits.
`req` is where each request's handler stands, `sessions` the map with the age
of each session, `inFlight` the admission counter. A timer that is due fires
before the next `Tick`. A session's id is fresh, so it is named after the
request that opened it. After a 504 the handler's promise runs on, but touches
no state of this module.

The timer of the body is a case of its own. `withTimeout` resolves its race with
what the fallback returns (`mcp-http.ts:152`), and the fallback of
`readBoundedJson` throws instead (line 208): inside the callback of
`setTimeout`, outside every promise, so the catch at line 307 never sees it and
no 408 is sent. `BodyTimerThrows` has the two things that may follow: the handler
goes on waiting without a timer (`"late"`) until its stream moves, or the runtime
ends the process on the exception (`ProcessEnds`), which this code does not
decide. `BodyFails` is what `readBoundedJson` does reject: a body too large, not
JSON, or cut off.

### Subledger

Sources: `sales-command-service.ts`, `purchase-command-service.ts`,
`tds-tcs-service.ts`, `fx-service.ts`, `fx-math.ts`. `docs` holds
invoices and bills with the columns each command maintains (`paid`, `withheld`,
`tax`, `deposited`, `foreign`); `relieved` sums the `fx_allocation_facts` of a
document; `revalued` has one run per date with what it found open; `balance`
is debit minus credit of every account, written only by `Journal`, which is
`postJournalInSession` with its period guard and its balance check. Actions:
`CreateInvoice`/`CreateBill`, `PostInvoice`/`PostBill`,
`RecordReceipt`/`RecordPayment` (base or foreign slice), `Deposit`,
`PostRevaluation`, `ReverseRevaluation`. The arithmetic is the code's: half-up
conversion, largest-remainder split over lines, floors of the carrying amount.
`Revalued` guards foreign slices only, as in the code; an allocation in base
currency takes any document.

### GstReturns

Sources: `gst-service.ts`, `gst-return-readiness-service.ts` and the taxed
posting of `sales-command-service.ts`. A registration or profile may not overlap
another of the same GSTIN or party. `supplies` are the invoices with the tax
snapshot of their posting; `facts` says whether outward facts exist, with line
facts or without; `returns` are numbered frozen snapshots with their stored
readiness. `PrepareReturn` takes the invoices that are POSTED *now*,
`ValidateReturn` computes readiness once and stores it, `ExportReviewPack` and
`ReadinessReport` show what is stored. A party profile counts at validation
whatever its status (`Unprofiled`), at posting only an ACTIVE one does (`Live`).
`GstRegister` is the other view of the same supplies, `listGstRegister`.

### Payroll

Source: `payroll-service.ts`. `SlipOf` computes a payslip as the service does,
component by component in the order of their codes, prorated and rounded half
up; `PayJournal` builds the journal from the component lines and, separately,
the net from the rows, and posts only when the two balance. `InRowOrder` is
what the database returns: the lines of a slip in the order of random row ids,
which `StoredHash` hashes again at approval. `Allocated` sums a row over all
batches.

### ExpenseClaims

Source: `expense-claims-service.ts`. A claim goes DRAFT, SUBMITTED, APPROVED or
REJECTED, POSTED, PARTIALLY_SETTLED, SETTLED; `PostClaim` sets advances off in
the same command, `RepayAdvance` and `RecordReimbursement` settle the rest.
Statuses are written by the command that happens to be last, as in the code.
A line may name an expense or an asset account, when it is submitted and when it
is posted (`Chargeable`), so also the account advances are kept on.

### TaxCases and TaxReturns

Sources: the eight `tax-case-*-service.ts`. In `TaxCases` BookSets, PAN, facts
and sources move freely; `CaseStatus`, `SourceReadiness`, `SnapshotStatus` and
`WorksheetStatus` are operators evaluated anew, because the code stores none
of them. `BuildCandidate` is what a snapshot binds, `HardBlockers` and
`SoftBlockers` what refuses it. `tie` lets two rows share a millisecond, so
that a random id decides which is the latest.

`TaxReturns` takes all that upstream work as one counter, `basis`, and follows
a snapshot through evaluation, selection, computation and artifact.
`EvaluateRule` is the three-valued evaluator, TRUE, FALSE or UNKNOWN. A rule is
a tree; `NodesAt[d]` are the nodes found *d* levels below the rule of a form,
and `ReturnsAssumption` says that their children are one level deeper and that
there is a deepest level, as `validateRule` enforces
(`tax-case-itr-eligibility-service.ts:62`).

### Tenancy

Sources: `tenant-command-service.ts`, `tenant-service.ts`,
`bookset-command-service.ts`, `tenant-pan-service.ts`,
`account-command-service.ts`, the repositories, and the migrations
`bookset-v3` and `bookset-v4`. Initial states are the rows the old format let
in; `Migrate` brings them under the new constraints or fails as a whole.
`MayCoexist` and `AcceptedTenant` are the partial unique indexes and the
triggers; every command's table has to pass them.

### SchemaMigrations

Source: `migration-service.ts`. `format` is one of the seven layouts the
service recognises by their exact columns; `rows`, `objects` and `audit` are
what is committed, `session` the transaction of the holder of the lease.
`FailDdl` ends the run at `AfterFailure`: the callback returns instead of
throwing, so the DIRTY row is committed, while `LoseLease` loses everything.
`RecoverDirty` compares the expected state, the definition, the stored manifest
and the probes, and audits the attempt whatever comes of it.

### DatabaseControl

Sources: `database-control-service.ts`, `database-state-detector.ts`,
`compatibility-service.ts`, `sqlite-catalog-validator.ts` and the gate of
`business-session-runner.ts`. One program looks at a file that any release,
any half-done command or an edit from outside may have left. `Inspection`,
`GateAdmits`, `Detected` and `CompatibleReader`/`Writer` are the four readers,
each transcribed from its own code; `CatalogMatches` has the exceptions of the
catalog check.

## 4. Runs

`tlc -config <cfg> <MC module>`. The `MC*` modules hold the sets and the
symmetry; every numeric bound is in the `.cfg`.

| Run | Question | Properties |
|---|---|---|
| `Ledger` (`MCLedger`) | over a period and a longer one that contains it, with requests redelivered, also with another command, and events that share a millisecond: where do service, triggers, status and commit order differ, does a request act once and get its own answer? Is a rollover reported FINALIZED the current ledger, and the year's result one number? Do matches stay one to one, and closed dates keep their journals, result and lines? | `TypeOK` `ClosedPeriodsDisjoint` `StatusErrsOnlyInTies` `TriggerIsTheStricter` `OneEffectPerRequest` `AnswersTellTheEffect`; `FinalizedIsCurrent` `OneResultForTheYear`; `BankTypeOK` `CleanCloseStaysReconciled` `ClosedResultStands` `ClosedPeriodFrozen` `PairsOneToOne` `ClosedLinesFrozen` |
| `Programs` (`MCPrograms`) | an initializer, two upgraders, a restore and a session over faults and two releases; counter, sessions and answers of the HTTP server over every interleaving of handlers and timers | `ControlNeverAhead` `WritesPassTheGate` `RecoveryFreezes` `UpgradedIsCurrent` `CommandsFinish`; `McpTypeOK` `OnlyOpenSessionsServe` `NotExpiredInUse` `AdmittedAnswered` |
| `Books` (`MCBooks`) | do the documents, the registers and the accounts they post to tell the same story? | `ControlAccountsAgree` `RevaluedSlicesStayOpen` `RegisterTiesToLiability` `ShownReadyIsBacked` `SalariesTieToTheBooks` `OpenItemsTieToTheBooks` |
| `Administration` (`MCAdministration`) | do derived statuses, rules, constraints and recognisers mean what those who rely on them take them to mean? | `AppliedIsBacked` `OnlyAuditedRecoveryUnblocks` `ReadySourceIsSettled` `WorksheetsAreCoveredByTheBooks` `SelectedFormsHoldHoweverTheUnknownsFall` `ServedTenantsHaveTheirBooks` `RecognisersAgree` `ServedFilesAreWhole` |

Eight runs end in a counterexample; each states what a text of the repository
says and the code does not do.

| Run | Statement refuted | What happens |
|---|---|---|
| `FiscalYearStaleCanBeRenewed` | `StaleCanBeRenewed` | a STALE rollover blocks every later finalize of its year |
| `BankUndoByLine` | `MatchedLineCanBeUndone` | confirm, undo, confirm: an undo that names the line may find the undone row |
| `LifecycleRestoreUnknown` | `UnknownCanBeRestored` | a database that the status calls UNKNOWN_TAMPERED cannot be restored over, because the restore backs it up first |
| `McpSessionLimit` | `SessionLimitHolds` | handshakes that overlap all pass the comparison with the session limit before any of them is registered: more than the documented 64 sessions |
| `GstDroppedInvoice` | `PreparedReturnsTieToTheRegister` | an invoice that received money before its return is prepared is in no return, while the GST register shows it |
| `FxSettlement` | `SettlementClearsTheDocument` | a revalued foreign document is paid in base currency: it is PAID with its revaluation still posted |
| `FxReversal` | `ReversalUndoesTheRun` | the reversal of a revaluation debits and credits the accounts the run debited and credited: it doubles the adjustment instead of taking it out |
| `PayrollApproval` | `UntouchedRunsMatchTheirHash` | a pay run of several lines or employees is refused at approval as changed, because its rows come back in another order |

`SettlementClearsTheDocument` has two halves, and the code breaks both. The run
finds the second. Without close rates (`CloseRates = {}`) TLC finds the first: of
the two lines 1 and 2 at 17/10, carried at 5, three slices of 1 relieve 1, 1 and
2, and one unit stays on the receivable account for good although no foreign
amount is open (`fx-math.ts:79`).

Other things met while modelling, which no property states:

- The time-out of a request body is never answered 408 (`mcp-http.ts:152`, 208,
  307), see McpHttpServer above. `AdmittedAnswered` is therefore about admitted
  requests only.
- When a close and a reopen, or a reopen and a close, share a millisecond,
  `period.status` and the guards of the services may show the earlier one
  (`period-close-service.ts:84`), so a period reopened last can read CLOSED and
  refuse work. The trigger is the stricter of the two readings, so what is
  closed stays frozen: `StatusErrsOnlyInTies` and `TriggerIsTheStricter` say how
  far this goes.
- A posted claim with a line on the account its advances are kept on leaves an
  amount there that is no open advance (`expense-claims-service.ts:57`, 131);
  `OpenItemsTieToTheBooks` counts it as `ChargedAdvances`.
- Validation of a GST return warns of "no active GST profile for customer" but
  asks for one of any status (`gst-return-readiness-service.ts:372-374`).
- A corrected fact and the fact that corrects it may both be summed into a
  worksheet of a tax case; `WorksheetsAreCoveredByTheBooks` does not look at it.
- `sqlite-catalog-validator.ts:119-123` promises more of the catalog check than
  lines 157-160 keep for files that are not served; see the last point.

- `PrepareReturn` takes every POSTED invoice of the BookSet in the period,
  whatever registration it was taxed under
  (`docs/discovery/data-model-requirements.md:36` has returns per registration).
- A STALE return artifact can still be exported
  (`tax-case-return-artifact-service.ts:184`); the export records the status it met.
- A pay run in which tax is withheld by a SALARY_TDS rule is never posted: its
  journal does not balance, and the posting refuses it.
- A tenant that has a default BookSet cannot be archived, and an archived
  PERSONAL BookSet cannot be replaced.
- The journal lengths a backup accepts (`drizzle-baseline.ts:82`) leave out
  some that the detector calls UPGRADE_REQUIRED.
- When the wall clock steps back between two recorded events, the service reads
  them in the wrong order; the theorems below say what they ask of the clock.
- The catalog check lets part of the objects of the computation migration be
  missing (`sqlite-catalog-validator.ts:157`) when the rest is there.
  `ServedFilesAreWhole` holds because the gate compares the journal too.

### Bounds, and why they suffice

`MCLedger` composes the dated ledger, the rollover and the bank reconciliation,
which all extend it; a variable `focus`, chosen at the start, says which of the
three a behaviour explores. In each of them `ClockSteps = {0, 1}`: any two
events may share a millisecond or be a millisecond apart, and three event ids,
compared by `ORDER BY`, fall either way. Three events and two dates are the least
in which a period can be closed, reopened and closed again, all within one
millisecond, with a journal on each side of its boundary; the two ranges are
nested and share an end, so that disjointness has to be enforced. `FewOf` bounds
each focus: four requests in the ledger focus let these commands be used in one
behaviour, with one retry at its end; five in the year, which are close, pack,
finalize and two that disturb them; five in the bank, with a statement inside the
period and one across its end with a line on each side, two journals and two
match rows. `MaxPlans = 1` keeps one plan in callers' hands at a time; a stale
plan is one that was read before another command, so one is enough for every
close to be stale or current. `IdsInOrder` orders journal ids, which no query
compares, and outside the ledger focus lets a row of a later millisecond have the
larger id, since `ORDER BY occurred_at, id` looks at ids only within one.
`MCPrograms` composes two programs that share nothing. `DatabaseLifecycle` has
two legacy versions (the rest are alike), two commands started out of four that
exist, two faults, and one backup file that may exist before another is made.
`McpHttpServer` has one session, two admissions and four requests: enough for
the two handshakes that pass the limit together and one request in each
session. Requests arrive in a fixed order (`Arrivals`), since they are
interchangeable and a liveness property forbids declaring that, and one body is
read at a time (`OneBody`): before admission a request touches nothing shared.

`Books` and `Administration` compose components that share no state a property
reads; interleaving them would only multiply their states. A variable `focus`
is chosen at the start and the components out of focus stand still in one
initial state, so each run is the disjoint union of the components' state
spaces. What bounds a component beyond its constants is named in the MC module
and says what it gives up: `FewDocuments` (two documents at once only when both
are foreign, so slices of both meet one revaluation), `ClaimsFirst` (claims and
remittances, which touch nothing else, move before the first posting),
`FewMoves` and `FewChanges` (in which phase of a case the books, the facts and
the packs move), `FewRows` (PAN versions and accounts from small tables). The
amounts are the least with a remainder: a foreign total of 3 at 1.7 rounds, its
slices strand a unit, 5000 basis points of 1 and 2 round on one line and not on
the other. Two fields and three rules of opposite signs, with two levels of nodes below
them (`MaxDepth = 2`, in the code `MAX_AST_DEPTH` is 12), make every
combination of TRUE, FALSE and UNKNOWN; three migrations are one before and one after a
failing one; five official migrations are the baseline, the three the catalog
check names, and one more.

Symmetry is declared on request ids and fact ids only: event and match ids are
compared by `ORDER BY`, so they are not interchangeable. The run with liveness
properties has none. `CHECK_DEADLOCK FALSE` stands where the bounded ids,
commands or requests run out and the instance really stops.

### Fairness

`DatabaseLifecycle`: weak fairness of each started command's `Step`. A command
is a program that runs on until it ends or dies; a lease that another process
holds is polled with a deadline of 30 s, so its step is always enabled. Nothing
makes an operator start a command, a business callback return, a fault happen
or a release appear, so none of these is fair.

`McpHttpServer`: weak fairness of `Tick` (time passes), `TimerFires` and
`BodyTimerThrows` (a due timer of the event loop runs), `Connected` and
`CloseReturns` (connect and close of a transport inside the process). A client
need not finish its body and a tool call need not return: neither is fair, and
`AdmittedAnswered` holds without them. A request that waits for its body may wait
for ever, since its timer throws and settles nothing; it holds no slot meanwhile.

`ProgramsSpec` asks for the fairness of both. The program out of focus takes no
step and enables none that is fair: no command was started and no request sent.
`Tick` alone is enabled there, but it changes nothing, so it is no step of a
fairness condition. The other modules state safety only.

## 5. Proofs

`tlapm <module>`. None of the theorems fixes a bound: dates, periods, amounts,
ids, requests and limits are arbitrary sets and numbers under the named
assumptions of the module that declares them.

**PeriodLedgerProofs.** `TypeCorrect`: `TypeOK` is inductive; `StepCases`
sorts the actions into those that add a journal, append an event or do
neither, so later proofs have three cases. The other theorems differ in what
they ask of the clock, and say so in their statement:

- *Clock never steps back* (`ClockSteps \subseteq Nat`), ties allowed.
  `TimesFollowCommits` (commit order is weakly the order of `at`) is
  inductive. Then a committed CLOSED event is followed strictly in time by no
  REOPENED one, so the triggers abort every insert in its range, whatever the
  ids say: `ClosedPeriodsStayFrozen`. `ClosedResultsStand` needs in addition
  that the close rebuilt its plan in its own session.
  The two readings are compared under the same hypothesis. An event that shares
  its millisecond with no other of its period and was committed last is the one
  the services read (`UntiedIsRead`), whence `StatusErrsInTies`. A date the
  trigger lets through lies in no period with a CLOSED event that no later
  REOPENED one follows strictly, so neither the last event read nor the last one
  committed can be a CLOSED one (`ReadIsGuarded`, `TriggerGuards`):
  `TriggerIsStricter`. Without the hypothesis both fail, since `occurred_at` then
  says nothing of the order of commits.
- *No hypothesis.* `ClosedPeriodsAreDisjoint`: the close compares its range with
  what the service itself reads as closed, and an event only changes the reading
  of its own period (`ReadStep`), so ties and a clock that steps back do not
  matter here. `RequestsActOnce`, by `EffectsDelivered`: every row of
  journals and events carries a request whose record was committed with it.
  `AnswersAreTrue`, by `RecordsTell`: a record was committed with the effect its
  result names, effects are never taken back, and a replay compares the command
  before it copies the result.

**FiscalYearRolloverProofs.** `FinalizedRolloversAreCurrent`: no read compares
the snapshot of a rollover with the ledger; that equal revisions vouch for it
is the invariant `RevisionTells`: a snapshot taken at revision *n* is the
ledger's for as long as the revision is *n*, since every step that touches the
journals advances it. `YearTypeCorrect` types the rows. `YearHasOneResult` asks
nothing of the clock: `ReadResultStands` says of the close a service *reads*,
whether or not it is the last one committed, that its result is the ledger's,
because the guard of `journal.post` reads the same event; so a pack exported over
a year that reads CLOSED shows the result of the close it names (`PacksTell`), and
a rollover is only finalized with a pack that names the close that is read then.

**BankReconciliationProofs.** Builds on `PeriodLedgerProofs`: `BankStepCases`
sorts the steps into those of the ledger, imports, matches and undos, and only
the first kind touches events and journals. `BankInv` types the match rows and
adds what makes the pairs one to one: an ACTIVE match is determined by its
line. Without that an undo could take apart one row of a pair and leave the
pair. From it `BankTypeCorrect` and the refinement `ReconciliationPairs`, with
no hypothesis. `ClosedLinesStayFrozen` and `CleanClosesStayReconciled` ask for
a clock that never steps back: by `TimesFollowCommits` the triggers, for a date
and for a range, refuse everything that meets a period whose last committed
event closed it. A close takes its checklist in its own session, hence shows
every unmatched line of a statement in the period, and afterwards nothing moves.

**DatabaseLifecycleProofs.** The inductive invariant `LifecycleInv` says three
things of a state. `Sound`: every file, every backup and every backup a command
holds has a control row exactly when it was managed, and one that its histories
bear out. `Rows`: what a command remembers is still true of the file it opened;
the journal length it read is not above the length now, and the release it is
about to record is in the journal, because no step shortens a journal
(`Grows`). `Gated`: the file a business session is writing has a gate that
some installed release finds open. From it `LifecycleTypeCorrect`, `ControlIsNeverAhead`,
`RecoveryFreezesFiles` and `WritesPassTheOpenGate`. `UpgradesEndCurrent` adds
`Recognised`: a running upgrade started from a state it knows, so its last
check can only have passed on the file that it brought up to its own release.
No theorem restricts how many commands, faults, crashes or releases there are.

**McpHttpServerProofs.** The inductive invariant `McpInv` adds to the types:
`Counted` (the counter is the number of handlers between admission and answer,
over every way out), `Bounded` (sessions and pending handshakes stay
below `MaxSessions + MaxInFlight`) and `Fresh` (a session exists only after
its request was answered, so an id is registered once). From it
`McpTypeCorrect`, `SessionsStayBounded` and `ClosedSessionsNeverServe`.
`SessionsInUseStay` adds `InUse`: a session in use is no older than its
request has waited, hence no older than the timer, which is below the time to
live. `SessionsStayBounded` is not the promise of `docs/cli-mcp.md` (64 sessions
at most), which run `McpSessionLimit` refutes; it says how far the code can
overshoot it: to 64 + 32 - 1.

**SumTheorems.** The sums of the community modules are folds, and a fold is a
`CHOOSE` of a recursive function over the subsets of a set. The library's
induction theorems take a predicate as a parameter, which the installed provers
cannot instantiate; `SubsetInduction`, `ElementInduction` and
`StepwiseInduction` state induction with a *set* in its place, and follow from
the well-foundedness of the strict subset order. From them the function behind
the fold exists and is unique (`SumUnfolds`), and the laws the other modules use
follow: a sum is an integer, is not negative, moves by what one summand moves,
drops the summands that are zero, splits, is reindexed along a bijection
(`SumRename`), and a table adds up to the same by row and by column
(`SumByRowOrColumn`).

**BooksProofs.** The four record keepers of `MCBooks`. Three of them are about
money kept twice, in rows and in an account that journals move. The property
sums over the rows that count *now*; the invariant sums over *all* rows, one
that does not count adding zero, so that a step that writes one row moves both
sides by the same amount (`AccountsTied`, `ItemsTied`, `PayTied`).

- *Subledger.* `SubledgerInv`. `FreshUntilPosted` is why posting adds exactly a
  document's net: nothing was paid or withheld before. `SlicesFloored` says that
  *k* slices of *x* foreign units relieve at least the exact share less *k*
  units of rounding, and never more than it, whence `ResidueHolds`: it bounds what
  the contracts want to be nothing (run `FxSettlement`), for every amount and rate.
  `RunsDescribe` is `RevaluedSlicesStayOpen` together with the fact that a run
  lists documents that exist, so that a new draft cannot be one of them. From it
  `ControlAccountsHold`, `ResidueHolds`, `RunsHold`, `RegisterHolds`.
- *Expense claims.* `ExpenseInv`: beside the ties, in which the advance account
  carries what is left of the advances and what lines of booked claims charged to
  it (`ChargeSum`, fixed once a claim is posted), an advance or claim is SETTLED exactly when nothing of it is left, and only a booked claim was paid;
  without that a claim could be booked with a settlement it never recorded. From
  it `OpenItemsHold`.
- *GST.* `GstInv`. `UnpaidStay` is the inductive form of
  `OnlySettlementDropsAnInvoice`, which bounds the defect of run
  `GstDroppedInvoice` (a receipt, and nothing else, takes an invoice out of a
  return): what is still POSTED is in every later
  snapshot, because preparation takes every POSTED invoice of the BookSet and an
  invoice never returns to POSTED. `ReadyIsBacked` is about the stored
  readiness, shown or not, and holds on because line facts are never taken back.
- *Payroll.* `PayrollInv`. Every figure of a slip is the sum of its lines and
  stays so in any row order (`Slip`); the journal is built from other sums and
  posted only when it balances, which forces the tax of the rules to zero, and
  that is why the accounts tie. `PaysArePosted` keeps every payment on the rows
  of posted runs, so that what is allocated is bounded over all batches at once
  (`SalariesHold`). The components of a slip are a recursive function over their
  positions; that it exists is proved by induction on the position.

**AdministrationProofs.** What surrounds the books; five components without
common state, each with its invariant.

- *SchemaMigrations.* `MigrationInv` says of the committed table and of the one
  in the holder's transaction that a migration with a row comes after applied
  ones (`InOrder`) and that an applied one has its objects, or after a recovery
  those it probed (`Backed`); and that a lease is only held over a table in
  which nothing blocks (`SessionSound`), without which a commit might turn a
  DIRTY row into APPLIED. From it `AppliedMigrationsAreBacked` and
  `OnlyRecoveryUnblocks`.
- *DatabaseControl.* `ServedFilesHold` needs no induction: `CatalogMatches`,
  with its exceptions, and the journal together leave no room for a missing
  object, in any file at all (`ServedIsWhole`). `RecognisersHold` does: only
  some of the readers look at the timestamps of the control row, and they agree
  because a row is READY only with timestamps as the program wrote them
  (`ReadyRowsAreIso`).
- *Tenancy.* `TenancyInv`: in either format every BookSet has a tenant that may
  hold its kind and every default is the tenant's own; after the migration the
  triggers and the partial unique indexes hold of every row, not only of those
  written since (`TriggersHold`). From it `TenantsHold`, over every database of
  the old format that the migration lets through.
- *TaxCases.* `TaxCaseInv`. `ReadySourcesHold` is mostly a fact about the
  derived statuses: READY compares what the latest assessment bound with the
  bindings of now, and one is confirmed only over facts that are decided.
  `WorksheetsHold` is about money: the reconciliations of one journal line never
  exceed it (`LinesNotOverused`), a worksheet is computed from the snapshot it
  names (`WorksheetsFollowSnapshots`), a CURRENT one finds the facts as
  captured, and one table of amounts is summed by fact or by line.
- *TaxReturns.* `SelectedFormsHold` is the soundness of the three-valued
  evaluation. `ValuesUnfold` and `TruthsUnfold` show that the two recursive
  functions over the nodes exist, from the deepest level upwards;
  `EvaluationIsSound` then goes up the same levels: where the evaluation says
  TRUE or FALSE, so does every situation that agrees with the verified facts.
  `ReturnInv` carries it to selections: the rules of a pack never change once it
  is registered, and an evaluation keeps the facts it was made from.

**Assumptions.** A theorem holds of the constants under the assumption its
module names, and each conjunct is what the code enforces or what a database is:
the tables of documents, claims, facts and lines are finite; amounts are
integers that are not negative, withholding is 0 to 10000 basis points
(`tds-tcs-schema.ts:103`), exchange rates and the days of a pay period are
positive (`fx-math.ts`, `payroll-service.ts:71`); claims and documents have
lines and each asks for something; a form rule is no deeper than a bound
(`tax-case-itr-eligibility-service.ts:62`); a manifest probes effects of its own
migration; marks such as `NoPack` are not ids. No theorem fixes how often
anything happens.

**Only model-checked.** The liveness properties `CommandsFinish` and
`AdmittedAnswered`, which rest on fairness; a temporal argument about ENABLED is
out of the prover's reach. The eight statements that runs refute are no theorems;
`StaleCanBeRenewed` among them is about ENABLED.

## 6. Not modelled

- Fixed assets: registers and schedules of depreciation, the arithmetic of one
  command at a time, posted through the journal of `PeriodLedger`.
- Compliance obligations and MCA filings: append-only events on independent
  rows. `company-status-service.ts` only reads what others derive.
- Sources, staging and the Zoho import: the difficulty is the format of the
  input, which a model of states abstracts away. Imported bank statements are
  in `BankReconciliation`, sources of a tax case in `TaxCases`.
- The artifact registers of GST (GSTR-1, GSTR-3B), withholding, payroll and MCA:
  the same scheme of packs, generation, validation and export as in
  `TaxReturns`, over other documents.
- The grouping of reports by account type and the CSV sections of a pack: the
  models keep debit and credit totals, which is what plans and packs are
  compared by. CSV and export texts of payroll likewise.
- Masters and numbering of the subledgers (customers, vendors, document
  numbers), what a computation program computes, evidence and texts.
- SQLite's `-wal` and `-shm` files. A restore unlinks those of the old
  database after the rename; a death in between is listed as a hazard that no
  property covers.
- The receipts of upgrades and `UpgradeCoordinator.recover`, which no operation
  reaches. `MigrationService` is reached by tests only and is modelled.
- Transports other than HTTP, the catalog and the schemas' declarations: no
  state, or constraints modelled where a component meets them.
- Leaves of an eligibility rule whose fact has another type than the rule asks for:
  the code evaluates them to UNKNOWN, and the model has one type of value.
- That a session whose handshake overlaps `stop` may stay open is in the model
  and no property forbids it: the process exits afterwards.
- The period guard is modelled in full in `PeriodLedger` and `BankReconciliation`;
  in `Subledger` closed dates are a set that moves, and the other record keepers
  post to open dates. Idempotent replays are modelled in `PeriodLedger` and not
  repeated.
