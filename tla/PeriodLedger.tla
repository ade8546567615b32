----------------------------- MODULE PeriodLedger -----------------------------
(***************************************************************************)
(* The dated ledger of one BookSet: journal.post, period.close.preview,     *)
(* period.close, period.reopen.preview, period.reopen and the idempotency  *)
(* records that make a retried command harmless.                           *)
(*                                                                         *)
(* Every command runs in one business session, that is, in one BEGIN       *)
(* IMMEDIATE transaction of SQLite; a command is therefore one action, and *)
(* what interleaves is whole commands: a preview is a session of its own,  *)
(* so anything may be committed between a preview and the close that cites *)
(* its plan hash.                                                          *)
(*                                                                         *)
(* A period is closed or open according to period_close_events, a table    *)
(* that is only appended to.  Two pieces of code read it, and they do not  *)
(* read it the same way:                                                   *)
(*   - the service takes the last event of the period in the order         *)
(*     (occurred_at, id), where occurred_at is the wall clock and id is a  *)
(*     random UUID;                                                        *)
(*   - the triggers of the schema look for a CLOSED event that no REOPENED *)
(*     event follows strictly in occurred_at.                              *)
(* The truth both approximate is the order in which events were committed, *)
(* which is the order of the sequence "events" here.                       *)
(***************************************************************************)
EXTENDS Integers, Sequences, FiniteSets, FiniteSetsExt

CONSTANTS
  Dates,        \* accounting dates; ISO dates compare as these integers do
  Periods,      \* the [start, end] ranges callers close and reopen
  Amounts,      \* what a journal moves on the account the ledger watches
  Requests,     \* request ids of the callers
  JournalIds,   \* random ids of journal_entries rows
  EventIds,     \* random ids of period_close_events rows, compared by ORDER BY
  Items,        \* what the close checklist can find unresolved
  ClockSteps,   \* how far the wall clock moves between two recorded events
  MaxPlans,     \* bound: plans callers hold at a time
  MaxAnswers    \* bound: answered retries that are remembered

ASSUME DatesAssumption  == Dates \subseteq Int
ASSUME PeriodsAssumption ==
  Periods \subseteq {p \in [start : Dates, end : Dates] : p.start <= p.end}
ASSUME ItemsAssumption ==
  \A f \in Items : f.start \in Dates /\ f.end \in Dates /\ f.start <= f.end
ASSUME EventIdsAssumption == EventIds \subseteq Nat
ASSUME ClockAssumption  == ClockSteps \subseteq Int
ASSUME BoundAssumption  == MaxPlans \in Nat /\ MaxAnswers \in Nat

VARIABLES
  lifecycle,    \* book_sets.lifecycle
  journals,     \* journal_entries rows, each with its lines summed into amount
  revision,     \* book_set_ledger_revisions.revision
  events,       \* period_close_events rows in the order they were committed
  clock,        \* wall clock when the last event was recorded
  unresolved,   \* the items other modules still have open
  idem,         \* idempotency_records rows
  answers,      \* what retried commands were answered
  plans         \* previews callers hold

ledgerVars == <<journals, revision>>
requestVars == <<idem, answers>>
vars == <<lifecycle, journals, revision, events, clock, unresolved,
          idem, answers, plans>>

-----------------------------------------------------------------------------
(* Reading the event table                                                 *)

Contains(p, d) == p.start <= d /\ d <= p.end
\* Mutant: ranges that share only an end date do not overlap.
OverlapsStrictly(p, q) == p.start < q.end /\ q.start < p.end

Overlaps(p, q) == p.start <= q.end /\ q.start <= p.end

EventsOf(p) == {i \in DOMAIN events : events[i].period = p}

\* Mutant: ORDER BY id.
PrecedesById(e, f) == e.id < f.id

\* ORDER BY occurred_at, id
Precedes(e, f) == e.at < f.at \/ (e.at = f.at /\ e.id < f.id)

\* The row that latestEvents leaves in the map for its period.
IsLatest(i) == \A j \in EventsOf(events[i].period) :
                  j = i \/ Precedes(events[j], events[i])

ReadClosed(p) == \E i \in EventsOf(p) : IsLatest(i) /\ events[i].type = "CLOSED"

\* The status the service derives for a period.
Status(p) == IF ReadClosed(p) THEN "CLOSED"
             ELSE IF EventsOf(p) = {} THEN "OPEN" ELSE "REOPENED"

\* assertPeriodOpen and assertPeriodRangeOpen
PeriodOpen(d) == \A p \in Periods : ReadClosed(p) => ~Contains(p, d)
RangeOpen(r) == \A p \in Periods : ReadClosed(p) => ~Overlaps(p, r)

\* Mutant: a reopen of the same millisecond counts as later.
TriggerAbortsInclusive(d) ==
  \E i \in DOMAIN events :
    /\ events[i].type = "CLOSED"
    /\ Contains(events[i].period, d)
    /\ ~\E j \in EventsOf(events[i].period) :
          events[j].type = "REOPENED" /\ events[j].at >= events[i].at

\* The WHERE clause of the period_close_*_guard triggers, for a date.
TriggerAborts(d) ==
  \E i \in DOMAIN events :
    /\ events[i].type = "CLOSED"
    /\ Contains(events[i].period, d)
    /\ ~\E j \in EventsOf(events[i].period) :
          events[j].type = "REOPENED" /\ events[j].at > events[i].at

-----------------------------------------------------------------------------
(* What a plan shows                                                       *)

JournalsUpTo(d) == {j \in journals : j.date <= d}
JournalsIn(p) == {j \in journals : Contains(p, j.date)}

\* Debit and credit totals of a set of journals: reports carry totals, so two
\* sets of journals with the same totals make the same plan.
Turnover(J) == [debit  |-> MapThenSumSet(LAMBDA j : IF j.amount > 0 THEN j.amount ELSE 0, J),
                credit |-> MapThenSumSet(LAMBDA j : IF j.amount < 0 THEN -j.amount ELSE 0, J)]

\* Trial balance and balance sheet as of the end date, profit and loss within.
LedgerSnapshot(p) == [asOf |-> Turnover(JournalsUpTo(p.end)),
                      within |-> Turnover(JournalsIn(p))]

Checklist(p) == {f \in unresolved : Overlaps(f, p)}

\* planHash is a SHA-256 of exactly these fields, so the plan stands for it.
Plan(op, p) == [operation |-> op, period |-> p, status |-> Status(p),
                ledger |-> LedgerSnapshot(p), checklist |-> Checklist(p)]

-----------------------------------------------------------------------------
(* Idempotency: the record is inserted by the transaction it describes.    *)

Answer(r, command, result) == [request |-> r, command |-> command, result |-> result]

Delivered(r) == \E x \in idem : x.request = r

\* Mutant: the effect commits without its idempotency record.
FinishUnrecorded(r, command, result) == ~Delivered(r) /\ UNCHANGED <<idem, answers>>

\* A first delivery: the unique index on (tenant, request_id) admits one row.
\* The caller may die before it reads the answer, and send the command again.
Finish(r, command, result) ==
  /\ ~Delivered(r)
  /\ idem' = idem \cup {Answer(r, command, result)}
  /\ UNCHANGED answers

\* Mutant: the stored result answers any command under its request id.
ReplayAnyCommand(r, command) ==
  /\ \E x \in idem : /\ x.request = r
                     /\ answers' = answers \cup {Answer(r, command, x.result)}
  /\ Cardinality(answers) < MaxAnswers
  /\ UNCHANGED <<lifecycle, ledgerVars, events, clock, unresolved, idem, plans>>

\* A retry with the hash of the stored command reads the stored result.  Any
\* other command under that id is refused with IDEMPOTENCY_CONFLICT.
Replay(r, command) ==
  /\ \E x \in idem : /\ x.request = r /\ x.command = command
                     /\ answers' = answers \cup {Answer(r, command, x.result)}
  /\ Cardinality(answers) < MaxAnswers
  /\ UNCHANGED <<lifecycle, ledgerVars, events, clock, unresolved, idem, plans>>

-----------------------------------------------------------------------------
(* Commands                                                                *)

PostCommand(d, a) == [op |-> "journal.post", date |-> d, amount |-> a]

\* The effect of postJournalInSession: guards, the row, and the trigger that
\* advances the ledger revision.
InsertJournal(d, a, r, id) ==
  /\ PeriodOpen(d)
  /\ ~TriggerAborts(d)
  /\ id \notin {j.id : j \in journals}
  /\ journals' = journals \cup {[id |-> id, date |-> d, amount |-> a, request |-> r]}
  /\ revision' = revision + 1

PostJournal(r, d, a, id) ==
  /\ lifecycle = "ACTIVE"
  /\ InsertJournal(d, a, r, id)
  /\ Finish(r, PostCommand(d, a), id)
  /\ UNCHANGED <<lifecycle, events, clock, unresolved, plans>>

\* period.close.preview and period.reopen.preview.  Callers keep at most MaxPlans
\* plans between them and may let go of any.
Preview(op, p) ==
  /\ lifecycle = "ACTIVE"
  /\ \E kept \in SUBSET plans : /\ Cardinality(kept) < MaxPlans
                               /\ plans' = kept \cup {Plan(op, p)}
  /\ UNCHANGED <<lifecycle, ledgerVars, events, clock, unresolved, requestVars>>

PeriodCommand(plan, override) ==
  [op |-> plan.operation, plan |-> plan, override |-> override]

\* The shared tail of commit(): now is read inside the session.
RecordEvent(type, plan, override, r, id, step) ==
  /\ id \notin {events[i].id : i \in DOMAIN events}
  /\ clock' = clock + step
  /\ events' = Append(events, [id |-> id, period |-> plan.period, type |-> type,
                               at |-> clock', plan |-> plan, request |-> r])
  /\ Finish(r, PeriodCommand(plan, override), id)
  /\ UNCHANGED <<lifecycle, ledgerVars, unresolved, plans>>

\* Mutant: the plan is not rebuilt inside the committing session.
ClosePeriodUnchecked(r, plan, override, id, step) ==
  /\ lifecycle = "ACTIVE"
  /\ plan.operation = "CLOSE"
  /\ ~ReadClosed(plan.period)
  /\ RangeOpen(plan.period)
  /\ plan.checklist = {} \/ override
  /\ RecordEvent("CLOSED", plan, override, r, id, step)

ClosePeriod(r, plan, override, id, step) ==
  /\ lifecycle = "ACTIVE"
  /\ plan = Plan("CLOSE", plan.period)                  \* PERIOD_PLAN_STALE
  /\ ~ReadClosed(plan.period)                           \* PERIOD_ALREADY_CLOSED
  /\ RangeOpen(plan.period)                             \* PERIOD_OVERLAP
  /\ plan.checklist = {} \/ override                    \* PERIOD_CLOSE_OVERRIDE_REQUIRED
  /\ RecordEvent("CLOSED", plan, override, r, id, step)

\* Mutant: the event row carries the new status instead of the event type.
ReopenPeriodAsOpen(r, plan, id, step) ==
  /\ lifecycle = "ACTIVE"
  /\ plan = Plan("REOPEN", plan.period)
  /\ ReadClosed(plan.period)
  /\ RecordEvent("OPEN", plan, FALSE, r, id, step)

ReopenPeriod(r, plan, id, step) ==
  /\ lifecycle = "ACTIVE"
  /\ plan = Plan("REOPEN", plan.period)                 \* PERIOD_PLAN_STALE
  /\ ReadClosed(plan.period)                            \* PERIOD_NOT_CLOSED
  /\ RecordEvent("REOPENED", plan, FALSE, r, id, step)

\* bookset.archive of a BookSet that is not its tenant's default.
ArchiveBookSet(r) ==
  /\ lifecycle = "ACTIVE"
  /\ lifecycle' = "ARCHIVED"
  /\ Finish(r, [op |-> "bookset.archive"], "ARCHIVED")
  /\ UNCHANGED <<ledgerVars, events, clock, unresolved, plans>>

\* Work that the GST, withholding, payroll, asset, FX, bank and compliance
\* modules open and resolve; none of it is bound to the period being open.
MoveItem(f) ==
  /\ unresolved' = IF f \in unresolved THEN unresolved \ {f} ELSE unresolved \cup {f}
  /\ UNCHANGED <<lifecycle, ledgerVars, events, clock, requestVars, plans>>

-----------------------------------------------------------------------------
Init ==
  /\ lifecycle = "ACTIVE"
  /\ journals = {}
  /\ revision = 0
  /\ events = <<>>
  /\ clock = 0
  /\ unresolved = {}
  /\ idem = {}
  /\ answers = {}
  /\ plans = {}

\* Commands callers have sent; an id may come back with another one of them.
SentCommands == {x.command : x \in idem}

LedgerCommand ==
  \/ \E r \in Requests, d \in Dates, a \in Amounts, id \in JournalIds : PostJournal(r, d, a, id)
  \/ \E p \in Periods, op \in {"CLOSE", "REOPEN"} : Preview(op, p)
  \/ \E r \in Requests, plan \in plans, override \in BOOLEAN, id \in EventIds, step \in ClockSteps :
        ClosePeriod(r, plan, override, id, step)
  \/ \E r \in Requests, plan \in plans, id \in EventIds, step \in ClockSteps :
        ReopenPeriod(r, plan, id, step)
  \/ \E r \in Requests : ArchiveBookSet(r)
  \/ \E r \in Requests, c \in SentCommands : Replay(r, c)

Next == LedgerCommand \/ \E f \in Items : MoveItem(f)

Spec == Init /\ [][Next]_vars

-----------------------------------------------------------------------------
(* What holds                                                              *)

\* The state is well formed.
TypeOK ==
  /\ lifecycle \in {"ACTIVE", "ARCHIVED"}
  /\ journals \subseteq [id : JournalIds, date : Dates, amount : Amounts, request : Requests]
  /\ revision \in Nat
  /\ events \in Seq({events[i] : i \in DOMAIN events})
  /\ \A i \in DOMAIN events : /\ events[i].id \in EventIds
                              /\ events[i].period \in Periods
                              /\ events[i].type \in {"CLOSED", "REOPENED"}
                              /\ events[i].at \in Int
                              /\ events[i].request \in Requests
  /\ clock \in Int
  /\ unresolved \subseteq Items
  /\ \A x \in idem \cup answers : x.request \in Requests
  /\ \A x \in plans : x.period \in Periods

\* Closed according to the order of the commits.
IsLastCommitted(i) == \A j \in EventsOf(events[i].period) : j <= i
CommittedClosed(p) == \E i \in EventsOf(p) : IsLastCommitted(i) /\ events[i].type = "CLOSED"

\* Between the commit of a close and the commit of the reopen that undoes it,
\* no command posts a journal dated inside the period, whichever way random
\* row ids order events recorded in one millisecond: where the service guard
\* misreads the table the schema trigger still aborts the insert.
ClosedPeriodFrozen ==
  [][\A p \in Periods : CommittedClosed(p) => JournalsIn(p)' = JournalsIn(p)]_vars

\* The profit and loss a human confirmed when closing a period is, for as long
\* as the close stands, the profit and loss the ledger reports for it.
ClosedResultStands ==
  \A i \in DOMAIN events :
    IsLastCommitted(i) /\ events[i].type = "CLOSED" =>
      LET p == events[i].period IN events[i].plan.ledger.within = Turnover(JournalsIn(p))

\* No date belongs to two periods that the services read as closed, whatever
\* the clock does, so that reopening a period gives its dates back to them.
ClosedPeriodsDisjoint ==
  \A p, q \in Periods : ReadClosed(p) /\ ReadClosed(q) =>
    p = q \/ \A d \in Dates : ~(Contains(p, d) /\ Contains(q, d))

\* period.status, and every guard of the services, can take a period for closed
\* when its last commit reopened it, or for open when that closed it, in one
\* case only: that last event and another of the period share a millisecond.
StatusErrsOnlyInTies ==
  \A p \in Periods :
    \/ ReadClosed(p) <=> CommittedClosed(p)
    \/ \E i, j \in EventsOf(p) : IsLastCommitted(i) /\ j # i /\ events[j].at = events[i].at

\* Where the two readings of the table differ the trigger is the stricter: a date
\* it lets through is open to the services and in no period whose last commit
\* closed it.  A tie can make it abort a posting that a service admitted.
TriggerIsTheStricter ==
  \A d \in Dates : ~TriggerAborts(d) =>
    PeriodOpen(d) /\ \A p \in Periods : CommittedClosed(p) => ~Contains(p, d)

\* A request id has at most one effect, however often and with whatever command
\* it is sent.
OneEffectPerRequest ==
  /\ \A j, k \in journals : j.request = k.request => j = k
  /\ \A i, k \in DOMAIN events : events[i].request = events[k].request => i = k
  /\ \A j \in journals, i \in DOMAIN events : j.request # events[i].request

\* Whatever a retry was answered is the effect of the very command it sent.
AnswersTellTheEffect ==
  \A x \in answers :
    \/ \E j \in journals : x = Answer(j.request, PostCommand(j.date, j.amount), j.id)
    \/ \E i \in DOMAIN events, o \in BOOLEAN :
          x = Answer(events[i].request, PeriodCommand(events[i].plan, o), events[i].id)
    \/ lifecycle = "ARCHIVED" /\ x.result = "ARCHIVED" /\ x.command = [op |-> "bookset.archive"]
=============================================================================
