-------------------------- MODULE PeriodLedgerProofs --------------------------
(***************************************************************************)
(* What PeriodLedger guarantees for every set of dates, periods, requests  *)
(* and ids.                                                                *)
(*                                                                         *)
(* Events carry two orders: the order of the commits, which is their index, *)
(* and the order in which the services read them, which is that of the wall *)
(* clock and, within a millisecond, of random ids.  As long as the clock    *)
(* never steps back the first order agrees with the clock                   *)
(* (TimesFollowCommits), and that is all the trigger needs to keep closed   *)
(* periods frozen.  What the services guard with their own reading holds on *)
(* any clock, because a period that is read as closed changes its reading   *)
(* only by an event of its own.                                             *)
(***************************************************************************)
EXTENDS PeriodLedger, SequenceTheorems, TLAPS

-----------------------------------------------------------------------------
(* The three kinds of steps, as far as the dated ledger is concerned       *)

Quiet == UNCHANGED <<journals, events, clock>>

Posted(row) ==
  /\ PeriodOpen(row.date)
  /\ ~TriggerAborts(row.date)
  /\ journals' = journals \cup {row}
  /\ UNCHANGED <<events, clock>>

Recorded(e) ==
  /\ e.id \in EventIds /\ e.period \in Periods /\ e.request \in Requests
  /\ e.type \in {"CLOSED", "REOPENED"}
  /\ e.type = "CLOSED" => /\ RangeOpen(e.period)
                          /\ e.plan.ledger.within = Turnover(JournalsIn(e.period))
                          /\ e.plan.checklist = Checklist(e.period)
  /\ e.type = "REOPENED" => ReadClosed(e.period)
  /\ e.at = clock'
  /\ \E step \in ClockSteps : clock' = clock + step
  /\ events' = Append(events, e)
  /\ UNCHANGED journals

\* An append keeps the old rows at their index and adds one at the end.
LEMMA AppendFacts ==
  ASSUME NEW S, NEW s \in Seq(S), NEW e
  PROVE  LET t == Append(s, e)
         IN  /\ t \in Seq({t[i] : i \in DOMAIN t})
             /\ Len(s) \in Nat
             /\ DOMAIN s = 1 .. Len(s)
             /\ DOMAIN t = 1 .. (Len(s) + 1)
             /\ \A i \in 1 .. Len(s) : t[i] = s[i]
             /\ t[Len(s) + 1] = e
<1> DEFINE t == Append(s, e)
<1>1. s \in Seq(S \cup {e})
  OBVIOUS
<1>2. /\ t \in Seq(S \cup {e})
      /\ Len(t) = Len(s) + 1
      /\ \A i \in 1 .. Len(s) : t[i] = s[i]
      /\ t[Len(s) + 1] = e
  BY <1>1, AppendProperties
<1>3. t \in Seq({t[i] : i \in DOMAIN t})
  BY <1>2, SeqOfRange DEF Range
<1>4. Len(s) \in Nat /\ DOMAIN s = 1 .. Len(s) /\ DOMAIN t = 1 .. Len(t)
  BY <1>2, LenProperties
<1> QED BY <1>2, <1>3, <1>4

-----------------------------------------------------------------------------
(* Type correctness                                                        *)

LEMMA EventStep ==
  ASSUME TypeOK, NEW type \in {"CLOSED", "REOPENED"}, NEW plan \in plans, NEW override,
         NEW r \in Requests, NEW id \in EventIds, NEW step \in ClockSteps,
         RecordEvent(type, plan, override, r, id, step),
         type = "CLOSED" => /\ RangeOpen(plan.period)
                            /\ plan.ledger.within = Turnover(JournalsIn(plan.period))
                            /\ plan.checklist = Checklist(plan.period),
         type = "REOPENED" => ReadClosed(plan.period)
  PROVE  \E e : Recorded(e)
<1> DEFINE e == [id |-> id, period |-> plan.period, type |-> type,
                 at |-> clock', plan |-> plan, request |-> r]
<1>1. events' = Append(events, e) /\ clock' = clock + step /\ UNCHANGED journals
  BY DEF RecordEvent, ledgerVars
<1>2. plan.period \in Periods
  BY DEF TypeOK
<1>3. Recorded(e)
  BY <1>1, <1>2 DEF Recorded
<1> QED BY <1>3

\* Every step is quiet, posts one journal, or records one event.
LEMMA StepCases ==
  ASSUME TypeOK, [Next]_vars
  PROVE  Quiet \/ (\E row : Posted(row)) \/ (\E e : Recorded(e))
<1>1. CASE UNCHANGED vars
  BY <1>1 DEF vars, Quiet, ledgerVars
<1>2. ASSUME NEW f \in Items, MoveItem(f)
      PROVE  Quiet
  BY <1>2 DEF MoveItem, Quiet, ledgerVars
<1>3. ASSUME NEW r \in Requests, NEW d \in Dates, NEW a \in Amounts, NEW id \in JournalIds,
             PostJournal(r, d, a, id)
      PROVE  \E row : Posted(row)
  <2> DEFINE row == [id |-> id, date |-> d, amount |-> a, request |-> r]
  <2>1. Posted(row)
    BY <1>3 DEF PostJournal, InsertJournal, Posted
  <2> QED BY <2>1
<1>4. ASSUME NEW p \in Periods, NEW op \in {"CLOSE", "REOPEN"}, Preview(op, p)
      PROVE  Quiet
  BY <1>4 DEF Preview, Quiet, ledgerVars
<1>5. ASSUME NEW r \in Requests, NEW plan \in plans, NEW override \in BOOLEAN,
             NEW id \in EventIds, NEW step \in ClockSteps,
             ClosePeriod(r, plan, override, id, step)
      PROVE  \E e : Recorded(e)
  <2>1. /\ plan.ledger.within = Turnover(JournalsIn(plan.period))
        /\ plan.checklist = Checklist(plan.period)
    BY <1>5 DEF ClosePeriod, Plan, LedgerSnapshot
  <2>2. RangeOpen(plan.period) /\ RecordEvent("CLOSED", plan, override, r, id, step)
    BY <1>5 DEF ClosePeriod
  <2> QED BY <2>1, <2>2, EventStep
<1>6. ASSUME NEW r \in Requests, NEW plan \in plans, NEW id \in EventIds,
             NEW step \in ClockSteps, ReopenPeriod(r, plan, id, step)
      PROVE  \E e : Recorded(e)
  <2>1. RecordEvent("REOPENED", plan, FALSE, r, id, step) /\ ReadClosed(plan.period)
    BY <1>6 DEF ReopenPeriod
  <2> QED BY <2>1, EventStep
<1>7. ASSUME NEW r \in Requests, ArchiveBookSet(r)
      PROVE  Quiet
  BY <1>7 DEF ArchiveBookSet, Quiet, ledgerVars
<1>8. ASSUME NEW r \in Requests, NEW c \in SentCommands, Replay(r, c)
      PROVE  Quiet
  BY <1>8 DEF Replay, Quiet, ledgerVars
<1> QED
  BY <1>1, <1>2, <1>3, <1>4, <1>5, <1>6, <1>7, <1>8 DEF Next, LedgerCommand

\* What the sequence of events keeps when a row is appended.
LEMMA EventTypes ==
  ASSUME TypeOK, NEW e, Recorded(e)
  PROVE  /\ events' \in Seq({events'[i] : i \in DOMAIN events'})
         /\ \A i \in DOMAIN events' : /\ events'[i].id \in EventIds
                                      /\ events'[i].period \in Periods
                                      /\ events'[i].type \in {"CLOSED", "REOPENED"}
                                      /\ events'[i].at \in Int
                                      /\ events'[i].request \in Requests
         /\ clock' \in Int
<1>1. clock' \in Int
  BY ClockAssumption DEF Recorded, TypeOK
<1>2. events \in Seq({events[i] : i \in DOMAIN events}) /\ events' = Append(events, e)
  BY DEF Recorded, TypeOK
<1>3. events' \in Seq({events'[i] : i \in DOMAIN events'})
  BY <1>2, AppendFacts
<1>4. /\ Len(events) \in Nat /\ DOMAIN events = 1 .. Len(events)
      /\ DOMAIN events' = 1 .. (Len(events) + 1)
      /\ \A i \in 1 .. Len(events) : events'[i] = events[i]
      /\ events'[Len(events) + 1] = e
  BY <1>2, AppendFacts
<1>5. \A i \in DOMAIN events' : events'[i] = e \/ \E k \in DOMAIN events : events'[i] = events[k]
  BY <1>4
<1> QED
  BY <1>1, <1>3, <1>5 DEF Recorded, TypeOK

LEMMA TypeStep == TypeOK /\ [Next]_vars => TypeOK'
<1> SUFFICES ASSUME TypeOK, [Next]_vars PROVE TypeOK'
  OBVIOUS
<1>1. CASE UNCHANGED vars
  BY <1>1 DEF vars, ledgerVars, TypeOK
<1>2. ASSUME NEW f \in Items, MoveItem(f)
      PROVE  TypeOK'
  BY <1>2 DEF MoveItem, ledgerVars, requestVars, TypeOK
<1>3. ASSUME NEW r \in Requests, NEW d \in Dates, NEW a \in Amounts, NEW id \in JournalIds,
             PostJournal(r, d, a, id)
      PROVE  TypeOK'
  BY <1>3 DEF PostJournal, InsertJournal, Finish, Answer, TypeOK
<1>4. ASSUME NEW p \in Periods, NEW op \in {"CLOSE", "REOPEN"}, Preview(op, p)
      PROVE  TypeOK'
  <2>1. Plan(op, p).period = p
    BY DEF Plan
  <2>2. PICK kept \in SUBSET plans : plans' = kept \cup {Plan(op, p)}
    BY <1>4 DEF Preview
  <2>3. \A x \in plans' : x.period \in Periods
    BY <2>1, <2>2 DEF TypeOK
  <2> QED BY <1>4, <2>3 DEF Preview, ledgerVars, requestVars, TypeOK
<1>5. ASSUME NEW type \in {"CLOSED", "REOPENED"}, NEW plan \in plans, NEW override,
             NEW r \in Requests, NEW id \in EventIds, NEW step \in ClockSteps,
             RecordEvent(type, plan, override, r, id, step), \E e : Recorded(e)
      PROVE  TypeOK'
  <2>1. PICK e : Recorded(e)
    BY <1>5
  <2>2. UNCHANGED <<lifecycle, journals, revision, unresolved, plans, answers>>
    BY <1>5 DEF RecordEvent, Finish, ledgerVars
  <2>3. \A x \in idem' : x.request \in Requests
    BY <1>5 DEF RecordEvent, Finish, Answer, TypeOK
  <2> QED BY <2>1, <2>2, <2>3, EventTypes DEF TypeOK
<1>6. ASSUME NEW r \in Requests, NEW plan \in plans, NEW override \in BOOLEAN,
             NEW id \in EventIds, NEW step \in ClockSteps,
             ClosePeriod(r, plan, override, id, step)
      PROVE  TypeOK'
  <2>1. /\ plan.ledger.within = Turnover(JournalsIn(plan.period))
        /\ plan.checklist = Checklist(plan.period)
        /\ RangeOpen(plan.period)
        /\ RecordEvent("CLOSED", plan, override, r, id, step)
    BY <1>6 DEF ClosePeriod, Plan, LedgerSnapshot
  <2>2. \E e : Recorded(e)
    BY <2>1, EventStep
  <2> QED BY <2>1, <2>2, <1>5
<1>7. ASSUME NEW r \in Requests, NEW plan \in plans, NEW id \in EventIds,
             NEW step \in ClockSteps, ReopenPeriod(r, plan, id, step)
      PROVE  TypeOK'
  <2>1. RecordEvent("REOPENED", plan, FALSE, r, id, step) /\ ReadClosed(plan.period)
    BY <1>7 DEF ReopenPeriod
  <2>2. \E e : Recorded(e)
    BY <2>1, EventStep
  <2> QED BY <2>1, <2>2, <1>5
<1>8. ASSUME NEW r \in Requests, ArchiveBookSet(r)
      PROVE  TypeOK'
  BY <1>8 DEF ArchiveBookSet, Finish, Answer, ledgerVars, TypeOK
<1>9. ASSUME NEW r \in Requests, NEW c \in SentCommands, Replay(r, c)
      PROVE  TypeOK'
  <2>1. PICK x \in idem : answers' = answers \cup {Answer(r, c, x.result)}
    BY <1>9 DEF Replay
  <2>2. \A y \in answers' : y.request \in Requests
    BY <2>1 DEF Answer, TypeOK
  <2> QED BY <1>9, <2>2 DEF Replay, ledgerVars, TypeOK
<1> QED
  BY <1>1, <1>2, <1>3, <1>4, <1>6, <1>7, <1>8, <1>9 DEF Next, LedgerCommand

\* The ledger, the event table and the idempotency records stay well formed.
THEOREM TypeCorrect == Spec => []TypeOK
<1>1. Init => TypeOK
  <2> SUFFICES ASSUME Init PROVE TypeOK
    OBVIOUS
  <2>1. events \in Seq({events[i] : i \in DOMAIN events}) /\ DOMAIN events = {}
    BY DEF Init
  <2> QED BY <2>1 DEF Init, TypeOK
<1> QED BY <1>1, TypeStep, PTL DEF Spec

-----------------------------------------------------------------------------
(* A clock that never steps back                                           *)

\* The wall clock orders events as they were committed, or not at all.
TimesFollowCommits ==
  /\ \A i, j \in DOMAIN events : i <= j => events[i].at <= events[j].at
  /\ \A i \in DOMAIN events : events[i].at <= clock

\* The old rows are where they were, and the new one has index Len(events) + 1.
LEMMA RecordedRows ==
  ASSUME TypeOK, NEW e, Recorded(e)
  PROVE  /\ Len(events) \in Nat /\ DOMAIN events = 1 .. Len(events)
         /\ DOMAIN events' = 1 .. (Len(events) + 1)
         /\ \A i \in 1 .. Len(events) : events'[i] = events[i]
         /\ events'[Len(events) + 1] = e
<1>1. events \in Seq({events[i] : i \in DOMAIN events}) /\ events' = Append(events, e)
  BY DEF Recorded, TypeOK
<1> QED BY <1>1, AppendFacts

LEMMA TimesStep ==
  ASSUME ClockSteps \subseteq Nat, TypeOK, TimesFollowCommits, [Next]_vars
  PROVE  TimesFollowCommits'
<1>1. CASE Quiet
  BY <1>1 DEF Quiet, TimesFollowCommits
<1>2. ASSUME NEW row, Posted(row)
      PROVE  TimesFollowCommits'
  BY <1>2 DEF Posted, TimesFollowCommits
<1>3. ASSUME NEW e, Recorded(e)
      PROVE  TimesFollowCommits'
  <2> DEFINE n == Len(events)
  <2>1. /\ n \in Nat /\ DOMAIN events = 1 .. n /\ DOMAIN events' = 1 .. (n + 1)
        /\ \A i \in 1 .. n : events'[i] = events[i]
        /\ events'[n + 1] = e
    BY <1>3, RecordedRows
  <2>2. PICK step \in ClockSteps : clock' = clock + step
    BY <1>3 DEF Recorded
  <2>3. clock \in Int /\ clock <= clock' /\ e.at = clock' /\ clock' \in Int
    BY <1>3, <2>2 DEF TypeOK, Recorded
  <2>4. \A i \in 1 .. n : events[i].at \in Int /\ events[i].at <= clock'
    BY <2>1, <2>3 DEF TypeOK, TimesFollowCommits
  <2>5. \A i \in DOMAIN events' : events'[i].at <= clock'
    BY <2>1, <2>3, <2>4
  <2>6. ASSUME NEW i \in DOMAIN events', NEW j \in DOMAIN events', i <= j
        PROVE  events'[i].at <= events'[j].at
    <3>1. CASE j = n + 1
      BY <3>1, <2>1, <2>3, <2>5
    <3>2. CASE j \in 1 .. n
      BY <3>2, <2>6, <2>1 DEF TimesFollowCommits
    <3> QED BY <3>1, <3>2, <2>1
  <2> QED BY <2>5, <2>6 DEF TimesFollowCommits
<1> QED BY <1>1, <1>2, <1>3, StepCases

\* A date of a period whose last committed event closed it is refused by the
\* trigger: no reopen was committed after that close, so none is dated after it.
LEMMA TriggerGuards ==
  ASSUME TypeOK, TimesFollowCommits, NEW p, CommittedClosed(p), NEW d, Contains(p, d)
  PROVE  TriggerAborts(d)
<1>1. PICK i \in EventsOf(p) : IsLastCommitted(i) /\ events[i].type = "CLOSED"
  BY DEF CommittedClosed
<1>2. i \in DOMAIN events /\ events[i].period = p
  BY <1>1 DEF EventsOf
<1>3. ASSUME NEW j \in EventsOf(p)
      PROVE  ~(events[j].at > events[i].at)
  <2>1. j \in DOMAIN events /\ j <= i
    BY <1>1, <1>2, <1>3 DEF EventsOf, IsLastCommitted
  <2>2. events[j].at <= events[i].at /\ events[j].at \in Int /\ events[i].at \in Int
    BY <1>2, <2>1 DEF TimesFollowCommits, TypeOK
  <2> QED BY <2>2
<1> QED BY <1>1, <1>2, <1>3 DEF TriggerAborts

LEMMA FrozenStep ==
  ASSUME TypeOK, TimesFollowCommits, [Next]_vars, NEW p, CommittedClosed(p)
  PROVE  JournalsIn(p)' = JournalsIn(p)
<1>1. CASE UNCHANGED journals
  BY <1>1 DEF JournalsIn
<1>2. ASSUME NEW row, Posted(row)
      PROVE  JournalsIn(p)' = JournalsIn(p)
  <2>1. ~Contains(p, row.date)
    BY <1>2, TriggerGuards DEF Posted
  <2> QED BY <1>2, <2>1 DEF Posted, JournalsIn
<1> QED BY <1>1, <1>2, StepCases DEF Quiet, Recorded

LEMMA TimesInvariant ==
  ASSUME ClockSteps \subseteq Nat
  PROVE  Spec => [](TypeOK /\ TimesFollowCommits)
<1>1. Init => TimesFollowCommits
  BY DEF Init, TimesFollowCommits
<1>2. TypeOK /\ TimesFollowCommits /\ [Next]_vars => TimesFollowCommits'
  BY TimesStep
<1> QED BY <1>1, <1>2, TypeCorrect, PTL DEF Spec

\* Under a clock that never steps back, and although it may stand still, no
\* journal enters a period between the commit of a close and of its reopen.
THEOREM ClosedPeriodsStayFrozen ==
  ASSUME ClockSteps \subseteq Nat
  PROVE  Spec => ClosedPeriodFrozen
<1>1. TypeOK /\ TimesFollowCommits /\ [Next]_vars =>
        [\A p \in Periods : CommittedClosed(p) => JournalsIn(p)' = JournalsIn(p)]_vars
  BY FrozenStep
<1> QED BY <1>1, TimesInvariant, PTL DEF Spec, ClosedPeriodFrozen

\* The result a close was confirmed with stays the result of its period.
LEMMA ResultStep ==
  ASSUME TypeOK, TimesFollowCommits, ClosedResultStands, [Next]_vars
  PROVE  ClosedResultStands'
<1> DEFINE n == Len(events)
<1>1. \A p : CommittedClosed(p) => JournalsIn(p)' = JournalsIn(p)
  BY FrozenStep
<1>2. SUFFICES ASSUME NEW i \in DOMAIN events', IsLastCommitted(i)', events'[i].type = "CLOSED",
                      NEW p, p = events'[i].period
               PROVE  events'[i].plan.ledger.within = Turnover(JournalsIn(p)')
  BY DEF ClosedResultStands
<1>3. ASSUME i \in DOMAIN events, events'[i] = events[i], IsLastCommitted(i)
      PROVE  events'[i].plan.ledger.within = Turnover(JournalsIn(p)')
  <2>1. CommittedClosed(p)
    BY <1>2, <1>3 DEF CommittedClosed, EventsOf
  <2>2. events[i].plan.ledger.within = Turnover(JournalsIn(p))
    BY <1>2, <1>3 DEF ClosedResultStands
  <2> QED BY <1>1, <1>3, <2>1, <2>2
<1>4. CASE UNCHANGED events
  BY <1>2, <1>3, <1>4 DEF IsLastCommitted, EventsOf
<1>5. ASSUME NEW e, Recorded(e)
      PROVE  events'[i].plan.ledger.within = Turnover(JournalsIn(p)')
  <2>1. /\ n \in Nat /\ DOMAIN events = 1 .. n /\ DOMAIN events' = 1 .. (n + 1)
        /\ \A k \in 1 .. n : events'[k] = events[k]
        /\ events'[n + 1] = e
    BY <1>5, RecordedRows
  <2>2. CASE i = n + 1
    <3>1. e.plan.ledger.within = Turnover(JournalsIn(e.period))
      BY <1>2, <1>5, <2>1, <2>2 DEF Recorded
    <3>2. JournalsIn(p)' = JournalsIn(p)
      BY <1>5 DEF Recorded, JournalsIn
    <3> QED BY <1>2, <2>1, <2>2, <3>1, <3>2
  <2>3. CASE i \in 1 .. n
    <3>1. IsLastCommitted(i)
      BY <1>2, <2>1, <2>3 DEF IsLastCommitted, EventsOf
    <3> QED BY <1>3, <2>1, <2>3, <3>1
  <2> QED BY <1>2, <2>1, <2>2, <2>3
<1> QED BY <1>4, <1>5, StepCases DEF Quiet, Posted

\* Every close that stands shows the profit and loss its human confirmed.
THEOREM ClosedResultsStand ==
  ASSUME ClockSteps \subseteq Nat
  PROVE  Spec => []ClosedResultStands
<1>1. Init => ClosedResultStands
  BY DEF Init, ClosedResultStands
<1>2. TypeOK /\ TimesFollowCommits /\ ClosedResultStands /\ [Next]_vars => ClosedResultStands'
  BY ResultStep
<1> QED BY <1>1, <1>2, TimesInvariant, PTL DEF Spec

-----------------------------------------------------------------------------
(* The two readings of the table                                           *)

\* Every period with events has a last one.
HasLast == \A i \in DOMAIN events : \E j \in EventsOf(events[i].period) : IsLastCommitted(j)

LEMMA HasLastStep ==
  ASSUME TypeOK, HasLast, [Next]_vars
  PROVE  HasLast'
<1>1. CASE UNCHANGED events
  BY <1>1 DEF HasLast, IsLastCommitted, EventsOf
<1>2. ASSUME NEW e, Recorded(e)
      PROVE  HasLast'
  <2> DEFINE n == Len(events)
  <2>1. /\ n \in Nat /\ DOMAIN events = 1 .. n /\ DOMAIN events' = 1 .. (n + 1)
        /\ \A i \in 1 .. n : events'[i] = events[i]
        /\ events'[n + 1] = e
    BY <1>2, RecordedRows
  <2>2. ASSUME NEW i \in DOMAIN events'
        PROVE  (\E j \in EventsOf(events[i].period) : IsLastCommitted(j))'
    <3> DEFINE p == events'[i].period
    <3>1. CASE p = e.period
      BY <3>1, <2>1 DEF EventsOf, IsLastCommitted
    <3>2. CASE p # e.period
      <4>1. i \in 1 .. n /\ p = events[i].period
        BY <3>2, <2>1
      <4>2. PICK j \in EventsOf(events[i].period) : IsLastCommitted(j)
        BY <2>1, <4>1 DEF HasLast
      <4>3. j \in 1 .. n /\ events[j].period = p
        BY <2>1, <4>1, <4>2 DEF EventsOf
      <4>4. events'[j] = events[j] /\ j \in DOMAIN events'
        BY <2>1, <4>3
      <4>5. ASSUME NEW k \in DOMAIN events', events'[k].period = p
            PROVE  k <= j
        <5>1. k \in 1 .. n /\ events[k].period = p
          BY <2>1, <3>2, <4>5
        <5> QED BY <2>1, <4>1, <4>2, <4>3, <5>1 DEF EventsOf, IsLastCommitted
      <4> QED BY <4>3, <4>4, <4>5 DEF EventsOf, IsLastCommitted
    <3> QED BY <3>1, <3>2
  <2> QED BY <2>2 DEF HasLast
<1> QED BY <1>1, <1>2, StepCases DEF Quiet, Posted

\* The last event of a period that shares its millisecond with no other event
\* of the period is the one that the services read as its latest.
LEMMA UntiedIsRead ==
  ASSUME TypeOK, TimesFollowCommits, NEW p, NEW l \in EventsOf(p), IsLastCommitted(l),
         \A j \in EventsOf(p) : j # l => events[j].at # events[l].at
  PROVE  \A i \in EventsOf(p) : IsLatest(i) <=> i = l
<1>1. /\ l \in DOMAIN events /\ events[l].period = p
      /\ \A j \in EventsOf(p) : j \in DOMAIN events /\ events[j].period = p /\ events[j].at \in Int
      /\ DOMAIN events \subseteq Int
  BY DEF EventsOf, TypeOK
<1>2. \A j \in EventsOf(p) : j # l => events[j].at < events[l].at
  <2> SUFFICES ASSUME NEW j \in EventsOf(p), j # l
               PROVE  events[j].at < events[l].at
    OBVIOUS
  <2>1. j <= l
    BY <1>1 DEF IsLastCommitted
  <2>2. events[j].at <= events[l].at
    BY <1>1, <2>1 DEF TimesFollowCommits
  <2> QED BY <1>1, <2>2
<1>3. IsLatest(l)
  BY <1>1, <1>2 DEF IsLatest, Precedes
<1>4. ASSUME NEW i \in EventsOf(p), i # l
      PROVE  ~IsLatest(i)
  <2>1. events[i].at < events[l].at /\ events[i].at \in Int /\ events[l].at \in Int
    BY <1>1, <1>2, <1>4
  <2>2. ~Precedes(events[l], events[i])
    BY <2>1 DEF Precedes
  <2> QED BY <1>1, <1>4, <2>2 DEF IsLatest
<1> QED BY <1>3, <1>4

LEMMA StatusLemma ==
  ASSUME TypeOK, TimesFollowCommits, HasLast
  PROVE  StatusErrsOnlyInTies
<1> SUFFICES ASSUME NEW p \in Periods,
                    ~\E i, j \in EventsOf(p) : IsLastCommitted(i) /\ j # i /\ events[j].at = events[i].at
             PROVE  ReadClosed(p) <=> CommittedClosed(p)
  BY DEF StatusErrsOnlyInTies
<1>1. CASE EventsOf(p) = {}
  BY <1>1 DEF ReadClosed, CommittedClosed
<1>2. CASE EventsOf(p) # {}
  <2>1. PICK l \in EventsOf(p) : IsLastCommitted(l)
    BY <1>2 DEF EventsOf, HasLast
  <2>2. \A i \in EventsOf(p) : IsLatest(i) <=> i = l
    BY <2>1, UntiedIsRead
  <2>3. \A i \in EventsOf(p) : IsLastCommitted(i) <=> i = l
    <3>1. DOMAIN events \subseteq Int
      BY DEF TypeOK
    <3> QED BY <2>1, <3>1 DEF EventsOf, IsLastCommitted
  <2> QED BY <2>1, <2>2, <2>3 DEF ReadClosed, CommittedClosed
<1> QED BY <1>1, <1>2

\* On a clock that never steps back, though it may stand still, period.status
\* and the guards of the services misread a period only when its last event
\* shares a millisecond with another one (period-close-service.ts:84).
THEOREM StatusErrsInTies ==
  ASSUME ClockSteps \subseteq Nat
  PROVE  Spec => []StatusErrsOnlyInTies
<1>1. Init => HasLast
  BY DEF Init, HasLast
<1>2. TypeOK /\ HasLast /\ [Next]_vars => HasLast'
  BY HasLastStep
<1> QED BY <1>1, <1>2, StatusLemma, TimesInvariant, PTL DEF Spec

\* A date of a period that the services read as closed is refused by the trigger
\* too: an event that follows the latest one strictly in time would be the latest.
LEMMA ReadIsGuarded ==
  ASSUME TypeOK, NEW p, ReadClosed(p), NEW d, Contains(p, d)
  PROVE  TriggerAborts(d)
<1>1. PICK i \in EventsOf(p) : IsLatest(i) /\ events[i].type = "CLOSED"
  BY DEF ReadClosed
<1>2. i \in DOMAIN events /\ events[i].period = p /\ events[i].at \in Int
  BY <1>1 DEF EventsOf, TypeOK
<1>3. ASSUME NEW j \in EventsOf(p), events[j].at > events[i].at
      PROVE  FALSE
  <2>1. events[j].at \in Int /\ j # i
    BY <1>2, <1>3 DEF EventsOf, TypeOK
  <2>2. Precedes(events[j], events[i])
    BY <1>1, <1>2, <1>3, <2>1 DEF IsLatest
  <2> QED BY <1>2, <1>3, <2>1, <2>2 DEF Precedes
<1> QED BY <1>1, <1>2, <1>3 DEF TriggerAborts

\* On a clock that never steps back, though it may stand still, the trigger is
\* the stricter of the two guards (drizzle/0018_period_close_v1.sql:36).
THEOREM TriggerIsStricter ==
  ASSUME ClockSteps \subseteq Nat
  PROVE  Spec => []TriggerIsTheStricter
<1>1. TypeOK /\ TimesFollowCommits => TriggerIsTheStricter
  BY TriggerGuards, ReadIsGuarded DEF TriggerIsTheStricter, PeriodOpen
<1> QED BY <1>1, TimesInvariant, PTL

-----------------------------------------------------------------------------
(* What the services guard with their own reading, on any clock            *)

\* A period is read as closed after an event if it was before, or if the event
\* closed it.
LEMMA ReadStep ==
  ASSUME TypeOK, NEW e, Recorded(e), NEW p, ReadClosed(p)'
  PROVE  ReadClosed(p) \/ (p = e.period /\ e.type = "CLOSED")
<1> DEFINE n == Len(events)
<1>1. /\ n \in Nat /\ DOMAIN events = 1 .. n /\ DOMAIN events' = 1 .. (n + 1)
      /\ \A i \in 1 .. n : events'[i] = events[i]
      /\ events'[n + 1] = e
  BY RecordedRows
<1>2. PICK i \in EventsOf(p)' : IsLatest(i)' /\ events'[i].type = "CLOSED"
  BY DEF ReadClosed
<1>3. CASE i = n + 1
  BY <1>1, <1>2, <1>3 DEF EventsOf
<1>4. CASE i \in 1 .. n
  <2>1. i \in EventsOf(p) /\ IsLatest(i)
    BY <1>1, <1>2, <1>4 DEF EventsOf, IsLatest
  <2> QED BY <1>1, <1>2, <1>4, <2>1 DEF ReadClosed
<1> QED BY <1>1, <1>2, <1>3, <1>4 DEF EventsOf

LEMMA DisjointStep ==
  ASSUME TypeOK, ClosedPeriodsDisjoint, [Next]_vars
  PROVE  ClosedPeriodsDisjoint'
<1>1. CASE UNCHANGED events
  BY <1>1 DEF ClosedPeriodsDisjoint, ReadClosed, IsLatest, EventsOf
<1>2. ASSUME NEW e, Recorded(e)
      PROVE  ClosedPeriodsDisjoint'
  <2>1. \A p \in Periods : ReadClosed(p)' => ReadClosed(p) \/ (p = e.period /\ e.type = "CLOSED")
    BY <1>2, ReadStep
  <2>2. ASSUME NEW q \in Periods, ReadClosed(q), e.type = "CLOSED", NEW d \in Dates
        PROVE  ~(Contains(q, d) /\ Contains(e.period, d))
    <3>1. ~Overlaps(q, e.period) /\ e.period \in Periods
      BY <1>2, <2>2 DEF Recorded, RangeOpen
    <3>2. d \in Int
      BY DatesAssumption
    <3>3. \A p \in Periods : p.start \in Int /\ p.end \in Int
      BY DatesAssumption, PeriodsAssumption
    <3> QED BY <3>1, <3>2, <3>3 DEF Overlaps, Contains
  <2> QED BY <2>1, <2>2 DEF ClosedPeriodsDisjoint, Contains
<1> QED BY <1>1, <1>2, StepCases DEF Quiet, Posted

\* Whatever the clock does, no date belongs to two periods that the services
\* read as closed (period-close-service.ts:96-98, 117-125).
THEOREM ClosedPeriodsAreDisjoint == Spec => []ClosedPeriodsDisjoint
<1>1. Init => ClosedPeriodsDisjoint
  BY DEF Init, ClosedPeriodsDisjoint, ReadClosed, EventsOf
<1>2. TypeOK /\ ClosedPeriodsDisjoint /\ [Next]_vars => ClosedPeriodsDisjoint'
  BY DisjointStep
<1> QED BY <1>1, <1>2, TypeCorrect, PTL DEF Spec

\* The close that is read as the latest event of its period was confirmed with
\* the result that the ledger reports.
ReadResultStands ==
  \A i \in DOMAIN events : IsLatest(i) /\ events[i].type = "CLOSED" =>
    LET p == events[i].period IN events[i].plan.ledger.within = Turnover(JournalsIn(p))

LEMMA ReadResultStep ==
  ASSUME TypeOK, ReadResultStands, [Next]_vars
  PROVE  ReadResultStands'
<1>1. CASE UNCHANGED <<journals, events>>
  BY <1>1 DEF ReadResultStands, IsLatest, EventsOf, JournalsIn
<1>2. ASSUME NEW row, Posted(row)
      PROVE  ReadResultStands'
  <2> SUFFICES ASSUME NEW i \in DOMAIN events, IsLatest(i), events[i].type = "CLOSED",
                      NEW p, p = events[i].period
               PROVE  events[i].plan.ledger.within = Turnover(JournalsIn(p)')
    BY <1>2 DEF Posted, ReadResultStands, IsLatest, EventsOf
  <2>1. ReadClosed(p) /\ p \in Periods
    BY DEF ReadClosed, EventsOf, TypeOK
  <2>2. ~Contains(p, row.date)
    BY <1>2, <2>1 DEF Posted, PeriodOpen
  <2>3. JournalsIn(p)' = JournalsIn(p)
    BY <1>2, <2>2 DEF Posted, JournalsIn
  <2> QED BY <2>3 DEF ReadResultStands
<1>3. ASSUME NEW e, Recorded(e)
      PROVE  ReadResultStands'
  <2> DEFINE n == Len(events)
  <2>1. /\ n \in Nat /\ DOMAIN events = 1 .. n /\ DOMAIN events' = 1 .. (n + 1)
        /\ \A k \in 1 .. n : events'[k] = events[k]
        /\ events'[n + 1] = e
    BY <1>3, RecordedRows
  <2> SUFFICES ASSUME NEW i \in DOMAIN events', IsLatest(i)', events'[i].type = "CLOSED",
                      NEW p, p = events'[i].period
               PROVE  events'[i].plan.ledger.within = Turnover(JournalsIn(p)')
    BY DEF ReadResultStands
  <2>2. JournalsIn(p)' = JournalsIn(p)
    BY <1>3 DEF Recorded, JournalsIn
  <2>3. CASE i = n + 1
    BY <1>3, <2>1, <2>2, <2>3 DEF Recorded
  <2>4. CASE i \in 1 .. n
    <3>1. IsLatest(i)
      BY <2>1, <2>4 DEF IsLatest, EventsOf
    <3> QED BY <2>1, <2>2, <2>4, <3>1 DEF ReadResultStands
  <2> QED BY <2>1, <2>3, <2>4
<1> QED BY <1>1, <1>2, <1>3, StepCases DEF Quiet

-----------------------------------------------------------------------------
(* Retries                                                                 *)

\* Every effect has its idempotency record: the two commit together.
EffectsDelivered ==
  /\ \A j \in journals : Delivered(j.request)
  /\ \A i \in DOMAIN events : Delivered(events[i].request)

LEMMA FinishFacts ==
  ASSUME NEW r, NEW command, NEW result, Finish(r, command, result)
  PROVE  ~Delivered(r) /\ Delivered(r)' /\ \A q : Delivered(q) => Delivered(q)'
<1> DEFINE x == Answer(r, command, result)
<1>1. ~Delivered(r) /\ idem' = idem \cup {x}
  BY DEF Finish
<1>2. x.request = r
  BY DEF Answer
<1>3. Delivered(r)'
  BY <1>1, <1>2 DEF Delivered
<1>4. \A q : Delivered(q) => Delivered(q)'
  BY <1>1 DEF Delivered
<1> QED BY <1>1, <1>3, <1>4

LEMMA OneEffectStep ==
  ASSUME TypeOK, OneEffectPerRequest, EffectsDelivered, [Next]_vars
  PROVE  OneEffectPerRequest' /\ EffectsDelivered'
<1>1. ASSUME UNCHANGED <<journals, events>>, \A q : Delivered(q) => Delivered(q)'
      PROVE  OneEffectPerRequest' /\ EffectsDelivered'
  BY <1>1 DEF OneEffectPerRequest, EffectsDelivered
<1>2. ASSUME UNCHANGED <<journals, events, idem>>
      PROVE  OneEffectPerRequest' /\ EffectsDelivered'
  BY <1>1, <1>2 DEF Delivered
<1>3. ASSUME NEW r \in Requests, NEW d \in Dates, NEW a \in Amounts, NEW id \in JournalIds,
             PostJournal(r, d, a, id)
      PROVE  OneEffectPerRequest' /\ EffectsDelivered'
  <2> DEFINE row == [id |-> id, date |-> d, amount |-> a, request |-> r]
  <2>1. ~Delivered(r) /\ Delivered(r)' /\ \A q : Delivered(q) => Delivered(q)'
    BY <1>3, FinishFacts DEF PostJournal
  <2>2. journals' = journals \cup {row} /\ UNCHANGED events /\ row.request = r
    BY <1>3 DEF PostJournal, InsertJournal
  <2> QED BY <2>1, <2>2 DEF OneEffectPerRequest, EffectsDelivered
<1>4. ASSUME NEW type \in {"CLOSED", "REOPENED"}, NEW plan \in plans, NEW override,
             NEW r \in Requests, NEW id \in EventIds, NEW step \in ClockSteps,
             RecordEvent(type, plan, override, r, id, step)
      PROVE  OneEffectPerRequest' /\ EffectsDelivered'
  <2> DEFINE e == [id |-> id, period |-> plan.period, type |-> type,
                   at |-> clock', plan |-> plan, request |-> r]
             n == Len(events)
  <2>1. ~Delivered(r) /\ Delivered(r)' /\ \A q : Delivered(q) => Delivered(q)'
    BY <1>4, FinishFacts DEF RecordEvent
  <2>2. events \in Seq({events[i] : i \in DOMAIN events}) /\ events' = Append(events, e)
    BY <1>4 DEF RecordEvent, TypeOK
  <2>3. /\ n \in Nat /\ DOMAIN events = 1 .. n /\ DOMAIN events' = 1 .. (n + 1)
        /\ \A i \in 1 .. n : events'[i] = events[i]
        /\ events'[n + 1] = e
    BY <2>2, AppendFacts
  <2>4. journals' = journals /\ e.request = r
    BY <1>4 DEF RecordEvent, ledgerVars
  <2>5. \A i \in DOMAIN events' : events'[i].request = r => i = n + 1
    BY <2>1, <2>3 DEF EffectsDelivered
  <2>6. \A i \in DOMAIN events' : i = n + 1 \/ (i \in DOMAIN events /\ events'[i] = events[i])
    BY <2>3
  <2>7. EffectsDelivered'
    BY <2>1, <2>3, <2>4, <2>6 DEF EffectsDelivered
  <2>8. \A i, k \in DOMAIN events' : events'[i].request = events'[k].request => i = k
    BY <2>3, <2>4, <2>5, <2>6 DEF OneEffectPerRequest
  <2>9. \A j \in journals, i \in DOMAIN events' : j.request # events'[i].request
    BY <2>1, <2>3, <2>4, <2>6 DEF OneEffectPerRequest, EffectsDelivered
  <2> QED BY <2>4, <2>7, <2>8, <2>9 DEF OneEffectPerRequest
<1>5. ASSUME NEW r \in Requests, ArchiveBookSet(r)
      PROVE  OneEffectPerRequest' /\ EffectsDelivered'
  BY <1>1, <1>5, FinishFacts DEF ArchiveBookSet, ledgerVars
<1>6. CASE UNCHANGED vars
  BY <1>2, <1>6 DEF vars, ledgerVars, requestVars
<1>7. ASSUME NEW f \in Items, MoveItem(f)
      PROVE  OneEffectPerRequest' /\ EffectsDelivered'
  BY <1>2, <1>7 DEF MoveItem, ledgerVars, requestVars
<1>8. ASSUME NEW p \in Periods, NEW op \in {"CLOSE", "REOPEN"}, Preview(op, p)
      PROVE  OneEffectPerRequest' /\ EffectsDelivered'
  BY <1>2, <1>8 DEF Preview, ledgerVars, requestVars
<1>9. ASSUME NEW r \in Requests, NEW plan \in plans, NEW override \in BOOLEAN,
             NEW id \in EventIds, NEW step \in ClockSteps,
             ClosePeriod(r, plan, override, id, step)
      PROVE  OneEffectPerRequest' /\ EffectsDelivered'
  BY <1>4, <1>9 DEF ClosePeriod
<1>10. ASSUME NEW r \in Requests, NEW plan \in plans, NEW id \in EventIds,
              NEW step \in ClockSteps, ReopenPeriod(r, plan, id, step)
       PROVE  OneEffectPerRequest' /\ EffectsDelivered'
  BY <1>4, <1>10 DEF ReopenPeriod
<1>11. ASSUME NEW r \in Requests, NEW c \in SentCommands, Replay(r, c)
       PROVE  OneEffectPerRequest' /\ EffectsDelivered'
  BY <1>2, <1>11 DEF Replay, ledgerVars
<1> QED
  BY <1>3, <1>5, <1>6, <1>7, <1>8, <1>9, <1>10, <1>11 DEF Next, LedgerCommand

\* However often and with whatever command a request id is sent, it has at most
\* one effect, whatever the clock does.
THEOREM RequestsActOnce == Spec => []OneEffectPerRequest
<1>1. Init => OneEffectPerRequest /\ EffectsDelivered
  BY DEF Init, OneEffectPerRequest, EffectsDelivered
<1>2. TypeOK /\ OneEffectPerRequest /\ EffectsDelivered /\ [Next]_vars
        => OneEffectPerRequest' /\ EffectsDelivered'
  BY OneEffectStep
<1> QED BY <1>1, <1>2, TypeCorrect, PTL DEF Spec

-----------------------------------------------------------------------------
(* Answers                                                                 *)

\* What a record or an answer says has happened.
Told(x) ==
  \/ \E j \in journals : x = Answer(j.request, PostCommand(j.date, j.amount), j.id)
  \/ \E i \in DOMAIN events, o \in BOOLEAN :
        x = Answer(events[i].request, PeriodCommand(events[i].plan, o), events[i].id)
  \/ lifecycle = "ARCHIVED" /\ x.result = "ARCHIVED" /\ x.command = [op |-> "bookset.archive"]

\* Records are told before answers are: a replay reads its answer from a record.
RecordsTell == \A x \in idem \cup answers : Told(x)

\* Nothing that happened is taken back.
Kept ==
  /\ journals \subseteq journals'
  /\ \A i \in DOMAIN events : i \in DOMAIN events' /\ events'[i] = events[i]
  /\ lifecycle = "ARCHIVED" => lifecycle' = "ARCHIVED"

LEMMA ToldStays ==
  ASSUME Kept, NEW x, Told(x)
  PROVE  Told(x)'
<1>1. CASE \E j \in journals : x = Answer(j.request, PostCommand(j.date, j.amount), j.id)
  BY <1>1 DEF Told, Kept
<1>2. CASE \E i \in DOMAIN events, o \in BOOLEAN :
             x = Answer(events[i].request, PeriodCommand(events[i].plan, o), events[i].id)
  <2>1. PICK i \in DOMAIN events, o \in BOOLEAN :
          x = Answer(events[i].request, PeriodCommand(events[i].plan, o), events[i].id)
    BY <1>2
  <2>2. i \in DOMAIN events' /\ events'[i] = events[i]
    BY DEF Kept
  <2> QED BY <2>1, <2>2 DEF Told
<1>3. CASE lifecycle = "ARCHIVED" /\ x.result = "ARCHIVED" /\ x.command = [op |-> "bookset.archive"]
  BY <1>3 DEF Told, Kept
<1> QED BY <1>1, <1>2, <1>3 DEF Told

\* A command that finishes keeps everything told when its own record is.
LEMMA FinishTells ==
  ASSUME RecordsTell, Kept, NEW r, NEW command, NEW result, Finish(r, command, result),
         Told(Answer(r, command, result))'
  PROVE  RecordsTell'
<1>1. idem' = idem \cup {Answer(r, command, result)} /\ answers' = answers
  BY DEF Finish
<1>2. \A x \in idem \cup answers : Told(x)'
  BY ToldStays DEF RecordsTell
<1> QED BY <1>1, <1>2 DEF RecordsTell

LEMMA RecordTells ==
  ASSUME TypeOK, RecordsTell, NEW type, NEW plan, NEW override \in BOOLEAN, NEW r, NEW id, NEW step,
         RecordEvent(type, plan, override, r, id, step)
  PROVE  RecordsTell'
<1> DEFINE e == [id |-> id, period |-> plan.period, type |-> type,
                 at |-> clock', plan |-> plan, request |-> r]
           n == Len(events)
<1>1. /\ events \in Seq({events[i] : i \in DOMAIN events}) /\ events' = Append(events, e)
      /\ UNCHANGED <<lifecycle, journals>>
      /\ Finish(r, PeriodCommand(plan, override), id)
  BY DEF RecordEvent, TypeOK, ledgerVars
<1>2. /\ n \in Nat /\ DOMAIN events = 1 .. n /\ DOMAIN events' = 1 .. (n + 1)
      /\ \A i \in 1 .. n : events'[i] = events[i]
      /\ events'[n + 1] = e
  BY <1>1, AppendFacts
<1>3. Kept
  BY <1>1, <1>2 DEF Kept
<1>4. n + 1 \in DOMAIN events' /\ events'[n + 1].request = r /\ events'[n + 1].plan = plan
      /\ events'[n + 1].id = id
  BY <1>2
<1>5. Told(Answer(r, PeriodCommand(plan, override), id))'
  BY <1>4 DEF Told
<1> QED BY <1>1, <1>3, <1>5, FinishTells

LEMMA AnswersStep ==
  ASSUME TypeOK, RecordsTell, [Next]_vars
  PROVE  RecordsTell'
<1>1. ASSUME UNCHANGED <<lifecycle, journals, events, idem, answers>>
      PROVE  RecordsTell'
  BY <1>1 DEF RecordsTell, Told
<1>2. CASE UNCHANGED vars
  BY <1>1, <1>2 DEF vars
<1>3. ASSUME NEW f \in Items, MoveItem(f)
      PROVE  RecordsTell'
  BY <1>1, <1>3 DEF MoveItem, ledgerVars, requestVars
<1>4. ASSUME NEW p \in Periods, NEW op \in {"CLOSE", "REOPEN"}, Preview(op, p)
      PROVE  RecordsTell'
  BY <1>1, <1>4 DEF Preview, ledgerVars, requestVars
<1>5. ASSUME NEW r \in Requests, NEW d \in Dates, NEW a \in Amounts, NEW id \in JournalIds,
             PostJournal(r, d, a, id)
      PROVE  RecordsTell'
  <2> DEFINE row == [id |-> id, date |-> d, amount |-> a, request |-> r]
  <2>1. /\ journals' = journals \cup {row} /\ UNCHANGED <<events, lifecycle>>
        /\ Finish(r, PostCommand(d, a), id)
    BY <1>5 DEF PostJournal, InsertJournal
  <2>2. Kept
    BY <2>1 DEF Kept
  <2>3. row \in journals' /\ row.request = r /\ row.date = d /\ row.amount = a /\ row.id = id
    BY <2>1
  <2>4. Told(Answer(r, PostCommand(d, a), id))'
    BY <2>3 DEF Told
  <2> QED BY <2>1, <2>2, <2>4, FinishTells
<1>6. ASSUME NEW r \in Requests, NEW plan \in plans, NEW override \in BOOLEAN,
             NEW id \in EventIds, NEW step \in ClockSteps,
             ClosePeriod(r, plan, override, id, step)
      PROVE  RecordsTell'
  BY <1>6, RecordTells DEF ClosePeriod
<1>7. ASSUME NEW r \in Requests, NEW plan \in plans, NEW id \in EventIds,
             NEW step \in ClockSteps, ReopenPeriod(r, plan, id, step)
      PROVE  RecordsTell'
  BY <1>7, RecordTells DEF ReopenPeriod
<1>8. ASSUME NEW r \in Requests, ArchiveBookSet(r)
      PROVE  RecordsTell'
  <2>1. /\ lifecycle' = "ARCHIVED" /\ UNCHANGED <<journals, events>>
        /\ Finish(r, [op |-> "bookset.archive"], "ARCHIVED")
    BY <1>8 DEF ArchiveBookSet, ledgerVars
  <2>2. Kept
    BY <2>1 DEF Kept
  <2>3. Told(Answer(r, [op |-> "bookset.archive"], "ARCHIVED"))'
    BY <2>1 DEF Told, Answer
  <2> QED BY <2>1, <2>2, <2>3, FinishTells
<1>9. ASSUME NEW r \in Requests, NEW c \in SentCommands, Replay(r, c)
      PROVE  RecordsTell'
  <2>1. PICK x \in idem : x.request = r /\ x.command = c /\ answers' = answers \cup {Answer(r, c, x.result)}
    BY <1>9 DEF Replay
  <2>2. UNCHANGED <<lifecycle, journals, events, idem>>
    BY <1>9 DEF Replay, ledgerVars
  <2>3. Told(Answer(r, c, x.result))
    <3>1. CASE \E j \in journals : x = Answer(j.request, PostCommand(j.date, j.amount), j.id)
      BY <2>1, <3>1 DEF Told, Answer
    <3>2. CASE \E i \in DOMAIN events, o \in BOOLEAN :
                 x = Answer(events[i].request, PeriodCommand(events[i].plan, o), events[i].id)
      BY <2>1, <3>2 DEF Told, Answer
    <3>3. CASE lifecycle = "ARCHIVED" /\ x.result = "ARCHIVED" /\ x.command = [op |-> "bookset.archive"]
      BY <2>1, <3>3 DEF Told, Answer
    <3> QED BY <3>1, <3>2, <3>3 DEF RecordsTell, Told
  <2>4. \A y \in idem \cup answers' : Told(y)
    BY <2>1, <2>3 DEF RecordsTell
  <2>5. \A y : Told(y) <=> Told(y)'
    BY <2>2 DEF Told
  <2> QED BY <2>2, <2>4, <2>5 DEF RecordsTell
<1> QED
  BY <1>2, <1>3, <1>4, <1>5, <1>6, <1>7, <1>8, <1>9 DEF Next, LedgerCommand

\* Whatever a retry was answered is the effect of the very command it sent, on
\* any clock: replay compares the hash of the command before it hands
\* out the stored result, and effect and record were committed together.
THEOREM AnswersAreTrue == Spec => []AnswersTellTheEffect
<1>1. Init => RecordsTell
  BY DEF Init, RecordsTell
<1>2. TypeOK /\ RecordsTell /\ [Next]_vars => RecordsTell'
  BY AnswersStep
<1>3. RecordsTell => AnswersTellTheEffect
  BY DEF RecordsTell, Told, AnswersTellTheEffect
<1> QED BY <1>1, <1>2, <1>3, TypeCorrect, PTL DEF Spec
=============================================================================
