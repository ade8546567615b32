----------------------- MODULE BankReconciliationProofs -----------------------
(***************************************************************************)
(* What BankReconciliation guarantees for every set of statements, dates,  *)
(* journals and requests.  The dated ledger is untouched by the commands   *)
(* of this module, so what PeriodLedgerProofs shows of events and journals *)
(* holds here too; the rest follows from the triggers on bank_matches and  *)
(* bank_statements.                                                        *)
(***************************************************************************)
EXTENDS BankReconciliation, PeriodLedgerProofs

AllLines == UNION {s.lines : s \in Statements}
Vouchers == [id : JournalIds, date : Dates, amount : Amounts, request : Requests]
MatchRows == [id : MatchIds, line : AllLines, journal : Vouchers, status : {"ACTIVE", "UNDONE"}]

\* The rows, the ids, and what makes the pairs one to one.
MatchesOK ==
  /\ matches \subseteq MatchRows
  /\ \A m \in matches : m.line \in ImportedLines /\ m.journal \in journals
  /\ \A m, n \in matches : m.id = n.id => m = n
  /\ \A m, n \in Active : m.line = n.line => m = n

\* The inductive invariant of the bank's own tables.
BankInv ==
  /\ TypeOK
  /\ statements \subseteq Statements
  /\ MatchesOK
  /\ unresolved \cap LineItems = Unmatched

-----------------------------------------------------------------------------
(* The kinds of steps                                                      *)

\* A command of the dated ledger leaves the bank's tables alone.
LedgerStep == LedgerCommand /\ UNCHANGED bankVars

\* A statement comes in.
Imported(s) ==
  /\ ~RangeTriggerAborts(s)
  /\ statements' = statements \cup {s}
  /\ UNCHANGED matches

\* A line gets a match, or a match is undone.
Matched(m) ==
  /\ m \in MatchRows /\ m.status = "ACTIVE"
  /\ m.line \in ImportedLines /\ m.journal \in journals
  /\ m.line.amount = m.journal.amount
  /\ \A n \in matches : n.id # m.id
  /\ \A n \in Active : n.line # m.line /\ n.journal # m.journal
  /\ ~TriggerAborts(m.line.date)
  /\ matches' = matches \cup {m}
  /\ UNCHANGED statements

Undone(m) ==
  /\ m \in Active
  /\ ~TriggerAborts(m.line.date)
  /\ matches' = (matches \ {m}) \cup {[m EXCEPT !.status = "UNDONE"]}
  /\ UNCHANGED statements

\* What a bank command does to everything else.
Settled ==
  /\ UNCHANGED <<lifecycle, ledgerVars, events, clock, plans, answers>>
  /\ \A x \in idem' : x.request \in Requests
  /\ unresolved' = (unresolved \ LineItems) \cup Unmatched'

LEMMA LinesAreLines ==
  ASSUME statements \subseteq Statements
  PROVE  ImportedLines \subseteq AllLines
BY DEF ImportedLines, AllLines

LEMMA SettleFacts ==
  ASSUME TypeOK, NEW r \in Requests, NEW command, NEW result, Settle(r, command, result)
  PROVE  Settled
BY DEF Settle, Settled, Finish, Answer, TypeOK

\* Every step is one of the ledger, changes nothing of the bank but the record
\* of a request, imports a statement, makes a match or undoes one.
LEMMA BankStepCases ==
  ASSUME BankInv, [BankNext]_bankingVars
  PROVE  \/ LedgerStep
         \/ UNCHANGED bankingVars
         \/ Settled /\ UNCHANGED bankVars
         \/ Settled /\ \E s \in Statements : Imported(s)
         \/ Settled /\ \E m : Matched(m)
         \/ Settled /\ \E m \in matches : Undone(m)
<1>1. ASSUME NEW r \in Requests, NEW s \in Statements, ImportStatement(r, s)
      PROVE  Settled /\ (UNCHANGED bankVars \/ Imported(s))
  <2>1. Settled
    BY <1>1, SettleFacts DEF ImportStatement, BankInv
  <2> QED BY <1>1, <2>1 DEF ImportStatement, Imported, bankVars
<1>2. ASSUME NEW r \in Requests, NEW l \in ImportedLines, NEW j \in journals,
             NEW id \in MatchIds, ConfirmMatch(r, l, j, id)
      PROVE  Settled /\ \E m : Matched(m)
  <2> DEFINE m == [id |-> id, line |-> l, journal |-> j, status |-> "ACTIVE"]
  <2>1. Settled
    BY <1>2, SettleFacts DEF ConfirmMatch, BankInv
  <2>2. l \in AllLines /\ j \in Vouchers
    BY LinesAreLines DEF BankInv, TypeOK, Vouchers
  <2>3. m \in MatchRows
    BY <2>2 DEF MatchRows
  <2>4. \A n \in Active : n.line # l /\ n.journal # j
    BY <1>2 DEF ConfirmMatch, MatchedLines
  <2>5. /\ l.amount = j.amount /\ ~TriggerAborts(l.date)
        /\ \A n \in matches : n.id # id
        /\ matches' = matches \cup {m}
        /\ UNCHANGED statements
    BY <1>2 DEF ConfirmMatch
  <2>6. Matched(m)
    BY <2>3, <2>4, <2>5 DEF Matched
  <2> QED BY <2>1, <2>6
<1>3. ASSUME NEW r \in Requests, NEW m \in matches, NEW command, Undo(r, command, m)
      PROVE  Settled /\ Undone(m)
  <2>1. Settled
    BY <1>3, SettleFacts DEF Undo, BankInv
  <2> QED BY <1>3, <2>1 DEF Undo, Undone, Active
<1>4. ASSUME NEW r \in Requests, NEW m \in matches, UndoMatch(r, m)
      PROVE  Settled /\ Undone(m)
  BY <1>3, <1>4 DEF UndoMatch
<1>5. ASSUME NEW r \in Requests, NEW l \in ImportedLines, UndoLine(r, l)
      PROVE  Settled /\ \E m \in matches : Undone(m)
  <2>1. PICK m \in FirstOfLine(l) : Undo(r, [op |-> "bankMatch.undo", line |-> l.id], m)
    BY <1>5 DEF UndoLine
  <2>2. m \in matches
    BY DEF FirstOfLine, OfLine
  <2> QED BY <1>3, <2>1, <2>2
<1>6. CASE BankNext
  BY <1>1, <1>2, <1>4, <1>5, <1>6 DEF BankNext, LedgerStep
<1> QED BY <1>6

LEMMA LedgerStepFacts ==
  ASSUME TypeOK, LedgerCommand
  PROVE  TypeOK' /\ UNCHANGED unresolved /\ journals \subseteq journals'
<1>1. [Next]_vars
  BY DEF Next
<1>2. journals \subseteq journals'
  BY <1>1, StepCases DEF Quiet, Posted, Recorded
<1>3. ASSUME NEW r, NEW plan, NEW override, NEW id, NEW step,
             ClosePeriod(r, plan, override, id, step) \/ ReopenPeriod(r, plan, id, step)
      PROVE  UNCHANGED unresolved
  BY <1>3 DEF ClosePeriod, ReopenPeriod, RecordEvent
<1>4. UNCHANGED unresolved
  BY <1>3 DEF LedgerCommand, PostJournal, Preview, ArchiveBookSet, Replay
<1> QED BY <1>1, <1>2, <1>4, TypeStep

-----------------------------------------------------------------------------
(* The bank's own tables                                                   *)

LEMMA Unmatching ==
  ASSUME matches \subseteq MatchRows, NEW m \in matches
  PROVE  LET u == [m EXCEPT !.status = "UNDONE"]
         IN  /\ u \in MatchRows /\ u.status = "UNDONE"
             /\ u.id = m.id /\ u.line = m.line /\ u.journal = m.journal
BY DEF MatchRows

\* The rows that are ACTIVE after a match is made, and after one is undone.
LEMMA ActiveAfter ==
  ASSUME matches \subseteq MatchRows
  PROVE  /\ \A m : Matched(m) => Active' = Active \cup {m}
         /\ \A m \in matches : Undone(m) => Active' = Active \ {m}
<1>1. ASSUME NEW m, Matched(m) PROVE Active' = Active \cup {m}
  BY <1>1 DEF Matched, Active
<1>2. ASSUME NEW m \in matches, Undone(m) PROVE Active' = Active \ {m}
  BY <1>2, Unmatching DEF Undone, Active
<1> QED BY <1>1, <1>2

LEMMA MatchesStep ==
  ASSUME BankInv, [BankNext]_bankingVars
  PROVE  MatchesOK'
<1> USE DEF BankInv
<1>1. ASSUME UNCHANGED bankVars, journals \subseteq journals' PROVE MatchesOK'
  BY <1>1 DEF MatchesOK, bankVars, Active, ImportedLines
<1>2. CASE LedgerStep
  BY <1>1, <1>2, LedgerStepFacts DEF LedgerStep
<1>3. CASE UNCHANGED bankingVars
  BY <1>1, <1>3 DEF bankingVars, vars
<1>4. CASE Settled /\ UNCHANGED bankVars
  BY <1>1, <1>4 DEF Settled, ledgerVars
<1>5. ASSUME NEW s \in Statements, Settled, Imported(s) PROVE MatchesOK'
  BY <1>5 DEF Settled, ledgerVars, Imported, MatchesOK, Active, ImportedLines
<1>6. ASSUME NEW m, Settled, Matched(m) PROVE MatchesOK'
  <2>1. /\ matches' = matches \cup {m} /\ Active' = Active \cup {m}
        /\ ImportedLines' = ImportedLines /\ journals' = journals
    BY <1>6, ActiveAfter DEF Settled, ledgerVars, Matched, MatchesOK, ImportedLines
  <2>2. /\ m \in MatchRows /\ m.line \in ImportedLines /\ m.journal \in journals
        /\ \A n \in matches : n.id # m.id
        /\ \A n \in Active : n.line # m.line
    BY <1>6 DEF Matched
  <2> QED BY <2>1, <2>2 DEF MatchesOK
<1>7. ASSUME NEW m \in matches, Settled, Undone(m) PROVE MatchesOK'
  <2> DEFINE u == [m EXCEPT !.status = "UNDONE"]
  <2>1. /\ matches' = (matches \ {m}) \cup {u} /\ Active' = Active \ {m}
        /\ ImportedLines' = ImportedLines /\ journals' = journals
    BY <1>7, ActiveAfter DEF Settled, ledgerVars, Undone, MatchesOK, ImportedLines
  <2>2. u \in MatchRows /\ u.id = m.id /\ u.line = m.line /\ u.journal = m.journal
    BY Unmatching DEF MatchesOK
  <2> HIDE DEF u
  <2>3. matches' \subseteq MatchRows
    BY <2>1, <2>2 DEF MatchesOK
  <2>4. \A n \in matches' : (n.line \in ImportedLines /\ n.journal \in journals)'
    BY <2>1, <2>2 DEF MatchesOK
  <2>5. \A n, o \in matches' : n.id = o.id => n = o
    BY <2>1, <2>2 DEF MatchesOK
  <2>6. \A n, o \in Active' : n.line = o.line => n = o
    BY <2>1 DEF MatchesOK
  <2> QED BY <2>3, <2>4, <2>5, <2>6 DEF MatchesOK
<1> QED BY <1>2, <1>3, <1>4, <1>5, <1>6, <1>7, BankStepCases

\* The checklist of the ledger shows only what it can show.
LEMMA SettledTypes ==
  ASSUME TypeOK, Settled, (statements \subseteq Statements)'
  PROVE  TypeOK'
<1>1. Unmatched' \subseteq Items
  BY StatementsAssumption DEF Unmatched
<1>2. unresolved' \subseteq Items
  BY <1>1 DEF Settled, TypeOK
<1> QED BY <1>2 DEF Settled, TypeOK, ledgerVars

LEMMA BankStep ==
  ASSUME BankInv, [BankNext]_bankingVars
  PROVE  BankInv'
<1>1. MatchesOK'
  BY MatchesStep
<1>2. (statements \subseteq Statements)'
  BY BankStepCases DEF BankInv, LedgerStep, Imported, Matched, Undone, bankVars, bankingVars
<1>3. TypeOK' /\ (unresolved \cap LineItems = Unmatched)'
  <2>1. CASE Settled
    <3>1. TypeOK'
      BY <2>1, <1>2, SettledTypes DEF BankInv
    <3>2. Unmatched' \subseteq LineItems
      BY <1>2 DEF Unmatched, LineItems
    <3>3. LineItems' = LineItems
      BY DEF LineItems
    <3> QED BY <2>1, <3>1, <3>2, <3>3 DEF Settled
  <2>2. CASE LedgerStep
    <3>1. TypeOK' /\ UNCHANGED <<unresolved, statements, matches>>
      BY <2>2, LedgerStepFacts DEF BankInv, LedgerStep, bankVars
    <3>2. UNCHANGED <<Unmatched, LineItems>>
      BY <3>1 DEF Unmatched, MatchedLines, Active, LineItems
    <3> QED BY <3>1, <3>2 DEF BankInv
  <2>3. CASE UNCHANGED bankingVars
    <3>1. UNCHANGED vars /\ UNCHANGED bankVars
      BY <2>3 DEF bankingVars
    <3>2. TypeOK'
      BY <3>1, TypeStep DEF BankInv
    <3>3. UNCHANGED <<unresolved, Unmatched, LineItems>>
      BY <3>1 DEF vars, Unmatched, MatchedLines, Active, bankVars, LineItems
    <3> QED BY <3>2, <3>3 DEF BankInv
  <2> QED BY <2>1, <2>2, <2>3, BankStepCases
<1> QED BY <1>1, <1>2, <1>3 DEF BankInv

LEMMA BankInvariant == BankSpec => []BankInv
<1>1. BankInit => BankInv
  <2> SUFFICES ASSUME BankInit PROVE BankInv
    OBVIOUS
  <2>1. events \in Seq({events[i] : i \in DOMAIN events}) /\ DOMAIN events = {}
    BY DEF BankInit, Init
  <2>2. TypeOK
    BY <2>1 DEF BankInit, Init, TypeOK
  <2> QED BY <2>2 DEF BankInit, Init, BankInv, MatchesOK, Active, Unmatched
<1> QED BY <1>1, BankStep, PTL DEF BankSpec

\* Every reachable state is well formed, and the close checklist sees the lines
\* as they are: in the transaction that changes a match or brings a statement
\* in, for all constants.
THEOREM BankTypeCorrect == BankSpec => []BankTypeOK
<1>1. BankInv => BankTypeOK
  BY DEF BankInv, BankTypeOK, MatchesOK, MatchRows
<1> QED BY <1>1, BankInvariant, PTL

-----------------------------------------------------------------------------
(* The pairing                                                             *)

Pairs == {[line |-> m.line, voucher |-> m.journal] : m \in Active}

LEMMA PairingStep ==
  ASSUME BankInv, [BankNext]_bankingVars
  PROVE  \/ UNCHANGED Pairs
         \/ \E line \in AllLines, voucher \in Vouchers :
              /\ line.amount = voucher.amount
              /\ \A x \in Pairs : x.line # line /\ x.voucher # voucher
              /\ Pairs' = Pairs \cup {[line |-> line, voucher |-> voucher]}
         \/ \E x \in Pairs : Pairs' = Pairs \ {x}
<1>1. ASSUME UNCHANGED matches PROVE UNCHANGED Pairs
  BY <1>1 DEF Pairs, Active
<1>2. ASSUME NEW m, Matched(m)
      PROVE  \E line \in AllLines, voucher \in Vouchers :
               /\ line.amount = voucher.amount
               /\ \A x \in Pairs : x.line # line /\ x.voucher # voucher
               /\ Pairs' = Pairs \cup {[line |-> line, voucher |-> voucher]}
  <2>1. m.line \in AllLines /\ m.journal \in Vouchers /\ m.line.amount = m.journal.amount
    BY <1>2 DEF Matched, MatchRows
  <2>2. \A x \in Pairs : x.line # m.line /\ x.voucher # m.journal
    BY <1>2 DEF Matched, Pairs
  <2>3. Active' = Active \cup {m}
    BY <1>2, ActiveAfter DEF BankInv, MatchesOK
  <2>4. Pairs' = Pairs \cup {[line |-> m.line, voucher |-> m.journal]}
    BY <2>3 DEF Pairs
  <2> QED BY <2>1, <2>2, <2>4
<1>3. ASSUME NEW m \in matches, Undone(m)
      PROVE  \E x \in Pairs : Pairs' = Pairs \ {x}
  <2> DEFINE x == [line |-> m.line, voucher |-> m.journal]
  <2>1. m \in Active /\ Active' = Active \ {m}
    BY <1>3, ActiveAfter DEF BankInv, MatchesOK, Undone
  <2>2. \A n \in Active : n.line = m.line => n = m
    BY <2>1 DEF BankInv, MatchesOK
  <2>3. x \in Pairs
    BY <2>1 DEF Pairs
  <2>4. Pairs' = Pairs \ {x}
    BY <2>1, <2>2 DEF Pairs
  <2> QED BY <2>3, <2>4
<1> QED BY <1>1, <1>2, <1>3, BankStepCases DEF LedgerStep, Imported, bankVars, bankingVars

\* Bank reconciliation implements the one-to-one pairing, for all statements,
\* journals and requests: the mapping reads the pairs off the ACTIVE rows.
THEOREM ReconciliationPairs == BankSpec => PairsOneToOne
<1>1. BankInit => Paired!Init
  BY DEF BankInit, Paired!Init, Active
<1>2. BankInv /\ [BankNext]_bankingVars =>
        [Paired!Next]_({[line |-> m.line, voucher |-> m.journal] : m \in Active})
  <2> SUFFICES ASSUME BankInv, [BankNext]_bankingVars
               PROVE  [Paired!Next]_({[line |-> m.line, voucher |-> m.journal] : m \in Active})
    OBVIOUS
  <2>1. CASE UNCHANGED Pairs
    BY <2>1 DEF Pairs
  <2>2. ASSUME NEW line \in AllLines, NEW voucher \in Vouchers,
               line.amount = voucher.amount,
               \A x \in Pairs : x.line # line /\ x.voucher # voucher,
               Pairs' = Pairs \cup {[line |-> line, voucher |-> voucher]}
        PROVE  Paired!Next
    BY <2>2 DEF Paired!Next, Paired!Pair, Paired!Free, Pairs, AllLines, Vouchers
  <2>3. ASSUME NEW x \in Pairs, Pairs' = Pairs \ {x}
        PROVE  Paired!Next
    BY <2>3 DEF Paired!Next, Paired!Unpair, Pairs
  <2> QED BY <2>1, <2>2, <2>3, PairingStep
<1> QED BY <1>1, <1>2, BankInvariant, PTL DEF BankSpec, PairsOneToOne, Paired!Spec

-----------------------------------------------------------------------------
(* Closed periods, under a clock that never steps back                     *)

LEMMA BankTimesInvariant ==
  ASSUME ClockSteps \subseteq Nat
  PROVE  BankSpec => [](BankInv /\ TimesFollowCommits)
<1>1. BankInit => TimesFollowCommits
  BY DEF BankInit, Init, TimesFollowCommits
<1>2. ASSUME BankInv, TimesFollowCommits, [BankNext]_bankingVars PROVE TimesFollowCommits'
  <2>1. CASE Settled
    BY <1>2, <2>1 DEF Settled, TimesFollowCommits
  <2>2. CASE LedgerStep \/ UNCHANGED bankingVars
    <3>1. [Next]_vars
      BY <2>2 DEF LedgerStep, Next, bankingVars
    <3> QED BY <1>2, <3>1, TimesStep DEF BankInv
  <2> QED BY <1>2, <2>1, <2>2, BankStepCases
<1> QED BY <1>1, <1>2, BankInvariant, PTL DEF BankSpec

\* A range that meets a period whose last committed event closed it is refused
\* by the trigger on statements.
LEMMA RangeTriggerGuards ==
  ASSUME TypeOK, TimesFollowCommits, NEW p, CommittedClosed(p), NEW r, Overlaps(p, r)
  PROVE  RangeTriggerAborts(r)
<1>1. PICK i \in EventsOf(p) : IsLastCommitted(i) /\ events[i].type = "CLOSED"
  BY DEF CommittedClosed
<1>2. i \in DOMAIN events /\ events[i].period = p
  BY <1>1 DEF EventsOf
<1>3. ASSUME NEW j \in EventsOf(p)
      PROVE  ~(events[j].at > events[i].at)
  <2>1. j \in DOMAIN events /\ j <= i
    BY <1>1, <1>2, <1>3 DEF EventsOf, IsLastCommitted
  <2>2. events[j].at <= events[i].at /\ events[j].at \in Int /\ events[i].at \in Int
    BY <1>2, <2>1 DEF TimesFollowCommits, TypeOK
  <2> QED BY <2>2
<1> QED BY <1>1, <1>2, <1>3 DEF RangeTriggerAborts

MatchesWithin(p) == {m \in Active : Contains(p, m.line.date)}
LinesWithin(p) == {l \in ImportedLines : Contains(p, l.date)}

LEMMA LineDates ==
  ASSUME NEW s \in Statements, NEW l \in s.lines
  PROVE  /\ s.start \in Int /\ s.end \in Int /\ l.date \in Int
         /\ s.start <= l.date /\ l.date <= s.end
BY StatementsAssumption, DatesAssumption DEF Contains

LEMMA ClosedLinesStep ==
  ASSUME BankInv, TimesFollowCommits, [BankNext]_bankingVars,
         NEW p \in Periods, CommittedClosed(p)
  PROVE  UNCHANGED <<MatchesWithin(p), LinesWithin(p)>>
<1> p.start \in Int /\ p.end \in Int /\ p.start <= p.end
  BY PeriodsAssumption, DatesAssumption
<1>1. CASE UNCHANGED bankVars
  BY <1>1 DEF bankVars, MatchesWithin, LinesWithin, Active, ImportedLines
<1>2. ASSUME NEW s \in Statements, Imported(s)
      PROVE  UNCHANGED <<MatchesWithin(p), LinesWithin(p)>>
  <2>1. ~Overlaps(p, s)
    BY <1>2, RangeTriggerGuards DEF Imported, BankInv
  <2>2. \A l \in s.lines : ~Contains(p, l.date)
    BY <2>1, LineDates DEF Overlaps, Contains
  <2>3. ImportedLines' = ImportedLines \cup s.lines /\ UNCHANGED matches
    BY <1>2 DEF Imported, ImportedLines
  <2> QED BY <2>2, <2>3 DEF MatchesWithin, LinesWithin, Active
<1>3. ASSUME NEW m, Matched(m)
      PROVE  UNCHANGED <<MatchesWithin(p), LinesWithin(p)>>
  <2>1. ~Contains(p, m.line.date)
    BY <1>3, TriggerGuards DEF Matched, BankInv
  <2>2. Active' = Active \cup {m} /\ UNCHANGED statements
    BY <1>3, ActiveAfter DEF Matched, BankInv, MatchesOK
  <2> QED BY <2>1, <2>2 DEF MatchesWithin, LinesWithin, ImportedLines
<1>4. ASSUME NEW m \in matches, Undone(m)
      PROVE  UNCHANGED <<MatchesWithin(p), LinesWithin(p)>>
  <2>1. ~Contains(p, m.line.date)
    BY <1>4, TriggerGuards DEF Undone, BankInv
  <2>2. Active' = Active \ {m} /\ UNCHANGED statements
    BY <1>4, ActiveAfter DEF Undone, BankInv, MatchesOK
  <2> QED BY <2>1, <2>2 DEF MatchesWithin, LinesWithin, ImportedLines
<1> QED BY <1>1, <1>2, <1>3, <1>4, BankStepCases DEF LedgerStep, bankingVars

\* Between the commit of a close and of its reopen no line of the period gains
\* or loses its match and none is imported, as long as the clock never steps
\* back; the guards of the services are not needed for it, the triggers are.
THEOREM ClosedLinesStayFrozen ==
  ASSUME ClockSteps \subseteq Nat
  PROVE  BankSpec => ClosedLinesFrozen
<1>1. BankInv /\ TimesFollowCommits /\ [BankNext]_bankingVars =>
        [\A p \in Periods : CommittedClosed(p) =>
           /\ {m \in Active : Contains(p, m.line.date)}' = {m \in Active : Contains(p, m.line.date)}
           /\ {l \in ImportedLines : Contains(p, l.date)}'
                = {l \in ImportedLines : Contains(p, l.date)}]_bankingVars
  BY ClosedLinesStep DEF MatchesWithin, LinesWithin
<1> QED BY <1>1, BankTimesInvariant, PTL DEF BankSpec, ClosedLinesFrozen

\* A line of a statement that lies in the period has a date in the period.
LEMMA LinesOfStatements ==
  ASSUME NEW p \in Periods, NEW s \in Statements, p.start <= s.start, s.end <= p.end
  PROVE  Overlaps(p, s) /\ Overlaps(s, p) /\ \A l \in s.lines : Contains(p, l.date)
<1>1. p.start \in Int /\ p.end \in Int
  BY PeriodsAssumption, DatesAssumption
<1>2. s.start \in Int /\ s.end \in Int /\ s.start <= s.end
  BY StatementsAssumption, DatesAssumption
<1>3. Overlaps(p, s) /\ Overlaps(s, p)
  BY <1>1, <1>2 DEF Overlaps
<1>4. ASSUME NEW l \in s.lines PROVE Contains(p, l.date)
  BY <1>1, <1>2, <1>4, LineDates DEF Contains
<1> QED BY <1>3, <1>4

\* No line is left over in a closed period whose lines were all matched.
LEMMA StillMatched ==
  ASSUME BankInv, TimesFollowCommits, [BankNext]_bankingVars,
         NEW p \in Periods, CommittedClosed(p),
         \A s \in statements :
           p.start <= s.start /\ s.end <= p.end => s.lines \subseteq MatchedLines,
         NEW s \in statements', p.start <= s.start, s.end <= p.end
  PROVE  s.lines \subseteq MatchedLines'
<1>1. s \in Statements
  BY BankStep DEF BankInv
<1>2. s \in statements
  <2>1. ASSUME NEW t \in Statements, Imported(t) PROVE s \in statements
    <3>1. ~Overlaps(p, t)
      BY <2>1, RangeTriggerGuards DEF Imported, BankInv
    <3>2. s # t
      BY <1>1, <3>1, LinesOfStatements
    <3> QED BY <2>1, <3>2 DEF Imported
  <2> QED BY <2>1, BankStepCases DEF LedgerStep, Matched, Undone, bankVars, bankingVars
<1>3. ASSUME NEW l \in s.lines PROVE l \in MatchedLines'
  <2>1. PICK m \in Active : m.line = l
    BY <1>2 DEF MatchedLines
  <2>2. m \in MatchesWithin(p)
    BY <1>1, <2>1, LinesOfStatements DEF MatchesWithin
  <2>3. m \in Active'
    BY <2>2, ClosedLinesStep DEF MatchesWithin
  <2> QED BY <2>1, <2>3 DEF MatchedLines
<1> QED BY <1>3

LEMMA CleanCloseStep ==
  ASSUME BankInv, TimesFollowCommits, CleanCloseStaysReconciled, [BankNext]_bankingVars
  PROVE  CleanCloseStaysReconciled'
<1> DEFINE n == Len(events)
<1>1. SUFFICES ASSUME NEW i \in DOMAIN events', IsLastCommitted(i)', events'[i].type = "CLOSED",
                      events'[i].plan.checklist = {},
                      NEW s \in statements', NEW p, p = events'[i].period,
                      p.start <= s.start, s.end <= p.end
               PROVE  s.lines \subseteq MatchedLines'
  BY DEF CleanCloseStaysReconciled
<1>2. BankInv' /\ p \in Periods
  BY <1>1, BankStep DEF BankInv, TypeOK
<1>3. ASSUME i \in DOMAIN events, events'[i] = events[i], IsLastCommitted(i)
      PROVE  s.lines \subseteq MatchedLines'
  <2>1. CommittedClosed(p)
    BY <1>1, <1>3 DEF CommittedClosed, EventsOf
  <2>2. \A t \in statements :
          p.start <= t.start /\ t.end <= p.end => t.lines \subseteq MatchedLines
    BY <1>1, <1>3 DEF CleanCloseStaysReconciled
  <2> QED BY <1>1, <1>2, <2>1, <2>2, StillMatched
<1>4. CASE UNCHANGED events
  BY <1>1, <1>3, <1>4 DEF IsLastCommitted, EventsOf
<1>5. ASSUME NEW e, Recorded(e), UNCHANGED bankVars
      PROVE  s.lines \subseteq MatchedLines'
  <2>1. /\ n \in Nat /\ DOMAIN events = 1 .. n /\ DOMAIN events' = 1 .. (n + 1)
        /\ \A k \in 1 .. n : events'[k] = events[k]
        /\ events'[n + 1] = e
    BY <1>5, RecordedRows DEF BankInv
  <2>2. CASE i = n + 1
    <3>1. Checklist(p) = {} /\ Unmatched \subseteq unresolved
      BY <1>1, <1>5, <2>1, <2>2 DEF Recorded, BankInv
    <3>2. s \in statements /\ s \in Statements /\ MatchedLines' = MatchedLines
      BY <1>1, <1>2, <1>5 DEF bankVars, BankInv, MatchedLines, Active
    <3>3. Overlaps(s, p)
      BY <1>1, <1>2, <3>2, LinesOfStatements
    <3>4. ASSUME NEW l \in s.lines \ MatchedLines PROVE FALSE
      <4> DEFINE f == [id |-> l.id, start |-> s.start, end |-> s.end]
      <4>1. f \in unresolved
        BY <3>1, <3>2 DEF Unmatched
      <4>2. Overlaps(f, p)
        BY <3>3 DEF Overlaps
      <4> QED BY <3>1, <4>1, <4>2 DEF Checklist
    <3> QED BY <3>2, <3>4
  <2>3. CASE i \in 1 .. n
    <3>1. IsLastCommitted(i)
      BY <1>1, <2>1, <2>3 DEF IsLastCommitted, EventsOf
    <3> QED BY <1>3, <2>1, <2>3, <3>1
  <2> QED BY <1>1, <2>1, <2>2, <2>3
<1>6. CASE LedgerStep
  <2>1. [Next]_vars
    BY <1>6 DEF LedgerStep, Next
  <2> QED BY <1>4, <1>5, <1>6, <2>1, StepCases DEF BankInv, LedgerStep, Quiet, Posted
<1> QED BY <1>4, <1>6, BankStepCases DEF Settled, bankingVars, vars

\* A period closed with an empty checklist has every statement inside it fully
\* matched for as long as the close stands: the checklist is read again in the
\* session that closes, and after that the triggers keep the lines as they are.
THEOREM CleanClosesStayReconciled ==
  ASSUME ClockSteps \subseteq Nat
  PROVE  BankSpec => []CleanCloseStaysReconciled
<1>1. BankInit => CleanCloseStaysReconciled
  BY DEF BankInit, CleanCloseStaysReconciled
<1>2. BankInv /\ TimesFollowCommits /\ CleanCloseStaysReconciled /\ [BankNext]_bankingVars
        => CleanCloseStaysReconciled'
  BY CleanCloseStep
<1> QED BY <1>1, <1>2, BankTimesInvariant, PTL DEF BankSpec
=============================================================================
