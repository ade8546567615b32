-------------------------- MODULE BankReconciliation --------------------------
(***************************************************************************)
(* Bank reconciliation over the dated ledger: bankStatement.import,        *)
(* bankMatch.confirm and bankMatch.undo for one bank account, whose        *)
(* balance the amounts of the journals move.  Unmatched statement lines    *)
(* are what the close checklist finds unresolved, so the module composes   *)
(* with PeriodLedger in both directions: a closed period stops imports and *)
(* matches, and a match that comes or goes makes a close plan stale.       *)
(***************************************************************************)
EXTENDS PeriodLedger

CONSTANTS
  Statements,  \* importable statements: [ext, start, end, lines]
  MatchIds     \* random ids of bank_matches rows, compared by ORDER BY

\* Lines are [id, date, amount] with their date inside the statement; a line of
\* one external statement is no line of another; the checklist can show any line.
ASSUME StatementsAssumption ==
  /\ \A s \in Statements : /\ s.start \in Dates /\ s.end \in Dates /\ s.start <= s.end
                           /\ \A l \in s.lines : l.date \in Dates /\ Contains(s, l.date)
  /\ \A s, t \in Statements : s.ext # t.ext => s.lines \cap t.lines = {}
  /\ \A s \in Statements : \A l \in s.lines : [id |-> l.id, start |-> s.start, end |-> s.end] \in Items
ASSUME MatchIdsAssumption == MatchIds \subseteq Nat

VARIABLES
  statements,  \* imported bank_statements, with their lines
  matches      \* bank_matches rows, ACTIVE and UNDONE

bankVars == <<statements, matches>>
bankingVars == <<vars, bankVars>>

-----------------------------------------------------------------------------
ImportedLines == UNION {s.lines : s \in statements}

Active == {m \in matches : m.status = "ACTIVE"}
MatchedLines == {m.line : m \in Active}

\* What the checklist reports: an unmatched line counts for every period its
\* statement overlaps, whatever the date of the line.
Unmatched == UNION {{[id |-> l.id, start |-> s.start, end |-> s.end] : l \in s.lines \ MatchedLines}
                      : s \in statements}

\* Every item the checklist could show of a statement; the others are not ours.
LineItems == UNION {{[id |-> l.id, start |-> s.start, end |-> s.end] : l \in s.lines} : s \in Statements}

\* The WHERE clause of period_close_bank_statement_guard, for a range.
RangeTriggerAborts(r) ==
  \E i \in DOMAIN events :
    /\ events[i].type = "CLOSED"
    /\ Overlaps(events[i].period, r)
    /\ ~\E j \in EventsOf(events[i].period) :
          events[j].type = "REOPENED" /\ events[j].at > events[i].at

\* Mutant: the checklist is not read again.
SettleUnread(r, command, result) ==
  /\ Finish(r, command, result)
  /\ UNCHANGED <<lifecycle, ledgerVars, events, clock, plans, unresolved>>

\* The end of every command here: the record of the request and, in the same
\* transaction, a checklist that finds other lines unmatched than before.
Settle(r, command, result) ==
  /\ Finish(r, command, result)
  /\ unresolved' = (unresolved \ LineItems) \cup Unmatched'
  /\ UNCHANGED <<lifecycle, ledgerVars, events, clock, plans>>

-----------------------------------------------------------------------------
\* Mutant: the range of the statement is not compared with the closed periods.
ImportStatementAnywhere(r, s) ==
  /\ lifecycle = "ACTIVE"
  /\ \A t \in statements : t.ext # s.ext
  /\ statements' = statements \cup {s}
  /\ UNCHANGED matches
  /\ Settle(r, [op |-> "bankStatement.import", statement |-> s], "IMPORTED")

\* A statement already imported with the same content answers as it did the
\* first time; with other content it is refused.
ImportStatement(r, s) ==
  /\ lifecycle = "ACTIVE"
  /\ RangeOpen(s)
  /\ \/ s \in statements /\ UNCHANGED statements
     \/ /\ \A t \in statements : t.ext # s.ext
        /\ ~RangeTriggerAborts(s)
        /\ statements' = statements \cup {s}
  /\ UNCHANGED matches
  /\ Settle(r, [op |-> "bankStatement.import", statement |-> s], "IMPORTED")

\* Mutant: a journal may settle several lines.
ConfirmMatchTwice(r, l, j, id) ==
  /\ lifecycle = "ACTIVE"
  /\ PeriodOpen(l.date)
  /\ l \notin MatchedLines
  /\ j.amount = l.amount
  /\ ~TriggerAborts(l.date)
  /\ id \notin {m.id : m \in matches}
  /\ matches' = matches \cup {[id |-> id, line |-> l, journal |-> j, status |-> "ACTIVE"]}
  /\ UNCHANGED statements
  /\ Settle(r, [op |-> "bankMatch.confirm", line |-> l.id, journal |-> j.id], id)

ConfirmMatch(r, l, j, id) ==
  /\ lifecycle = "ACTIVE"
  /\ PeriodOpen(l.date)
  /\ l \notin MatchedLines                              \* BANK_LINE_ALREADY_MATCHED
  /\ j.amount = l.amount                                \* BANK_MATCH_AMOUNT_MISMATCH
  /\ j \notin {m.journal : m \in Active}                \* JOURNAL_ALREADY_MATCHED
  /\ ~TriggerAborts(l.date)
  /\ id \notin {m.id : m \in matches}
  /\ matches' = matches \cup {[id |-> id, line |-> l, journal |-> j, status |-> "ACTIVE"]}
  /\ UNCHANGED statements
  /\ Settle(r, [op |-> "bankMatch.confirm", line |-> l.id, journal |-> j.id], id)

\* Mutant: neither the service nor the schema looks at the period of the line.
UndoAnytime(r, command, m) ==
  /\ lifecycle = "ACTIVE"
  /\ m.status = "ACTIVE"
  /\ matches' = (matches \ {m}) \cup {[m EXCEPT !.status = "UNDONE"]}
  /\ UNCHANGED statements
  /\ Settle(r, command, m.id)

Undo(r, command, m) ==
  /\ lifecycle = "ACTIVE"
  /\ m.status = "ACTIVE"                                \* BANK_MATCH_NOT_ACTIVE
  /\ PeriodOpen(m.line.date)
  /\ ~TriggerAborts(m.line.date)
  /\ matches' = (matches \ {m}) \cup {[m EXCEPT !.status = "UNDONE"]}
  /\ UNCHANGED statements
  /\ Settle(r, command, m.id)

\* An undo names a match, or a line and means the first row of that line.
OfLine(l) == {m \in matches : m.line = l}
FirstOfLine(l) == {m \in OfLine(l) : \A n \in OfLine(l) : m.id <= n.id}

UndoMatch(r, m) == Undo(r, [op |-> "bankMatch.undo", match |-> m.id], m)
UndoLine(r, l) == \E m \in FirstOfLine(l) : Undo(r, [op |-> "bankMatch.undo", line |-> l.id], m)

-----------------------------------------------------------------------------
BankInit == Init /\ statements = {} /\ matches = {}

BankNext ==
  \/ LedgerCommand /\ UNCHANGED bankVars
  \/ \E r \in Requests, s \in Statements : ImportStatement(r, s)
  \/ \E r \in Requests, l \in ImportedLines, j \in journals, id \in MatchIds : ConfirmMatch(r, l, j, id)
  \/ \E r \in Requests, m \in matches : UndoMatch(r, m)
  \/ \E r \in Requests, l \in ImportedLines : UndoLine(r, l)

BankSpec == BankInit /\ [][BankNext]_bankingVars

-----------------------------------------------------------------------------
(* What holds                                                              *)

\* The state is well formed, and the checklist sees the lines as they are.
BankTypeOK ==
  /\ TypeOK
  /\ statements \subseteq Statements
  /\ \A m \in matches : /\ m.id \in MatchIds /\ m.status \in {"ACTIVE", "UNDONE"}
                        /\ m.line \in ImportedLines /\ m.journal \in journals
  /\ \A m, n \in matches : m.id = n.id => m = n
  /\ unresolved \cap LineItems = Unmatched

\* The reconciliation implements the pairing it promises: what an ACTIVE match
\* links is paired one to one with equal amounts, whatever is undone, redone,
\* imported twice or posted in between.
Paired == INSTANCE Pairing
  WITH pairs <- {[line |-> m.line, voucher |-> m.journal] : m \in Active},
       Lines <- UNION {s.lines : s \in Statements},
       Vouchers <- [id : JournalIds, date : Dates, amount : Amounts, request : Requests]
PairsOneToOne == Paired!Spec

\* Between the commit of a close and of its reopen no line dated inside the
\* period gains or loses its match, and none is imported.
ClosedLinesFrozen ==
  [][\A p \in Periods : CommittedClosed(p) =>
        /\ {m \in Active : Contains(p, m.line.date)}' = {m \in Active : Contains(p, m.line.date)}
        /\ {l \in ImportedLines : Contains(p, l.date)}' = {l \in ImportedLines : Contains(p, l.date)}]_bankingVars

\* A period closed with nothing left on its checklist has every statement that
\* lies inside it fully matched for as long as the close stands, although
\* statements may have come in and matches been undone before the close.
CleanCloseStaysReconciled ==
  \A i \in DOMAIN events :
    IsLastCommitted(i) /\ events[i].type = "CLOSED" /\ events[i].plan.checklist = {} =>
      \A s \in statements :
        events[i].period.start <= s.start /\ s.end <= events[i].period.end
          => s.lines \subseteq MatchedLines

\* A line that is matched can be unmatched by naming the line ("Provide the
\* exact match or statement line").
MatchedLineCanBeUndone ==
  \A l \in MatchedLines : \E m \in FirstOfLine(l) : m.status = "ACTIVE"
=============================================================================
