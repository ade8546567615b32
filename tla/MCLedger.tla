------------------------------- MODULE MCLedger -------------------------------
(***************************************************************************)
(* Small instances of the dated ledger: the ledger alone, with the rollover *)
(* of a financial year, and with bank reconciliation.  A behaviour explores *)
(* the one that is in focus.                                               *)
(***************************************************************************)
EXTENDS FiscalYearRollover, BankReconciliation, TLC

CONSTANT Focuses   \* which of them a run explores
VARIABLE focus

ASSUME FocusAssumption == Focuses \subseteq {"ledger", "year", "bank"}

\* FY is a period of its own; the other two overlap.
MCYear == [start |-> 2, end |-> 2]
First == [start |-> 1, end |-> 1]
Whole == [start |-> 1, end |-> 2]
MCPeriods == {MCYear, First, Whole}
PeriodsOf(f) == CASE f = "ledger" -> {First, Whole} [] f = "year" -> {MCYear} [] f = "bank" -> {First}

\* A statement inside a period and one that straddles its end.
Line(name, date) == [id |-> name, date |-> date, amount |-> 1]
Inside == [ext |-> "may", start |-> 1, end |-> 1, lines |-> {Line("m1", 1)}]
Straddling == [ext |-> "mid", start |-> 1, end |-> 2, lines |-> {Line("s1", 1), Line("s2", 2)}]
TwoStatements == {Inside, Straddling}

\* One item that is no statement line.
Gst == [id |-> "gst", start |-> 1, end |-> 1]
MCItems == {Gst} \cup LineItems

ledgerFocusVars == <<focus, allVars, bankVars>>

-----------------------------------------------------------------------------
(* Bounds                                                                  *)

\* Request ids are interchangeable.
MCSymmetry == Permutations(Requests)

\* How many requests have an effect, how many journals there are, which periods
\* are previewed and which items move, in each focus.  A retry is answered in the
\* ledger focus only and then ends the behaviour; rollovers are previewed once a
\* pack exists; in the ledger focus items move before the first event only.
Requested == [ledger |-> 4, year |-> 5, bank |-> 5]
Posted == [ledger |-> 2, year |-> 1, bank |-> 2]
ItemsOf == [ledger |-> {Gst}, year |-> {}, bank |-> LineItems]
FewOf(f) ==
  /\ Cardinality(idem') <= Requested[f]
  /\ Cardinality(journals') <= Posted[f]
  /\ \A plan \in plans' : plan.period \in PeriodsOf(f)
  /\ answers = {} /\ (f # "ledger" => answers' = {})
  /\ unresolved' \subseteq ItemsOf[f]
  /\ previews' # previews => packs # <<>>
  /\ f = "ledger" /\ events # <<>> => UNCHANGED unresolved

\* No query orders journals by their ids: they are taken in order.  Those of
\* events are free in the ledger focus; in the others they, and those of packs,
\* are free within a millisecond and a later row has a larger one.
IdsInOrder ==
  /\ {j.id : j \in journals'} = 1 .. Cardinality(journals')
  /\ events = <<>> /\ events' # events => clock' = 1
  /\ focus # "ledger" /\ clock' > clock =>
       \A i \in DOMAIN events : events[i].id < events'[Len(events')].id
  /\ packs = <<>> /\ packs' # packs => packs'[1].at = 1
  /\ packs # <<>> /\ packs' # packs =>
       LET last == packs[Len(packs)]  new == packs'[Len(packs')]
       IN  last.at = new.at \/ last.id < new.id

-----------------------------------------------------------------------------
LedgerInit == focus \in Focuses /\ YearInit /\ statements = {} /\ matches = {}

LedgerNext ==
  /\ \/ focus = "ledger" /\ Next /\ UNCHANGED <<yearVars, bankVars>>
     \/ focus = "year" /\ YearNext /\ UNCHANGED bankVars
     \/ focus = "bank" /\ BankNext /\ UNCHANGED yearVars
  /\ UNCHANGED focus
  /\ IdsInOrder /\ FewOf(focus)

LedgerSpec == LedgerInit /\ [][LedgerNext]_ledgerFocusVars
=============================================================================
