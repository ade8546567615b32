------------------------------ MODULE Subledger ------------------------------
(***************************************************************************)
(* Sales invoices and vendor bills from draft to paid: GST and withholding *)
(* at posting, receipts and payments in base or foreign currency, deposits *)
(* of withheld tax, and the period-end revaluation of what is open in a    *)
(* foreign currency.  Every command is one write session, hence one step;  *)
(* a refused command leaves everything as it was.  A receipt over several  *)
(* documents is its allocations one after the other.  The idempotent       *)
(* replay is PeriodLedger's, as are closing and reopening: here the closed *)
(* dates only move.                                                        *)
(***************************************************************************)
EXTENDS Integers, Sequences, FiniteSets, Functions

CONSTANTS
  Sales, Bills,  \* ids of invoices and of bills
  BookDates,     \* dates a journal can carry
  Payloads,      \* what a create command may ask for: [date, lines, fx, gst, itc]
  BookRate,      \* BOOK_INITIAL rate of the foreign currency, [num, den]
  Settlements,   \* SETTLEMENT rates
  CloseRates,    \* PERIOD_END rates
  Withholdings,  \* rates of the verified CREDIT rules, in basis points
  MaxDeposit     \* bound: the largest deposit

Documents == Sales \cup Bills
Accounts == {"AR", "AP", "Income", "Expense", "Bank", "OutputGst", "InputGst", "TCS", "TDS",
             "Realized", "Unrealized", "ArAdjustment", "ApAdjustment"}

\* What the validation of invoice.create and bill.create lets through.
WellFormed(p) ==
  /\ p.date \in BookDates
  /\ p.lines # <<>> /\ p.lines \in Seq(Nat \ {0})
  /\ p.fx \in BOOLEAN /\ p.itc \in BOOLEAN
  /\ p.gst \in Nat /\ p.gst <= 10000

ASSUME SubledgerAssumption ==
  /\ Sales \cap Bills = {} /\ IsFiniteSet(Sales) /\ IsFiniteSet(Bills)
  /\ \A p \in Payloads : WellFormed(p)
  /\ \A r \in {BookRate} \cup Settlements \cup CloseRates : r.num \in Nat \ {0} /\ r.den \in Nat \ {0}
  /\ Withholdings \subseteq 0 .. 10000

VARIABLES
  docs,      \* sales_invoices and vendor_bills, with their fx_document_facts
  relieved,  \* fx_allocation_facts of a document: how many, foreign and base sums
  revalued,  \* fx_revaluation_runs of the policy by date, with their lines
  idle,      \* what deposits paid in beyond their allocations, by tax
  balance,   \* debit minus credit of every account
  closed     \* the dates whose period is closed

subledgerVars == <<docs, relieved, revalued, idle, balance, closed>>

NoDocument == [status |-> "NONE", date |-> 0, lines |-> <<>>, total |-> 0, paid |-> 0,
               withheld |-> 0, tax |-> 0, deposited |-> 0, foreign |-> 0, gst |-> 0, itc |-> FALSE]
NoRun == [status |-> "NONE", open |-> <<>>, adjustment |-> <<>>]

SubledgerInit ==
  /\ docs = [d \in Documents |-> NoDocument]
  /\ relieved = [d \in Documents |-> [count |-> 0, foreign |-> 0, base |-> 0]]
  /\ revalued = [t \in BookDates |-> NoRun]
  /\ idle = [k \in {"TCS", "TDS"} |-> 0]
  /\ balance = [a \in Accounts |-> 0]
  /\ closed = {}

-----------------------------------------------------------------------------
(* Money. *)

HalfUp(n, d) == (2 * n + d) \div (2 * d)

Convert(foreign, r) == HalfUp(foreign * r.num, r.den)

\* The document total is rounded once; what the floors of the lines leave over
\* goes, one unit each, to the lines with the largest fractions, earlier first.
ConvertLines(foreign) ==
  LET exact(i) == foreign[i] * BookRate.num
      floors == [i \in DOMAIN foreign |-> exact(i) \div BookRate.den]
      left == Convert(SumFunction(foreign), BookRate) - SumFunction(floors)
      before(i) == {j \in DOMAIN foreign :
                      \/ exact(j) % BookRate.den > exact(i) % BookRate.den
                      \/ exact(j) % BookRate.den = exact(i) % BookRate.den /\ j < i}
  IN [i \in DOMAIN foreign |-> floors[i] + (IF Cardinality(before(i)) < left THEN 1 ELSE 0)]

\* The carrying amount a slice of the foreign amount relieves: its floor, and
\* for the slice that completes it what the floor of the rest leaves over.
ProportionalCarrying(base, foreign, prior, slice) ==
  IF prior + slice = foreign THEN base - ((base * prior) \div foreign)
                             ELSE (base * slice) \div foreign

\* GST per line, rounded half up; intra-state CGST and the local component split
\* this amount, so the split does not change the sum.
Gst(doc) == SumFunction([i \in DOMAIN doc.lines |-> HalfUp(doc.lines[i] * doc.gst, 10000)])

Net(doc) == SumFunction(doc.lines)

Outstanding(doc) == doc.total - doc.paid - doc.withheld

\* invoice_paid_status and billSettlementStatus.
Settled(total, settled) ==
  IF settled >= total THEN "PAID" ELSE IF settled > 0 THEN "PARTIALLY_PAID" ELSE "POSTED"

TaxOf(d) == IF d \in Sales THEN "TCS" ELSE "TDS"

\* postJournalInSession: an open date, and lines that balance.
Journal(date, lines) ==
  /\ date \notin closed
  /\ SumFunction(lines) = 0
  /\ balance' = [a \in Accounts |-> balance[a] + (IF a \in DOMAIN lines THEN lines[a] ELSE 0)]

-----------------------------------------------------------------------------
(* A draft; the facts of a foreign document are written with it.           *)
Draft(d, p) ==
  /\ docs[d].status = "NONE"
  /\ p.date \notin closed
  /\ docs' = [docs EXCEPT ![d] =
       LET lines == IF p.fx THEN ConvertLines(p.lines) ELSE p.lines
       IN [NoDocument EXCEPT !.status = "DRAFT", !.date = p.date, !.lines = lines,
             !.total = SumFunction(lines), !.gst = p.gst, !.itc = p.itc,
             !.foreign = IF p.fx THEN SumFunction(p.lines) ELSE 0]]
  /\ UNCHANGED <<relieved, revalued, idle, balance, closed>>

CreateInvoice(d, p) == d \in Sales /\ Draft(d, p)
CreateBill(d, p) == d \in Bills /\ Draft(d, p)

\* Withholding under a rule of the rate, none when the command names no rule; a
\* rule that yields nothing makes a journal line of zero, which is refused.
Withholding(doc, bps) == HalfUp(Net(doc) * bps, 10000)

\* invoice.post: the customer owes the gross and the TCS collected on the net.
PostInvoice(d, bps) ==
  LET doc == docs[d]
      tcs == Withholding(doc, bps)
      total == Net(doc) + Gst(doc) + tcs
  IN /\ d \in Sales /\ doc.status = "DRAFT"
     /\ bps > 0 => tcs > 0
     /\ Journal(doc.date, [AR |-> total, Income |-> -Net(doc), OutputGst |-> -Gst(doc), TCS |-> -tcs])
     /\ docs' = [docs EXCEPT ![d] = [@ EXCEPT !.status = "POSTED", !.total = total, !.tax = tcs]]
     /\ UNCHANGED <<relieved, revalued, idle, closed>>

\* bill.post: GST that is no eligible input tax is an expense; the vendor is
\* owed the gross less the TDS, and the deduction alone may settle the bill.
PostBill(d, bps) ==
  LET doc == docs[d]
      gross == Net(doc) + Gst(doc)
      tds == Withholding(doc, bps)
      input == IF doc.itc THEN Gst(doc) ELSE 0
  IN /\ d \in Bills /\ doc.status = "DRAFT"
     /\ bps > 0 => tds > 0
     /\ tds <= gross
     /\ Journal(doc.date, [Expense |-> gross - input, InputGst |-> input, AP |-> tds - gross, TDS |-> -tds])
     /\ docs' = [docs EXCEPT ![d] = [@ EXCEPT !.status = Settled(gross, tds), !.total = gross,
                                              !.withheld = tds, !.tax = tds]]
     /\ UNCHANGED <<relieved, revalued, idle, closed>>

\* Mutant: a foreign allocation pays what the bank moved.
PaidByBank(doc, bank, carrying) == doc.paid + bank

\* The new paid_minor of an allocation: the carrying amount it relieves.
NewPaid(doc, bank, carrying) == doc.paid + carrying

\* What an allocation of a receipt or a payment, of this bank amount, does to the
\* accounts and to the document whose carrying amount it relieves.
Settle(d, date, bank, carrying) ==
  LET doc == docs[d]
      lines == IF d \in Sales
               THEN [Bank |-> bank, AR |-> -carrying, Realized |-> carrying - bank]
               ELSE [Bank |-> -bank, AP |-> carrying, Realized |-> bank - carrying]
  IN /\ doc.status \in {"POSTED", "PARTIALLY_PAID"}
     /\ bank > 0 /\ carrying > 0
     /\ carrying <= Outstanding(doc)
     /\ Journal(date, lines)
     /\ docs' = [docs EXCEPT ![d] =
                   [@ EXCEPT !.paid = NewPaid(doc, bank, carrying),
                             !.status = Settled(doc.total, NewPaid(doc, bank, carrying) + doc.withheld)]]

\* An allocation in base currency: a foreign document takes it as well, and its
\* open foreign amount stays.
AllocateBase(d, date, amount) ==
  /\ Settle(d, date, amount, amount)
  /\ UNCHANGED <<relieved, revalued, idle, closed>>

\* Mutant: a settlement does not wait for the reversal of the revaluation.
NotRevalued(d) == FALSE

\* assertNoUnreversedRevaluation
Revalued(d) == \E t \in BookDates : revalued[t].status = "POSTED" /\ d \in DOMAIN revalued[t].adjustment

\* The same with a foreign slice, its bank amount given by the settlement rate.
AllocateForeign(d, date, slice, r) ==
  LET prior == relieved[d]
      carrying == ProportionalCarrying(Net(docs[d]), docs[d].foreign, prior.foreign, slice)
  IN /\ ~Revalued(d)
     /\ docs[d].foreign > 0
     /\ prior.foreign + slice <= docs[d].foreign
     /\ Settle(d, date, Convert(slice, r), carrying)
     /\ relieved' = [relieved EXCEPT ![d] = [count |-> @.count + 1, foreign |-> @.foreign + slice,
                                             base |-> @.base + carrying]]
     /\ UNCHANGED <<revalued, idle, closed>>

Allocate(d, date) ==
  \/ \E n \in 1 .. docs[d].total : AllocateBase(d, date, n)
  \/ \E n \in 1 .. docs[d].foreign, r \in Settlements : AllocateForeign(d, date, n, r)

\* receipt.record and vendorPayment.record
RecordReceipt(d, date) == d \in Sales /\ Allocate(d, date)
RecordPayment(d, date) == d \in Bills /\ Allocate(d, date)

-----------------------------------------------------------------------------
\* Mutant: earlier allocations to the event are not counted.
EventTax(d) == docs[d].tax

\* What of a withholding event no deposit was allocated to yet.
EventOutstanding(d) == docs[d].tax - docs[d].deposited

(* tax.deposit: the whole amount leaves the liability, the allocation says *)
(* which withholding event it is for.                                      *)
Deposit(d, date, allocated, amount) ==
  /\ docs[d].tax > 0
  /\ allocated > 0 /\ allocated <= amount
  /\ allocated <= EventOutstanding(d)
  /\ Journal(date, IF d \in Sales THEN [TCS |-> amount, Bank |-> -amount]
                                  ELSE [TDS |-> amount, Bank |-> -amount])
  /\ docs' = [docs EXCEPT ![d].deposited = @ + allocated]
  /\ idle' = [idle EXCEPT ![TaxOf(d)] = @ + amount - allocated]
  /\ UNCHANGED <<relieved, revalued, closed>>

-----------------------------------------------------------------------------
(* Revaluation of the documents open in the foreign currency, whatever     *)
(* their status, and its reversal.                                         *)
OpenForeign(d) == docs[d].foreign - relieved[d].foreign

Adjustment(d, r) == Convert(OpenForeign(d), r) - (Net(docs[d]) - relieved[d].base)

\* Open in the foreign currency, with a carrying amount that the rate changes.
ToRevalue(r) ==
  {d \in Documents : /\ OpenForeign(d) > 0 /\ Net(docs[d]) > relieved[d].base
                     /\ Adjustment(d, r) # 0}

RevaluationLines(adjustment) ==
  LET sum(S) == SumFunctionOnSet(adjustment, S \cap DOMAIN adjustment)
  IN [ArAdjustment |-> sum(Sales), ApAdjustment |-> -sum(Bills),
      Unrealized |-> sum(Bills) - sum(Sales)]

\* fx.revaluation.post, once per policy and date.
PostRevaluation(date, r) ==
  LET chosen == ToRevalue(r)
      adjustment == [d \in chosen |-> Adjustment(d, r)]
  IN /\ revalued[date].status = "NONE"
     /\ chosen # {}
     /\ \A d \in chosen : Convert(OpenForeign(d), r) > 0
     /\ Journal(date, RevaluationLines(adjustment))
     /\ revalued' = [revalued EXCEPT ![date] = [status |-> "POSTED", adjustment |-> adjustment,
                                                open |-> [d \in chosen |-> OpenForeign(d)]]]
     /\ UNCHANGED <<docs, relieved, idle, closed>>

\* fx.revaluation.reverse: the lines debit what the run debited, see the finding.
ReverseRevaluation(run, date) ==
  /\ revalued[run].status = "POSTED"
  /\ Journal(date, RevaluationLines(revalued[run].adjustment))
  /\ revalued' = [revalued EXCEPT ![run].status = "REVERSED"]
  /\ UNCHANGED <<docs, relieved, idle, closed>>

\* A period of the BookSet is closed or reopened: PeriodLedger's commands.
MovePeriod(date) ==
  /\ closed' = IF date \in closed THEN closed \ {date} ELSE closed \cup {date}
  /\ UNCHANGED <<docs, relieved, revalued, idle, balance>>

-----------------------------------------------------------------------------
SubledgerNext ==
  \/ \E d \in Documents, p \in Payloads : CreateInvoice(d, p) \/ CreateBill(d, p)
  \/ \E d \in Documents, bps \in Withholdings : PostInvoice(d, bps) \/ PostBill(d, bps)
  \/ \E d \in Documents, date \in BookDates : RecordReceipt(d, date) \/ RecordPayment(d, date)
  \/ \E d \in Documents, date \in BookDates, amount \in 1 .. MaxDeposit :
       \E n \in 1 .. amount : Deposit(d, date, n, amount)
  \/ \E date \in BookDates, r \in CloseRates : PostRevaluation(date, r)
  \/ \E run, date \in BookDates : ReverseRevaluation(run, date)
  \/ \E date \in BookDates : MovePeriod(date)

SubledgerSpec == SubledgerInit /\ [][SubledgerNext]_subledgerVars

-----------------------------------------------------------------------------
Posted(S) == {d \in S : docs[d].status \in {"POSTED", "PARTIALLY_PAID", "PAID"}}

OutstandingOf(S) == SumFunctionOnSet([d \in Documents |-> Outstanding(docs[d])], Posted(S))

\* The control accounts carry what the documents say is outstanding, through
\* tax, deductions, foreign slices and roundings: journals of six commands have
\* to agree with columns they update on their own.
ControlAccountsAgree ==
  /\ balance["AR"] = OutstandingOf(Sales)
  /\ balance["AP"] = -OutstandingOf(Bills)

\* While a revaluation is posted, the foreign amounts it revalued are still open as
\* it recorded them: of the two ways to settle, no foreign slice passes it.  That an
\* allocation in base currency does pass it is SettlementClearsTheDocument's.
RevaluedSlicesStayOpen ==
  \A t \in BookDates : revalued[t].status = "POSTED" =>
    \A d \in DOMAIN revalued[t].open : revalued[t].open[d] = OpenForeign(d)

\* The liability account of a tax is what the register shows as outstanding less
\* what deposits paid in without an event to allocate it to.
RegisterTiesToLiability ==
  LET due == [d \in Documents |-> docs[d].tax - docs[d].deposited]
  IN /\ balance["TCS"] = idle["TCS"] - SumFunctionOnSet(due, Sales)
     /\ balance["TDS"] = idle["TDS"] - SumFunctionOnSet(due, Bills)
     /\ \A d \in Documents : due[d] >= 0

\* accounting-contracts: a run is reversed by the exact prior revaluation journal
\* with the same base amount, so that a reversed run is gone from the accounts.
ReversalUndoesTheRun ==
  (\A t \in BookDates : revalued[t].status # "POSTED")
    => balance["ArAdjustment"] = 0 /\ balance["ApAdjustment"] = 0

\* accounting-contracts: an item that settles before the reversal "clears the
\* carrying amount K" and the run "is marked realized/closed for that slice", and a
\* rounding unit is "never silently dropped".  So the slice that uses the foreign
\* amount up has relieved all the document carried, and a document that becomes paid
\* leaves no revaluation posted on it.
SettlementClearsTheDocument ==
  [][\A d \in Documents :
       /\ OpenForeign(d) > 0 /\ OpenForeign(d)' = 0 => relieved'[d].base = Net(docs[d])
       /\ docs[d].status # "PAID" /\ docs'[d].status = "PAID" => ~Revalued(d)']_subledgerVars
=============================================================================
