------------------------------- MODULE MCBooks -------------------------------
(***************************************************************************)
(* Small instances of the four record keepers that post to the ledger of a *)
(* BookSet: the invoices, the GST returns, the payroll and the expense     *)
(* claims.  They share no state a property reads, so a behaviour explores  *)
(* the one that is in focus and leaves the others as they start.           *)
(***************************************************************************)
EXTENDS Subledger, GstReturns, Payroll, ExpenseClaims

VARIABLE focus

booksVars == <<focus, subledgerVars, gstVars, payrollVars, expenseVars>>

-----------------------------------------------------------------------------
(* Subledger: an invoice and a bill, foreign over two lines or in base     *)
(* currency with GST.                                                      *)
Rate(n) == [num |-> n, den |-> 10]
Document(lines, fx, gst, itc) == [date |-> 1, lines |-> lines, fx |-> fx, gst |-> gst, itc |-> itc]
MCPayloads == {Document(<<1, 2>>, TRUE, 0, FALSE), Document(<<1, 1>>, FALSE, 5000, TRUE),
               Document(<<1, 1>>, FALSE, 5000, FALSE)}
MCBookRate == Rate(17)
MCSettlements == {Rate(20)}
MCCloseRates == {Rate(25), Rate(10)}

Used == {d \in Documents : docs[d].status # "NONE"}

\* Bound: two documents at once only when both are foreign, untaxed and paid in
\* foreign slices, and no period is closed meanwhile.
FewDocuments ==
  \/ Cardinality(Used') <= 1
  \/ /\ closed' = {}
     /\ \A d \in Used' : docs'[d].foreign > 0 /\ docs'[d].paid = relieved'[d].base /\ docs'[d].tax = 0

-----------------------------------------------------------------------------
(* GstReturns: invoices of two BookSets, registrations in two states.      *)
Registered(g, s) == [gstin |-> g, state |-> s, status |-> "ACTIVE", from |-> 1, to |-> 9]
MCRegistrations == {Registered("B", "29"), Registered("A", "27"),
                    [Registered("A", "27") EXCEPT !.status = "INACTIVE"]}
MCProfile(status) == [party |-> "p", state |-> "27", local |-> FALSE, status |-> status, from |-> 1, to |-> 1]
MCProfiles == {MCProfile("ACTIVE"), MCProfile("INACTIVE")}
MCInvoice(i) == IF i = 1 THEN [bookSet |-> "b", party |-> "p", date |-> 1, amount |-> 100, rate |-> 1800]
                         ELSE [bookSet |-> "c", party |-> "p", date |-> 1, amount |-> 50, rate |-> 1]
MCTaxPeriods == {[from |-> 1, to |-> 2]}

-----------------------------------------------------------------------------
(* Payroll: two employees on a structure with an earning and a deduction;  *)
(* tax withheld by a rule or not.                                          *)
Component(kind, basis, n, of) == [kind |-> kind, basis |-> basis, n |-> n, of |-> of]
Version(from, to, policy, payable, c) ==
  [from |-> from, to |-> to, policy |-> policy, payable |-> payable, components |-> c]
Basic == Component("EARNING", "FIXED_MINOR", 3, 0)
First == Version(1, 4, "CALENDAR_DAYS", TRUE, <<Basic, Component("EMPLOYEE_DEDUCTION", "RATE_BPS", 5000, 1)>>)
Later == Version(5, 9, "NONE", FALSE, <<Basic, Component("EMPLOYER_CONTRIBUTION", "FIXED_MINOR", 1, 0)>>)
MCVersions == {First, Later}
Rule(type, n) == [type |-> type, from |-> 1, to |-> 9, status |-> "VERIFIED", allocation |-> n]
Tds == Rule("SALARY_TDS", 1)
Epf == Rule("EPF", 0)
MCRules == {Tds, Epf}
MCPayPeriods == {[from |-> 1, to |-> 2, payment |-> 2], [from |-> 1, to |-> 2, payment |-> 3]}
Input(e, payable, r) ==
  [employee |-> e, version |-> First, payable |-> payable, days |-> 2, variable |-> <<>>, rules |-> r]
Both == <<Input(1, 2, {Epf}), Input(2, 1, {Epf})>>
Swapped == <<Input(2, 2, {Epf}), Input(1, 2, {Epf})>>
Withheld == <<Input(1, 2, {Tds, Epf})>>
One == <<Input(1, 2, {Epf})>>
MCPayInputs == {Both, Swapped, Withheld}
OneEmployee == {One}

\* Bound: claims and remittances move before the first run is posted.
ClaimsFirst ==
  (\E c \in EmployeeClaims : payClaims'[c] # "NONE") \/ (\E m \in Remittances : remittances'[m] # "NONE")
    => \A r \in Runs : payRuns'[r].status # "POSTED"

-----------------------------------------------------------------------------
(* ExpenseClaims: a claim of two lines, one of them partly personal, a     *)
(* small one on the advance account and one on a liability.                *)
ClaimLine(b, p, k) == [business |-> b, personal |-> p, account |-> k]
MCClaimLines == {<<ClaimLine(2, 0, "Expenses"), ClaimLine(1, 1, "BankPaid")>>,
                 <<ClaimLine(1, 0, "Advances")>>, <<ClaimLine(1, 0, "Reimbursable")>>}

-----------------------------------------------------------------------------
BooksInit ==
  /\ focus \in {"subledger", "gst", "payroll", "expenses"}
  /\ SubledgerInit /\ GstInit /\ PayrollInit /\ ExpenseInit

BooksNext ==
  \/ /\ focus = "subledger" /\ SubledgerNext /\ FewDocuments
     /\ UNCHANGED <<focus, gstVars, payrollVars, expenseVars>>
  \/ /\ focus = "gst" /\ GstNext
     /\ UNCHANGED <<focus, subledgerVars, payrollVars, expenseVars>>
  \/ /\ focus = "payroll" /\ PayrollNext /\ ClaimsFirst
     /\ UNCHANGED <<focus, subledgerVars, gstVars, expenseVars>>
  \/ /\ focus = "expenses" /\ ExpenseNext
     /\ UNCHANGED <<focus, subledgerVars, gstVars, payrollVars>>

BooksSpec == BooksInit /\ [][BooksNext]_booksVars
=============================================================================
