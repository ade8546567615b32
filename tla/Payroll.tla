------------------------------- MODULE Payroll -------------------------------
(***************************************************************************)
(* The payroll of a BookSet: employees, salary versions, rule snapshots    *)
(* and claims, the pay runs computed from them, approved, posted and paid  *)
(* out in batches, and the remittances (payroll-service).  A salary        *)
(* version is one template with its window; its components are in the      *)
(* order of their codes.  A hash stands for what it is taken over, and     *)
(* dates are numbers.  Every command is one write session, hence a step.   *)
(***************************************************************************)
EXTENDS Integers, Sequences, FiniteSets, Functions, SequencesExt

CONSTANTS
  Employees,    \* ids, in the order the database sorts them
  Versions,     \* salary versions a command may create: [from, to, policy, payable, components]
  Rules,        \* rule snapshots it may create: [type, from, to, status, allocation]
  EmployeeClaims,
  Runs,         \* ids of pay runs
  PayPeriods,   \* [from, to, payment]
  PayInputs,    \* lists of [employee, version, payable, days, variable, rules]
  Remittances,  \* the pairs of a rule type and a period
  MaxPayment, MaxRows, MaxBatches  \* bounds: the largest allocation, rows of a run or a batch, batches

ASSUME PayrollAssumption ==
  /\ Employees \subseteq Nat /\ IsFiniteSet(Runs) /\ IsFiniteSet(Rules)
  /\ MaxPayment \in Nat /\ MaxRows \in Nat
  /\ \A v \in Versions : v.components \in Seq([kind : STRING, basis : STRING, n : Nat, of : Nat])
  /\ \A rule \in Rules : rule.allocation \in Nat
  /\ \A p \in PayPeriods : p.from <= p.to /\ p.to <= p.payment
  /\ \A list \in PayInputs :
       /\ Len(list) \in Nat /\ DOMAIN list = 1 .. Len(list)
       /\ \A i \in DOMAIN list : /\ list[i].days \in Nat \ {0} /\ list[i].payable \in 0 .. list[i].days
                                /\ \A k \in DOMAIN list[i].variable : list[i].variable[k] \in Nat

VARIABLES
  staff,        \* employees created
  salaries,     \* salary versions created
  payRules,     \* rule snapshots created, immutable from then on
  payClaims,    \* status of each claim
  payRuns,      \* [status, period, slips, hash]: a slip is a row of payroll_pay_run_employees
  batches,      \* payment batches in order: [pays, exported]
  remittances,  \* status of each remittance
  payBalance    \* debit minus credit of the accounts payroll posts to

payrollVars == <<staff, salaries, payRules, payClaims, payRuns, batches, remittances, payBalance>>

PayAccounts == {"Expense", "Deductions", "Employer", "NetPayable"}
NoPayRun == [status |-> "NONE", period |-> 0, slips |-> <<>>, hash |-> <<>>]

PayrollInit ==
  /\ staff = {} /\ salaries = {} /\ payRules = {}
  /\ payClaims = [c \in EmployeeClaims |-> "NONE"]
  /\ payRuns = [r \in Runs |-> NoPayRun]
  /\ batches = <<>>
  /\ remittances = [m \in Remittances |-> "NONE"]
  /\ payBalance = [a \in PayAccounts |-> 0]

-----------------------------------------------------------------------------
(* What pay runs are computed from.                                        *)
CreateEmployee(e) ==
  /\ e \notin staff
  /\ staff' = staff \cup {e}
  /\ UNCHANGED <<salaries, payRules, payClaims, payRuns, batches, remittances, payBalance>>

Overlaps(a, b) == a.from <= b.to /\ b.from <= a.to

\* The versions of the one structure do not overlap.
CreateSalaryVersion(v) ==
  /\ \A w \in salaries : ~Overlaps(v, w)
  /\ salaries' = salaries \cup {v}
  /\ UNCHANGED <<staff, payRules, payClaims, payRuns, batches, remittances, payBalance>>

CreateRule(rule) ==
  /\ \A other \in payRules : other.type = rule.type => ~Overlaps(rule, other)
  /\ payRules' = payRules \cup {rule}
  /\ UNCHANGED <<staff, salaries, payClaims, payRuns, batches, remittances, payBalance>>

CreatePayClaim(c) ==
  /\ staff # {} /\ payClaims[c] = "NONE"
  /\ payClaims' = [payClaims EXCEPT ![c] = "PENDING"]
  /\ UNCHANGED <<staff, salaries, payRules, payRuns, batches, remittances, payBalance>>

ReviewPayClaim(c, decision) ==
  /\ payClaims[c] = "PENDING"
  /\ payClaims' = [payClaims EXCEPT ![c] = decision]
  /\ UNCHANGED <<staff, salaries, payRules, payRuns, batches, remittances, payBalance>>

-----------------------------------------------------------------------------
(* Computing one employee.                                                 *)
RateOf(base, bps) == (base * bps + 5000) \div 10000

Prorate(amount, policy, input) ==
  IF policy = "NONE" THEN amount ELSE (amount * input.payable + input.days \div 2) \div input.days

\* Component by component: a rate takes the amount of a component computed before
\* it, and zero when the one it names sorts after it.
Amounts(input) ==
  LET c == input.version.components
      amount[i \in DOMAIN c] ==
        LET base == IF c[i].of \in 1 .. i - 1 THEN amount[c[i].of] ELSE 0
        IN Prorate(IF i \in DOMAIN input.variable THEN input.variable[i]
                   ELSE IF c[i].basis = "FIXED_MINOR" THEN c[i].n ELSE RateOf(base, c[i].n),
                   input.version.policy, input)
  IN amount

SumOf(lines, kind) ==
  SumFunctionOnSet([i \in DOMAIN lines |-> lines[i].amount], {i \in DOMAIN lines : lines[i].kind = kind})

TdsRules(rules) == {rule \in rules : rule.type = "SALARY_TDS"}
TdsByRule(rules) == SumFunctionOnSet([rule \in rules |-> rule.allocation], TdsRules(rules))

\* The row of an employee, its component lines in the order of their codes.
SlipOf(input) ==
  LET c == input.version.components
      lines == [i \in DOMAIN c |-> [code |-> i, kind |-> c[i].kind, amount |-> Amounts(input)[i]]]
      gross == SumOf(lines, "EARNING")
      deductions == SumOf(lines, "EMPLOYEE_DEDUCTION") + TdsByRule(input.rules)
  IN [employee |-> input.employee, lines |-> lines, gross |-> gross, deductions |-> deductions,
      employer |-> SumOf(lines, "EMPLOYER_CONTRIBUTION"), net |-> gross - deductions,
      rules |-> input.rules]

RulesHold(rules, period) ==
  \A rule \in rules : /\ rule \in payRules /\ rule.status = "VERIFIED"
                      /\ rule.from <= period.payment /\ period.payment <= rule.to

Computable(input, period) ==
  /\ input.employee \in staff /\ input.version \in salaries
  /\ Overlaps(input.version, period)
  /\ input.rules # {} /\ RulesHold(input.rules, period)
  /\ Cardinality(TdsRules(input.rules)) <= 1
  /\ SlipOf(input).net >= 0

\* The lines of a slip in the order of the random ids of their rows.
InRowOrder(slip, order) == [slip EXCEPT !.lines = [i \in DOMAIN @ |-> @[order[i]]]]

RowOrders(inputs) ==
  LET rows(i) == DOMAIN inputs[i].version.components
  IN {orders \in [DOMAIN inputs -> UNION {Bijection(rows(i), rows(i)) : i \in DOMAIN inputs}] :
        \A i \in DOMAIN inputs : DOMAIN orders[i] = rows(i)}

\* pay-run.prepare: one run per period and payment date, one row per employee; the
\* hash is over the rows in the order of the command.
PreparePayRun(r, period, inputs) ==
  /\ payRuns[r].status = "NONE"
  /\ \A other \in Runs : payRuns[other].status # "NONE" => payRuns[other].period # period
  /\ inputs # <<>> /\ \A i \in DOMAIN inputs : Computable(inputs[i], period)
  /\ IsInjective([i \in DOMAIN inputs |-> inputs[i].employee])
  /\ \E orders \in RowOrders(inputs) :
       payRuns' = [payRuns EXCEPT ![r] =
            [status |-> "PREPARED", period |-> period,
             slips |-> [i \in DOMAIN inputs |-> InRowOrder(SlipOf(inputs[i]), orders[i])],
             hash |-> [i \in DOMAIN inputs |-> SlipOf(inputs[i])]]]
  /\ UNCHANGED <<staff, salaries, payRules, payClaims, batches, remittances, payBalance>>

-----------------------------------------------------------------------------
\* storedPayRunCalculationHash: the employees by id, their lines in row order.
StoredHash(run) == SortSeq(run.slips, LAMBDA a, b : a.employee < b.employee)

\* pay-run.approve: any pending claim of the BookSet blocks it.
ApprovePayRun(r) ==
  /\ payRuns[r].status = "PREPARED"
  /\ \A c \in EmployeeClaims : payClaims[c] # "PENDING"
  /\ \A i \in DOMAIN payRuns[r].slips : RulesHold(payRuns[r].slips[i].rules, payRuns[r].period)
  /\ payRuns[r].hash = StoredHash(payRuns[r])
  /\ payRuns' = [payRuns EXCEPT ![r].status = "APPROVED"]
  /\ UNCHANGED <<staff, salaries, payRules, payClaims, batches, remittances, payBalance>>

SumSlips(slips, Amount(_)) == SumFunction([i \in DOMAIN slips |-> Amount(slips[i])])

\* Mutant: the net pay posted is what the component lines leave.
PayableOfLines(slips) ==
  SumSlips(slips, LAMBDA s : SumOf(s.lines, "EARNING") - SumOf(s.lines, "EMPLOYEE_DEDUCTION"))

\* The net pay posted is that of the rows.
PayableOf(slips) == SumSlips(slips, LAMBDA s : s.net)

\* The journal of a run is built from the component lines; what a SALARY_TDS rule
\* withholds has none of its own.
PayJournal(slips) ==
  LET sum(kind) == SumSlips(slips, LAMBDA s : SumOf(s.lines, kind))
  IN [Expense |-> sum("EARNING") + sum("EMPLOYER_CONTRIBUTION"),
      Deductions |-> -sum("EMPLOYEE_DEDUCTION"),
      Employer |-> -sum("EMPLOYER_CONTRIBUTION"),
      NetPayable |-> -PayableOf(slips)]

\* pay-run.post: the journal has to balance, its lines to be positive, and some
\* salary component to name the account of the net pay.
PostPayRun(r) ==
  LET journal == PayJournal(payRuns[r].slips)
  IN /\ payRuns[r].status = "APPROVED"
     /\ \E v \in salaries : v.payable
     /\ PayableOf(payRuns[r].slips) > 0
     /\ SumFunction(journal) = 0
     /\ payBalance' = [a \in PayAccounts |-> payBalance[a] + journal[a]]
     /\ payRuns' = [payRuns EXCEPT ![r].status = "POSTED"]
     /\ UNCHANGED <<staff, salaries, payRules, payClaims, batches, remittances>>

-----------------------------------------------------------------------------
(* Paying out.  An allocation names a run, the index of a row and an       *)
(* amount; no journal is posted.                                           *)
Allocated(r, i) ==
  LET pays == UNION {{<<b, j>> : j \in {j \in DOMAIN batches[b].pays :
                                          batches[b].pays[j].run = r /\ batches[b].pays[j].row = i}} :
                     b \in DOMAIN batches}
  IN SumFunctionOnSet([x \in pays |-> batches[x[1]].pays[x[2]].amount], pays)

\* Each allocation is compared with those of earlier batches; a row occurs once
\* in a batch because the rows of a batch are unique.
CreatePaymentBatch(pays) ==
  /\ Len(batches) < MaxBatches
  /\ \A j \in DOMAIN pays :
       LET run == payRuns[pays[j].run]
       IN /\ run.status = "POSTED" /\ pays[j].row \in DOMAIN run.slips
          /\ pays[j].amount > 0
          /\ pays[j].amount + Allocated(pays[j].run, pays[j].row) <= run.slips[pays[j].row].net
  /\ IsInjective([j \in DOMAIN pays |-> <<pays[j].run, pays[j].row>>])
  /\ batches' = Append(batches, [pays |-> pays, exported |-> FALSE])
  /\ UNCHANGED <<staff, salaries, payRules, payClaims, payRuns, remittances, payBalance>>

\* bank-export.create: once per batch and preset.
ExportBankCsv(b) ==
  /\ ~batches[b].exported
  /\ batches' = [batches EXCEPT ![b].exported = TRUE]
  /\ UNCHANGED <<staff, salaries, payRules, payClaims, payRuns, remittances, payBalance>>

RemittanceOrder == <<"PREPARED", "EXPORTED", "SUBMITTED", "ACKNOWLEDGED", "REJECTED">>

CreateRemittance(m) ==
  /\ remittances[m] = "NONE"
  /\ remittances' = [remittances EXCEPT ![m] = "PREPARED"]
  /\ UNCHANGED <<staff, salaries, payRules, payClaims, payRuns, batches, payBalance>>

UpdateRemittance(m, i, j) ==
  /\ remittances[m] = RemittanceOrder[i]
  /\ j > 1 /\ (j = 5 \/ j > i)
  /\ remittances' = [remittances EXCEPT ![m] = RemittanceOrder[j]]
  /\ UNCHANGED <<staff, salaries, payRules, payClaims, payRuns, batches, payBalance>>

-----------------------------------------------------------------------------
Pays == [run : Runs, row : 1 .. MaxRows, amount : 1 .. MaxPayment]

PayrollNext ==
  \/ \E e \in Employees : CreateEmployee(e)
  \/ \E v \in Versions : CreateSalaryVersion(v)
  \/ \E rule \in Rules : CreateRule(rule)
  \/ \E c \in EmployeeClaims : CreatePayClaim(c) \/ \E d \in {"APPROVED", "REJECTED"} : ReviewPayClaim(c, d)
  \/ \E r \in Runs, period \in PayPeriods, inputs \in PayInputs : PreparePayRun(r, period, inputs)
  \/ \E r \in Runs : ApprovePayRun(r) \/ PostPayRun(r)
  \/ \E n \in 1 .. MaxRows : \E pays \in [1 .. n -> Pays] : CreatePaymentBatch(pays)
  \/ \E b \in DOMAIN batches : ExportBankCsv(b)
  \/ \E m \in Remittances : CreateRemittance(m) \/ \E i, j \in 1 .. 5 : UpdateRemittance(m, i, j)

PayrollSpec == PayrollInit /\ [][PayrollNext]_payrollVars

-----------------------------------------------------------------------------
PayslipsTieToTheBooks ==
  LET posted == {r \in Runs : payRuns[r].status = "POSTED"}
      total(Amount(_)) == SumFunctionOnSet([r \in Runs |-> SumSlips(payRuns[r].slips, Amount)], posted)
  IN /\ payBalance["Expense"] = total(LAMBDA s : s.gross + s.employer)
     /\ payBalance["Deductions"] = -total(LAMBDA s : s.deductions)
     /\ payBalance["NetPayable"] = -total(LAMBDA s : s.net)

PayslipsAreNotOverpaid ==
  \A r \in Runs : \A i \in DOMAIN payRuns[r].slips :
    payRuns[r].status = "POSTED" => Allocated(r, i) <= payRuns[r].slips[i].net

\* The accounts carry what the payslips of the posted runs say: the gross and the
\* employer's share, what was withheld from the employees and the net pay owed to
\* them, though payslips show the rows and the journal is built from the component
\* lines.  And no payslip is paid out beyond its net, over all its batches.
SalariesTieToTheBooks == PayslipsTieToTheBooks /\ PayslipsAreNotOverpaid

\* payroll-service: approval is refused for a hash mismatch because facts or lines
\* changed after preparation; so an untouched run does not mismatch.
UntouchedRunsMatchTheirHash ==
  \A r \in Runs : payRuns[r].status = "PREPARED" => payRuns[r].hash = StoredHash(payRuns[r])
=============================================================================
