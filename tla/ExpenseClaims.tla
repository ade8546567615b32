---------------------------- MODULE ExpenseClaims ----------------------------
(***************************************************************************)
(* The expense claims of a BookSet: a claim from draft to settled, the     *)
(* advances it is set off against, their repayment and the reimbursement   *)
(* of the rest (expense-claims-service).  Every command is one write       *)
(* session, hence one step; its idempotent replay is PeriodLedger's.       *)
(***************************************************************************)
EXTENDS Integers, Sequences, FiniteSets, Functions

CONSTANTS
  Claimants, Reviewers,  \* ids of claimants and of the actors who write and review
  ClaimIds, AdvanceIds,
  ClaimLines,            \* lines a claim may have: sequences of [business, personal, account]
  MaxAdvance             \* bound: the largest advance

\* One account of each use; the advance account and the bank are assets too.
AccountType == [Expenses |-> "EXPENSE", Advances |-> "ASSET", BankPaid |-> "ASSET", Reimbursable |-> "LIABILITY"]
ExpenseAccounts == DOMAIN AccountType

ASSUME ExpenseAssumption ==
  /\ IsFiniteSet(ClaimIds) /\ IsFiniteSet(AdvanceIds)
  /\ \A lines \in ClaimLines :
       /\ lines # <<>>
       /\ lines \in Seq([business : Nat, personal : Nat, account : ExpenseAccounts])
       /\ \A i \in DOMAIN lines : lines[i].business + lines[i].personal > 0

VARIABLES
  claimants,   \* claimants created
  claims,      \* [status, claimant, creator, lines]
  advances,    \* [status, claimant, amount]
  setOff,      \* advance allocations: what of an advance was used for a claim
  repaid,      \* sum of the repayments of each advance
  reimbursed,  \* sum of the reimbursements of each claim
  bookBalance  \* debit minus credit of the accounts these commands post to

expenseVars == <<claimants, claims, advances, setOff, repaid, reimbursed, bookBalance>>

NoClaim == [status |-> "NONE", claimant |-> "", creator |-> "", lines |-> <<>>]
NoAdvance == [status |-> "NONE", claimant |-> "", amount |-> 0]

ExpenseInit ==
  /\ claimants = {}
  /\ claims = [c \in ClaimIds |-> NoClaim]
  /\ advances = [a \in AdvanceIds |-> NoAdvance]
  /\ setOff = [x \in AdvanceIds \X ClaimIds |-> 0]
  /\ repaid = [a \in AdvanceIds |-> 0]
  /\ reimbursed = [c \in ClaimIds |-> 0]
  /\ bookBalance = [k \in ExpenseAccounts |-> 0]

BusinessTotal(claim) == SumFunction([i \in DOMAIN claim.lines |-> claim.lines[i].business])
\* What the lines themselves book on an account.
ChargedTo(claim, k) == SumFunction([i \in DOMAIN claim.lines |->
                         IF claim.lines[i].account = k THEN claim.lines[i].business ELSE 0])
Chargeable(k) == AccountType[k] \in {"EXPENSE", "ASSET"}
MixedUse(claim) == \E i \in DOMAIN claim.lines : claim.lines[i].personal > 0

UsedFor(c) == SumFunctionOnSet(setOff, AdvanceIds \X {c})
UsedOf(a) == SumFunctionOnSet(setOff, {a} \X ClaimIds)

\* Mutant: what was paid back is not counted as used.
WithoutRepayments(a) == advances[a].amount - UsedOf(a)

\* What of an advance is neither set off nor repaid.
Unsettled(a) == advances[a].amount - UsedOf(a) - repaid[a]

\* What of a posted claim no advance covered and no reimbursement paid.
Payable(c) == BusinessTotal(claims[c]) - UsedFor(c) - reimbursed[c]

SettledOr(rest) == IF rest = 0 THEN "SETTLED" ELSE "PARTIALLY_SETTLED"

PostLines(lines) ==
  /\ SumFunction(lines) = 0
  /\ bookBalance' = [k \in ExpenseAccounts |-> bookBalance[k] + (IF k \in DOMAIN lines THEN lines[k] ELSE 0)]

-----------------------------------------------------------------------------
CreateClaimant(p) ==
  /\ p \notin claimants
  /\ claimants' = claimants \cup {p}
  /\ UNCHANGED <<claims, advances, setOff, repaid, reimbursed, bookBalance>>

CreateClaim(c, p, actor, lines) ==
  /\ p \in claimants /\ claims[c].status = "NONE"
  /\ claims' = [claims EXCEPT ![c] = [status |-> "DRAFT", claimant |-> p, creator |-> actor, lines |-> lines]]
  /\ UNCHANGED <<claimants, advances, setOff, repaid, reimbursed, bookBalance>>

\* Submitting checks the accounts: every line is on an expense or an asset account.
SubmitClaim(c) ==
  /\ claims[c].status = "DRAFT"
  /\ \A i \in DOMAIN claims[c].lines : Chargeable(claims[c].lines[i].account)
  /\ claims' = [claims EXCEPT ![c].status = "SUBMITTED"]
  /\ UNCHANGED <<claimants, advances, setOff, repaid, reimbursed, bookBalance>>

\* Reviewed by another actor than its creator; a mixed-use claim is approved only
\* with the facts that confirm its allocation.
ReviewClaim(c, actor, decision, confirmed) ==
  /\ claims[c].status = "SUBMITTED" /\ claims[c].creator # actor
  /\ decision = "APPROVED" /\ MixedUse(claims[c]) => confirmed
  /\ claims' = [claims EXCEPT ![c].status = decision]
  /\ UNCHANGED <<claimants, advances, setOff, repaid, reimbursed, bookBalance>>

\* expense.claim.post: every line with a business share is debited to its own
\* account, checked as when it was submitted (so to an asset account as well);
\* advances of the claimant are credited first, what is left is owed to him.
PostClaim(c, offset) ==
  LET total == BusinessTotal(claims[c])
      covered == SumFunction(offset)
      used(a) == a \in DOMAIN offset
  IN /\ claims[c].status = "APPROVED" /\ total > 0
     /\ \A i \in DOMAIN claims[c].lines :
          claims[c].lines[i].business > 0 => Chargeable(claims[c].lines[i].account)
     /\ \A a \in DOMAIN offset : /\ advances[a].claimant = claims[c].claimant
                                 /\ offset[a] \in 1 .. Unsettled(a)
     /\ covered <= total
     /\ PostLines([k \in ExpenseAccounts |-> ChargedTo(claims[c], k)
                     - (CASE k = "Advances" -> covered [] k = "Reimbursable" -> total - covered [] OTHER -> 0)])
     /\ setOff' = [x \in DOMAIN setOff |-> IF used(x[1]) /\ x[2] = c THEN offset[x[1]] ELSE setOff[x]]
     /\ advances' = [a \in AdvanceIds |->
          IF used(a) THEN [advances[a] EXCEPT !.status = SettledOr(Unsettled(a) - offset[a])] ELSE advances[a]]
     /\ claims' = [claims EXCEPT ![c].status = IF covered = 0 THEN "POSTED" ELSE SettledOr(total - covered)]
     /\ UNCHANGED <<claimants, repaid, reimbursed>>

IssueAdvance(a, p, amount) ==
  /\ p \in claimants /\ advances[a].status = "NONE"
  /\ PostLines([Advances |-> amount, BankPaid |-> -amount])
  /\ advances' = [advances EXCEPT ![a] = [status |-> "OPEN", claimant |-> p, amount |-> amount]]
  /\ UNCHANGED <<claimants, claims, setOff, repaid, reimbursed>>

RepayAdvance(a, amount) ==
  /\ advances[a].status # "NONE" /\ amount <= Unsettled(a)
  /\ PostLines([BankPaid |-> amount, Advances |-> -amount])
  /\ repaid' = [repaid EXCEPT ![a] = @ + amount]
  /\ advances' = [advances EXCEPT ![a].status = SettledOr(Unsettled(a) - amount)]
  /\ UNCHANGED <<claimants, claims, setOff, reimbursed>>

RecordReimbursement(c, amount) ==
  /\ claims[c].status \in {"POSTED", "PARTIALLY_SETTLED"} /\ amount <= Payable(c)
  /\ PostLines([Reimbursable |-> amount, BankPaid |-> -amount])
  /\ reimbursed' = [reimbursed EXCEPT ![c] = @ + amount]
  /\ claims' = [claims EXCEPT ![c].status = SettledOr(Payable(c) - amount)]
  /\ UNCHANGED <<claimants, advances, setOff, repaid>>

AdvanceAmounts == 1 .. MaxAdvance

ExpenseNext ==
  \/ \E p \in Claimants : CreateClaimant(p)
  \/ \E c \in ClaimIds, p \in Claimants, r \in Reviewers, lines \in ClaimLines : CreateClaim(c, p, r, lines)
  \/ \E c \in ClaimIds : SubmitClaim(c)
  \/ \E c \in ClaimIds, r \in Reviewers, d \in {"APPROVED", "REJECTED"}, ok \in BOOLEAN : ReviewClaim(c, r, d, ok)
  \/ \E c \in ClaimIds, S \in SUBSET AdvanceIds : \E offset \in [S -> AdvanceAmounts] : PostClaim(c, offset)
  \/ \E a \in AdvanceIds, p \in Claimants, n \in AdvanceAmounts : IssueAdvance(a, p, n)
  \/ \E a \in AdvanceIds, n \in AdvanceAmounts : RepayAdvance(a, n)
  \/ \E c \in ClaimIds : \E n \in 1 .. Payable(c) : RecordReimbursement(c, n)

ExpenseSpec == ExpenseInit /\ [][ExpenseNext]_expenseVars

-----------------------------------------------------------------------------
\* expenseOpenItems: what the register lists as still to be settled, floored at
\* zero and left out once the status says it is settled.
OpenClaims == {c \in ClaimIds : claims[c].status \in {"POSTED", "PARTIALLY_SETTLED"} /\ Payable(c) > 0}
OpenAdvances == {a \in AdvanceIds : Unsettled(a) > 0}

\* What posted claims themselves booked as an advance: lines on the advance account,
\* which no open item lists.
BookedClaims == {c \in ClaimIds : claims[c].status \in {"POSTED", "PARTIALLY_SETTLED", "SETTLED"}}
ChargedAdvances == SumFunctionOnSet([c \in ClaimIds |-> ChargedTo(claims[c], "Advances")], BookedClaims)

\* The open items and the accounts tell the same: the liability carries the open
\* claims and the advance account the open advances and nothing but what lines of
\* posted claims put there, though an advance is used up along two ways, by set-off
\* and by repayment, a claim along two as well, and a line may be booked on the very
\* account its claim is set off against.
OpenItemsTieToTheBooks ==
  /\ bookBalance["Advances"] = ChargedAdvances +
       SumFunctionOnSet([a \in AdvanceIds |-> advances[a].amount - UsedOf(a) - repaid[a]], OpenAdvances)
  /\ bookBalance["Reimbursable"] = -SumFunctionOnSet([c \in ClaimIds |-> Payable(c)], OpenClaims)
  /\ \A a \in AdvanceIds : advances[a].status = "SETTLED" <=> advances[a].amount > 0 /\ a \notin OpenAdvances
=============================================================================
