SPECIFICATION BooksSpec
CONSTANTS
 Sales = {s1}
 Bills = {b1}
 BookDates = {1, 2}
 Payloads <- MCPayloads
 BookRate <- MCBookRate
 Settlements <- MCSettlements
 CloseRates <- MCCloseRates
 Withholdings = {0}
 MaxDeposit = 2
 Registrations = {r1}
 Profiles = {k1}
 RegistrationPayloads <- MCRegistrations
 ProfilePayloads <- MCProfiles
 Invoices = {1, 2}
 InvoiceOf <- MCInvoice
 Periods <- MCTaxPeriods
 Dates = {1, 2}
 MaxVersions = 2
 Employees = {1, 2}
 Versions <- MCVersions
 Rules <- MCRules
 EmployeeClaims = {c1}
 Runs = {r1, r2}
 PayPeriods <- MCPayPeriods
 PayInputs <- MCPayInputs
 Remittances = {m1}
 MaxPayment = 2
 MaxRows = 2
 MaxBatches = 2
 Claimants = {p1}
 Reviewers = {u1, u2}
 ClaimIds = {k1, k2}
 AdvanceIds = {a1, a2}
 ClaimLines <- MCClaimLines
 MaxAdvance = 2
PROPERTY SettlementClearsTheDocument
CHECK_DEADLOCK FALSE
