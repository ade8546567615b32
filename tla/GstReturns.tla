------------------------------ MODULE GstReturns -----------------------------
(***************************************************************************)
(* GST registrations and party profiles, the tax snapshot of a posted      *)
(* invoice, its outward facts, and the return built on them: prepared as a *)
(* numbered frozen snapshot, validated, exported as a review pack.  Every  *)
(* command is one write session, hence one step.                           *)
(***************************************************************************)
EXTENDS Integers, Sequences, FiniteSets, SequencesExt

CONSTANTS
  Registrations, Profiles,  \* ids of rows that may be created
  RegistrationPayloads,     \* [gstin, state, status, from, to]; a late date stands for an open end
  ProfilePayloads,          \* [party, state, local, status, from, to]
  Invoices,                 \* ids of sales invoices
  InvoiceOf(_),             \* an invoice: [bookSet, party, date, amount, rate], rate in basis points
  Periods,                  \* tax periods, [from, to]
  Dates,                    \* dates a command may run on
  MaxVersions               \* bound: snapshots of one return

Absent == "ABSENT"

ASSUME GstAssumption == \A i \in Invoices : InvoiceOf(i).bookSet # Absent

VARIABLES
  registrations, profiles,  \* the rows by id, or NoRow
  supplies,                 \* sales_invoices: status and tax snapshot
  facts,                    \* gst_outward_facts of an invoice: NONE, without line facts, or with them
  returns,                  \* gst_returns by registration and period, with their snapshots
  observed                  \* returns with a portal observation

gstVars == <<registrations, profiles, supplies, facts, returns, observed>>

NoRow == [status |-> Absent]
NoReturn == [bookSet |-> Absent, snapshots |-> <<>>]
Unposted == [status |-> "DRAFT", registration |-> Absent, tax |-> 0]

GstInit ==
  /\ registrations = [r \in Registrations |-> NoRow]
  /\ profiles = [p \in Profiles |-> NoRow]
  /\ supplies = [i \in Invoices |-> Unposted]
  /\ facts = [i \in Invoices |-> "NONE"]
  /\ returns = [r \in Registrations \X Periods |-> NoReturn]
  /\ observed = {}

Covers(row, day) == row.from <= day /\ day <= row.to
Overlap(a, b) == a.from <= b.to /\ b.from <= a.to
Rows(table) == {table[k] : k \in {j \in DOMAIN table : table[j].status # Absent}}
Live(table, day) == {k \in DOMAIN table : table[k].status = "ACTIVE" /\ Covers(table[k], day)}

-----------------------------------------------------------------------------
(* Two rows of one GSTIN, or of one party, may not overlap; rows of        *)
(* different GSTINs may.                                                   *)
CreateRegistration(r, p) ==
  /\ registrations[r].status = Absent
  /\ p.from <= p.to
  /\ \A row \in Rows(registrations) : row.gstin = p.gstin => ~Overlap(row, p)
  /\ registrations' = [registrations EXCEPT ![r] = p]
  /\ UNCHANGED <<profiles, supplies, facts, returns, observed>>

CreateProfile(k, p) ==
  /\ profiles[k].status = Absent
  /\ p.from <= p.to
  /\ \A row \in Rows(profiles) : row.party = p.party => ~Overlap(row, p)
  /\ profiles' = [profiles EXCEPT ![k] = p]
  /\ UNCHANGED <<registrations, supplies, facts, returns, observed>>

HalfUpTax(amount, bps) == (2 * amount * bps + 10000) \div 20000

\* The components of the tax of one line; a component of zero is not stored.
Components(amount, bps, intra) ==
  LET total == HalfUpTax(amount, bps)
      central == HalfUpTax(amount, bps \div 2)
  IN {c \in IF intra THEN {[component |-> "CGST", tax |-> central],
                           [component |-> "LOCAL", tax |-> total - central]}
                     ELSE {[component |-> "IGST", tax |-> total]} : c.tax > 0}

LineTax(amount, bps, intra) == FoldSet(LAMBDA c, n : c.tax + n, 0, Components(amount, bps, intra))

\* Posting under GST: exactly one registration and one party profile apply, of
\* those the caller selects or of all, and only within one state a local
\* component is named.
PostTaxed(i, selected, local) ==
  LET inv == InvoiceOf(i)
      own == Live(registrations, inv.date) \cap selected
      theirs == {k \in Live(profiles, inv.date) : profiles[k].party = inv.party}
  IN /\ supplies[i].status = "DRAFT"
     /\ Cardinality(own) = 1 /\ Cardinality(theirs) = 1
     /\ LET r == CHOOSE r \in own : TRUE
            k == CHOOSE k \in theirs : TRUE
            intra == registrations[r].state = profiles[k].state
        IN /\ intra <=> (local \/ profiles[k].local)
           /\ supplies' = [supplies EXCEPT ![i] =
                [status |-> "POSTED", registration |-> r,
                 tax |-> LineTax(inv.amount, inv.rate, intra)]]
  /\ UNCHANGED <<registrations, profiles, facts, returns, observed>>

\* A posting without a GST block leaves no tax snapshot.
PostUntaxed(i) ==
  /\ supplies[i].status = "DRAFT"
  /\ supplies' = [supplies EXCEPT ![i].status = "POSTED"]
  /\ UNCHANGED <<registrations, profiles, facts, returns, observed>>

\* A receipt: the invoice is no longer POSTED but PARTIALLY_PAID or PAID.
Receive(i, status) ==
  /\ supplies[i].status \in {"POSTED", "PARTIALLY_PAID"}
  /\ status \in {"PARTIALLY_PAID", "PAID"}
  /\ supplies' = [supplies EXCEPT ![i].status = status]
  /\ UNCHANGED <<registrations, profiles, facts, returns, observed>>

\* Once per invoice, and only while it is exactly POSTED; line facts are optional.
RecordOutwardFacts(i, lines) ==
  /\ supplies[i].status = "POSTED"
  /\ facts[i] = "NONE"
  /\ facts' = [facts EXCEPT ![i] = IF lines THEN "LINES" ELSE "BARE"]
  /\ UNCHANGED <<registrations, profiles, supplies, returns, observed>>

-----------------------------------------------------------------------------
\* What a return is made of: the invoices of the BookSet in the period whose
\* status is POSTED, whatever registration they were posted under.
Sources(b, period) ==
  {i \in Invoices : /\ InvoiceOf(i).bookSet = b /\ supplies[i].status = "POSTED"
                    /\ Covers(period, InvoiceOf(i).date)}

TotalTax(ids) == FoldSet(LAMBDA i, n : supplies[i].tax + n, 0, ids)

\* The row of a registration and period belongs to the BookSet that made it
\* first: the unique index does not name the BookSet.
PrepareReturn(b, r, period) ==
  LET row == returns[<<r, period>>] IN
  /\ registrations[r].status = "ACTIVE"
  /\ row.bookSet \in {Absent, b}
  /\ Len(row.snapshots) < MaxVersions
  /\ returns' = [returns EXCEPT ![<<r, period>>] =
       [bookSet |-> b,
        snapshots |-> Append(row.snapshots, [ids |-> Sources(b, period),
          tax |-> TotalTax(Sources(b, period)), readiness |-> "NONE", exported |-> FALSE])]]
  /\ UNCHANGED <<registrations, profiles, supplies, facts, observed>>

\* Customers without a profile that covers the day; its status is not asked.
Unprofiled(ids, day) ==
  {i \in ids : \A row \in Rows(profiles) : Covers(row, day) => row.party # InvoiceOf(i).party}

\* The verdict on frozen sources of which some lack facts, or a profile.
Verdict(r, missing, unknown) ==
  IF registrations[r].status # "ACTIVE" \/ missing # {} THEN "BLOCKED"
  ELSE IF unknown # {} THEN "REVIEW_REQUIRED" ELSE "READY"

\* Mutant: an invoice with facts but without line facts passes.
AnyFacts(r, snap, day) ==
  LET missing == {i \in snap.ids : facts[i] = "NONE"}
  IN Verdict(r, missing, Unprofiled(snap.ids \ missing, day))

\* The readiness of the frozen sources, by the facts and profiles of today; an
\* invoice without facts is not looked at any further.
Readiness(r, snap, day) ==
  Verdict(r, {i \in snap.ids : facts[i] # "LINES"},
             Unprofiled({i \in snap.ids : facts[i] # "NONE"}, day))

\* Only the first validation of a snapshot is stored; a later one is answered
\* and forgotten.
ValidateReturn(r, period, v, day) ==
  LET snap == returns[<<r, period>>].snapshots[v] IN
  /\ v \in DOMAIN returns[<<r, period>>].snapshots
  /\ snap.readiness = "NONE"
  /\ returns' = [returns EXCEPT ![<<r, period>>].snapshots[v].readiness = Readiness(r, snap, day)]
  /\ UNCHANGED <<registrations, profiles, supplies, facts, observed>>

\* A pack carries the stored readiness, whatever it is; one pack per validation.
ExportReviewPack(r, period, v) ==
  LET snap == returns[<<r, period>>].snapshots[v] IN
  /\ v \in DOMAIN returns[<<r, period>>].snapshots
  /\ snap.readiness # "NONE" /\ ~snap.exported
  /\ returns' = [returns EXCEPT ![<<r, period>>].snapshots[v].exported = TRUE]
  /\ UNCHANGED <<registrations, profiles, supplies, facts, observed>>

\* An observation of the portal, in any order; submission needs its evidence.
RecordObservation(r, period, needsEvidence, evidence) ==
  /\ returns[<<r, period>>].bookSet # Absent
  /\ needsEvidence => evidence
  /\ observed' = observed \cup {<<r, period>>}
  /\ UNCHANGED <<registrations, profiles, supplies, facts, returns>>

\* The register of outward supplies: every posted invoice with a tax snapshot under
\* the GSTIN, paid or not.
GstRegister(b, r, period) ==
  {i \in Invoices : /\ InvoiceOf(i).bookSet = b /\ supplies[i].status # "DRAFT"
                    /\ supplies[i].registration # Absent
                    /\ registrations[supplies[i].registration].gstin = registrations[r].gstin
                    /\ Covers(period, InvoiceOf(i).date)}

\* What gst.return.readiness-report shows: the stored readiness of the latest snapshot.
ReadinessReport(r, period) ==
  LET snaps == returns[<<r, period>>].snapshots
  IN IF snaps = <<>> THEN "NONE" ELSE Last(snaps).readiness

GstNext ==
  \/ \E r \in Registrations, p \in RegistrationPayloads : CreateRegistration(r, p)
  \/ \E k \in Profiles, p \in ProfilePayloads : CreateProfile(k, p)
  \/ \E i \in Invoices, S \in {Registrations} \cup {{r} : r \in Registrations}, l \in BOOLEAN :
       PostTaxed(i, S, l)
  \/ \E i \in Invoices : PostUntaxed(i)
  \/ \E i \in Invoices, st \in {"PARTIALLY_PAID", "PAID"} : Receive(i, st)
  \/ \E i \in Invoices, l \in BOOLEAN : RecordOutwardFacts(i, l)
  \/ \E i \in Invoices, r \in Registrations, t \in Periods : PrepareReturn(InvoiceOf(i).bookSet, r, t)
  \/ \E r \in Registrations, t \in Periods, v \in 1 .. MaxVersions :
       \/ \E d \in Dates : ValidateReturn(r, t, v, d)
       \/ ExportReviewPack(r, t, v)
  \/ \E r \in Registrations, t \in Periods, n, e \in BOOLEAN : RecordObservation(r, t, n, e)

GstSpec == GstInit /\ [][GstNext]_gstVars

-----------------------------------------------------------------------------
(* Properties. *)

\* A readiness of READY that a pack or the report still shows, however many
\* facts, receipts, profiles and snapshots came after the one validation that
\* was stored, has line facts behind every invoice of its frozen sources.
ShownReadyIsBacked ==
  \A key \in DOMAIN returns :
    /\ \A v \in DOMAIN returns[key].snapshots : LET snap == returns[key].snapshots[v] IN
         snap.exported /\ snap.readiness = "READY" => \A i \in snap.ids : facts[i] = "LINES"
    /\ ReadinessReport(key[1], key[2]) = "READY" =>
         \A i \in Last(returns[key].snapshots).ids : facts[i] = "LINES"

\* gst-compliance-matrix: for a GSTR-1, the statement of outward supplies, "books and
\* outward-supply documents reconcile".  So a snapshot that is prepared holds every
\* supply the register of the same GSTIN and period shows at that moment, however
\* many receipts came between posting and preparing.
PreparedReturnsTieToTheRegister ==
  [][\A key \in DOMAIN returns : LET snaps == returns'[key].snapshots IN
       Len(snaps) > Len(returns[key].snapshots) =>
         GstRegister(returns'[key].bookSet, key[1], key[2]) \subseteq Last(snaps).ids]_gstVars
=============================================================================
