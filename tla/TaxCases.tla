------------------------------- MODULE TaxCases ------------------------------
(***************************************************************************)
(* One personal tax case of an INDIVIDUAL tenant: the BookSets it captures *)
(* (tax-case-service), the sources it imports and the facts proposed from  *)
(* them (tax-case-facts-service), the assessments that make a source READY *)
(* (tax-case-source-readiness-service), the filing snapshots sealed over   *)
(* all of it (tax-case-filing-snapshot-service) and the position worksheet *)
(* derived from a snapshot.  Nothing is locked: books, PAN, facts and      *)
(* sources go on moving, and every status is worked out again when asked.  *)
(* Each action is one write session; replays are modelled in PeriodLedger. *)
(***************************************************************************)
EXTENDS Naturals, Sequences, FiniteSets, Functions

CONSTANTS
  Personal, Proprietorships,   \* the one PERSONAL BookSet and those of kind PROPRIETORSHIP
  Sources, Facts, Keys,        \* sources, fact ids and the record identities within a source
  Payloads,                    \* what a fact says: [income, gross]; income FALSE for a credit or a receipt
  Lines, LineOf(_),            \* journal lines: [bookSet, amount]
  MaxRevision, MaxPan, MaxAssessments, MaxSnapshots   \* bounds

BookSets == {Personal} \cup Proprietorships

ASSUME TaxCasesAssumption ==
  /\ Personal \notin Proprietorships
  /\ {MaxRevision, MaxPan, MaxAssessments, MaxSnapshots} \subseteq Nat
  /\ IsFiniteSet(Facts) /\ IsFiniteSet(Lines)
  /\ \A l \in Lines : LineOf(l).bookSet \in BookSets /\ LineOf(l).amount \in Nat
  /\ \A p \in Payloads : p.income \in BOOLEAN /\ p.gross \in Nat

VARIABLES
  books,       \* lifecycle and ledger revision of each BookSet
  pan,         \* version of the PAN profile
  membership,  \* latest membership version of the case: [version, of]; version 0 before it is created
  sources,     \* those imported
  facts,       \* [status, source, key, payload, corrects]
  allocated,   \* amount of a fact reconciled against a journal line
  assessments, \* of each source, in (created_at, id) order: [bound, event]
  snapshots,   \* candidates sealed, in order
  worksheets   \* of each snapshot, the facts its worksheet counts; Nothing before it is generated

taxCaseVars == <<books, pan, membership, sources, facts, allocated, assessments, snapshots, worksheets>>

Nothing == {"none"}
NoFact == [status |-> "NONE", source |-> "-", key |-> "-", payload |-> "-", corrects |-> "-"]

TaxCaseInit ==
  /\ \E existing \in SUBSET Proprietorships :
       books = [b \in BookSets |->
         [lifecycle |-> IF b \in existing \cup {Personal} THEN "ACTIVE" ELSE "NONE", revision |-> 0]]
  /\ pan = 1
  /\ membership = [version |-> 0, of |-> <<>>]
  /\ sources = {}
  /\ facts = [f \in Facts |-> NoFact]
  /\ allocated = [pair \in Facts \X Lines |-> 0]
  /\ assessments = [s \in Sources |-> <<>>]
  /\ snapshots = <<>>
  /\ worksheets = [i \in 1 .. MaxSnapshots |-> Nothing]

-----------------------------------------------------------------------------
(* The rest of the program: BookSets come, post and are archived, the PAN  *)
(* profile is replaced.                                                    *)

OpenBookSet(b) ==
  /\ books[b].lifecycle = "NONE"
  /\ books' = [books EXCEPT ![b].lifecycle = "ACTIVE"]
  /\ UNCHANGED <<pan, membership, sources, facts, allocated, assessments, snapshots, worksheets>>

ArchiveMember(b) ==
  /\ books[b].lifecycle = "ACTIVE"
  /\ books' = [books EXCEPT ![b].lifecycle = "ARCHIVED"]
  /\ UNCHANGED <<pan, membership, sources, facts, allocated, assessments, snapshots, worksheets>>

PostInto(b) ==
  /\ books[b].lifecycle = "ACTIVE"
  /\ books[b].revision < MaxRevision
  /\ books' = [books EXCEPT ![b].revision = @ + 1]
  /\ UNCHANGED <<pan, membership, sources, facts, allocated, assessments, snapshots, worksheets>>

ReplacePan ==
  /\ pan < MaxPan
  /\ pan' = pan + 1
  /\ UNCHANGED <<books, membership, sources, facts, allocated, assessments, snapshots, worksheets>>

-----------------------------------------------------------------------------
(* Membership.                                                             *)

Eligible == {b \in BookSets : books[b].lifecycle = "ACTIVE"}
Members == DOMAIN membership.of
Captured == [b \in Eligible |-> books[b].revision]

\* The selection must be exactly the eligible BookSets, the PERSONAL one among them.
CreateTaxCase ==
  /\ membership.version = 0
  /\ Personal \in Eligible
  /\ membership' = [version |-> 1, of |-> Captured]
  /\ UNCHANGED <<books, pan, sources, facts, allocated, assessments, snapshots, worksheets>>

\* A refresh that finds the same BookSets at the same revisions keeps the version.
RefreshTaxCaseMembership ==
  /\ membership.version > 0
  /\ Personal \in Eligible
  /\ membership.of # Captured
  /\ membership' = [version |-> membership.version + 1, of |-> Captured]
  /\ UNCHANGED <<books, pan, sources, facts, allocated, assessments, snapshots, worksheets>>

\* What `tax-case status` answers: it compares the BookSets one by one.
CaseStatus ==
  LET added == Eligible \ Members # {}
      archived == \E b \in Members : books[b].lifecycle = "ARCHIVED"
      advanced == \E b \in Members : membership.of[b] # books[b].revision
  IN IF added \/ archived \/ advanced THEN "STALE" ELSE "CURRENT"

-----------------------------------------------------------------------------
(* Sources and facts.                                                      *)

ImportTaxCaseSource(s) ==
  /\ membership.version > 0
  /\ s \notin sources
  /\ sources' = sources \cup {s}
  /\ UNCHANGED <<books, pan, membership, facts, allocated, assessments, snapshots, worksheets>>

Proposed == {f \in Facts : facts[f].status # "NONE"}
FactsOf(s) == {f \in Proposed : facts[f].source = s}
SameRecord(s, k) == {f \in FactsOf(s) : facts[f].key = k}

\* The same payload again answers with the fact there is; another payload for
\* the same record must name a fact it corrects.
ProposeTaxCaseFact(f, s, k, payload) ==
  /\ s \in sources
  /\ facts[f].status = "NONE"
  /\ \A g \in SameRecord(s, k) : facts[g].payload # payload
  /\ \E corrects \in IF SameRecord(s, k) = {} THEN {"-"} ELSE SameRecord(s, k) :
       facts' = [facts EXCEPT ![f] =
         [status |-> "PROPOSED", source |-> s, key |-> k, payload |-> payload, corrects |-> corrects]]
  /\ UNCHANGED <<books, pan, membership, sources, allocated, assessments, snapshots, worksheets>>

DecideTaxCaseFact(f, verdict) ==
  /\ facts[f].status = "PROPOSED"
  /\ verdict \in {"HUMAN_CONFIRMED", "REJECTED"}
  /\ facts' = [facts EXCEPT ![f].status = verdict]
  /\ UNCHANGED <<books, pan, membership, sources, allocated, assessments, snapshots, worksheets>>

OfFact(f) == SumFunctionOnSet([l \in Lines |-> allocated[<<f, l>>]], Lines)
OfLine(l) == SumFunctionOnSet([f \in Facts |-> allocated[<<f, l>>]], Facts)
Gross(f) == facts[f].payload.gross

\* A fact and a line are each used up to their amount, over every source; there is no way back.
RecordTaxCaseReconciliation(f, l, amount) ==
  /\ facts[f].status = "HUMAN_CONFIRMED"
  /\ LineOf(l).bookSet \in Members
  /\ amount \in 1 .. LineOf(l).amount - OfLine(l)
  /\ amount <= Gross(f) - OfFact(f)
  /\ allocated' = [allocated EXCEPT ![<<f, l>>] = @ + amount]
  /\ UNCHANGED <<books, pan, membership, sources, facts, assessments, snapshots, worksheets>>

FactStatus(f) ==
  IF facts[f].status = "REJECTED" THEN "REJECTED"
  ELSE CASE OfFact(f) = 0 -> "UNMATCHED"
         [] OfFact(f) # 0 /\ OfFact(f) = Gross(f) -> "MATCHED"
         [] OfFact(f) # 0 /\ OfFact(f) < Gross(f) -> "PARTIALLY_MATCHED"
         [] OTHER -> "AMOUNT_MISMATCH"

-----------------------------------------------------------------------------
(* Assessments.  An assessment binds the facts of its source, each with its *)
(* latest lifecycle event.  The latest one, by creation time and then by a  *)
(* random id, decides the readiness of the source.                          *)

\* Mutant: a fact nobody decided yet is not bound.
UndecidedLeftOut(s) == [f \in {g \in FactsOf(s) : facts[g].status # "PROPOSED"} |-> facts[f].status]

Bindings(s) == [f \in FactsOf(s) |-> facts[f].status]
Settled(bound) == \A f \in DOMAIN bound : bound[f] \in {"HUMAN_CONFIRMED", "REJECTED"}
Superseded(list, old) == [i \in DOMAIN list |-> IF i = old THEN [list[i] EXCEPT !.event = "SUPERSEDED"] ELSE list[i]]

\* Prepared in the millisecond of the one before it, it may sort before that one.
\* `old` is the assessment it supersedes, whatever was decided of it, or 0.
PrepareTaxCaseSourceAssessment(s, old, tie) ==
  LET list == Superseded(assessments[s], old)
      at == IF tie /\ list # <<>> THEN Len(list) ELSE Len(list) + 1
      new == [bound |-> Bindings(s), event |-> "PREPARED"]
  IN /\ s \in sources
     /\ Len(list) < MaxAssessments
     /\ old \in 0 .. Len(list)
     /\ assessments' = [assessments EXCEPT ![s] = SubSeq(list, 1, at - 1) \o <<new>> \o SubSeq(list, at, Len(list))]
     /\ UNCHANGED <<books, pan, membership, sources, facts, allocated, snapshots, worksheets>>

\* Confirming an assessment of facts needs every one of them decided.
DecideTaxCaseSourceAssessment(s, i, verdict) ==
  /\ i \in DOMAIN assessments[s]
  /\ assessments[s][i].event = "PREPARED"
  /\ assessments[s][i].bound = Bindings(s)
  /\ verdict = "CONFIRMED" => Settled(Bindings(s))
  /\ assessments' = [assessments EXCEPT ![s][i].event = verdict]
  /\ UNCHANGED <<books, pan, membership, sources, facts, allocated, snapshots, worksheets>>

SourceReadiness(s) ==
  LET list == assessments[s]
      latest == list[Len(list)]
  IN IF list = <<>> THEN "INCOMPLETE"
     ELSE CASE latest.event = "REJECTED" -> "REJECTED"
            [] latest.event = "CONFIRMED" -> IF latest.bound = Bindings(s) THEN "READY" ELSE "STALE"
            [] OTHER -> "INCOMPLETE"

-----------------------------------------------------------------------------
(* Filing snapshots.                                                       *)

\* What the hash of a snapshot covers.
BuildCandidate ==
  [pan |-> pan, membership |-> membership,
   revisions |-> [b \in Members |-> books[b].revision],
   sources |-> [s \in sources |-> SourceReadiness(s)],
   facts |-> [f \in Proposed |-> <<facts[f], OfFact(f)>>],
   reconciliations |-> allocated]

Used == {l \in Lines : OfLine(l) > 0}

HardBlockers ==
  {b \in {"BOOKSET_LINEAGE_INCONSISTENT"} : \E m \in Members : books[m].lifecycle # "ACTIVE"} \cup
  {b \in {"RECONCILIATION_BOOKSET_LINEAGE_INCONSISTENT"} : \E l \in Used : LineOf(l).bookSet \notin Members}

\* Mutant: a fact matched in part passes.
PartialMatchesPass ==
  {b \in {"SOURCE_NOT_READY"} : \E s \in sources : SourceReadiness(s) # "READY"} \cup
  {b \in {"FACT_RECONCILIATION_INCOMPLETE"} : \E f \in Proposed : FactStatus(f) = "UNMATCHED"}

SoftBlockers ==
  {b \in {"MEMBERSHIP_DRIFT"} : Members # Eligible} \cup
  {b \in {"LEDGER_REVISION_DRIFT"} : \E m \in Members : books[m].revision # membership.of[m]} \cup
  {b \in {"SOURCE_NOT_READY"} : \E s \in sources : SourceReadiness(s) # "READY"} \cup
  {b \in {"FACT_PROPOSED"} : \E f \in Proposed : facts[f].status = "PROPOSED"} \cup
  {b \in {"FACT_RECONCILIATION_INCOMPLETE"} :
     \E f \in Proposed : facts[f].status = "HUMAN_CONFIRMED" /\ FactStatus(f) # "MATCHED"}

Blockers == HardBlockers \cup SoftBlockers

\* The caller names the hash of the preview it saw; that preview must still be the one.
SealTaxCaseFilingSnapshot ==
  /\ membership.version > 0
  /\ Blockers = {}
  /\ Len(snapshots) < MaxSnapshots
  /\ snapshots' = Append(snapshots, BuildCandidate)
  /\ UNCHANGED <<books, pan, membership, sources, facts, allocated, assessments, worksheets>>

SnapshotStatus(i) ==
  IF HardBlockers # {} THEN "BLOCKED"
  ELSE IF snapshots[i] = BuildCandidate /\ SoftBlockers = {} THEN "CURRENT" ELSE "STALE"

\* The worksheet adds up the confirmed income facts of the snapshot, a fact
\* and the confirmed fact that corrects it both.  A second one from the same
\* bindings is the first.
GenerateTaxCasePositionWorksheet(i) ==
  /\ i \in DOMAIN snapshots
  /\ SnapshotStatus(i) = "CURRENT"
  /\ worksheets' = [worksheets EXCEPT ![i] =
       {f \in DOMAIN snapshots[i].facts :
          snapshots[i].facts[f][1].status = "HUMAN_CONFIRMED" /\ snapshots[i].facts[f][1].payload.income}]
  /\ UNCHANGED <<books, pan, membership, sources, facts, allocated, assessments, snapshots>>

Generated == {i \in DOMAIN snapshots : worksheets[i] # Nothing}
WorksheetStatus(i) == SnapshotStatus(i)

-----------------------------------------------------------------------------
TaxCaseNext ==
  \/ \E b \in Proprietorships : OpenBookSet(b)
  \/ \E b \in BookSets : ArchiveMember(b) \/ PostInto(b)
  \/ ReplacePan
  \/ CreateTaxCase
  \/ RefreshTaxCaseMembership
  \/ \E s \in Sources : ImportTaxCaseSource(s)
  \/ \E f \in Facts, s \in Sources, k \in Keys, p \in Payloads : ProposeTaxCaseFact(f, s, k, p)
  \/ \E f \in Facts, v \in {"HUMAN_CONFIRMED", "REJECTED"} : DecideTaxCaseFact(f, v)
  \/ \E f \in Facts, l \in Lines : \E amount \in 1 .. LineOf(l).amount : RecordTaxCaseReconciliation(f, l, amount)
  \/ \E s \in Sources, old \in 0 .. MaxAssessments, tie \in BOOLEAN : PrepareTaxCaseSourceAssessment(s, old, tie)
  \/ \E s \in Sources, i \in 1 .. MaxAssessments, v \in {"CONFIRMED", "REJECTED"} : DecideTaxCaseSourceAssessment(s, i, v)
  \/ SealTaxCaseFilingSnapshot
  \/ \E i \in 1 .. MaxSnapshots : GenerateTaxCasePositionWorksheet(i)

TaxCaseSpec == TaxCaseInit /\ [][TaxCaseNext]_taxCaseVars

-----------------------------------------------------------------------------
(* A READY source has no fact a human has not decided, however often facts *)
(* were proposed and assessments superseded after it was confirmed: the    *)
(* readiness is worked out from bindings that carry each fact's event.     *)
ReadySourceIsSettled ==
  \A s \in sources : SourceReadiness(s) = "READY" => \A f \in FactsOf(s) : facts[f].status # "PROPOSED"

\* What facts are proposed, what is matched and where.
FactsIncome(of) == SumFunctionOnSet([f \in of |-> Gross(f)], of)
MatchedInMembers(of) ==
  LET ofCase == {l \in Lines : LineOf(l).bookSet \in Members}
  IN SumFunctionOnSet([l \in ofCase |-> SumFunctionOnSet([f \in of |-> allocated[<<f, l>>]], of)], ofCase)

(* While a worksheet is CURRENT its personal income is, to the last unit,  *)
(* money found on journal lines of the BookSets the case captured, no line *)
(* used beyond its amount, and the case itself is CURRENT: what moved since *)
(* the snapshot was sealed (books, PAN, facts, sources) has been seen.      *)
WorksheetsAreCoveredByTheBooks ==
  \A i \in Generated : WorksheetStatus(i) = "CURRENT" =>
    /\ FactsIncome(worksheets[i]) = MatchedInMembers(worksheets[i])
    /\ \A l \in Lines : OfLine(l) <= LineOf(l).amount
    /\ CaseStatus = "CURRENT"
=============================================================================
