-------------------------- MODULE FiscalYearRollover --------------------------
(***************************************************************************)
(* The yearly carry-forward of one BookSet: the CA close packs exported    *)
(* for the financial year and the rollover that is finalized from a        *)
(* preview, a closed year and a close pack.                                *)
(*                                                                         *)
(* Nothing here is ever updated or deleted.  Whether a finalized rollover  *)
(* still stands is derived on every read: it is FINALIZED while the ledger *)
(* revision, the state of the year and the latest pack are those it was    *)
(* finalized with, and STALE otherwise.                                    *)
(***************************************************************************)
EXTENDS PeriodLedger

CONSTANTS
  FY,        \* the period of the financial year
  PackIds    \* random ids of close_pack_manifests rows, compared by ORDER BY

ASSUME YearAssumption == FY \in Periods /\ PackIds \subseteq Nat

VARIABLES
  packs,      \* close_pack_manifests rows of the year in the order of their commits
  rollovers,  \* fiscal_year_rollovers rows of the year
  previews    \* rollover previews callers hold

yearVars == <<packs, rollovers, previews>>
allVars == <<vars, yearVars>>

-----------------------------------------------------------------------------
(* What a read of the year finds                                           *)

\* periodState: the latest event of the year, or none.
LatestEvents(p) == {events[i] : i \in {k \in EventsOf(p) : IsLatest(k)}}
PeriodState == [status |-> Status(FY), events |-> LatestEvents(FY)]

\* The plan hash of the latest event, or the hash of "OPEN".
PeriodCloseState == {e.plan : e \in LatestEvents(FY)}

\* closePackState: ORDER BY created_at DESC, id DESC LIMIT 1
LatestPacks == {packs[i] : i \in {k \in DOMAIN packs :
                  \A j \in DOMAIN packs : j = k \/ Precedes(packs[j], packs[k])}}

\* The preview hash covers exactly these fields, so the preview stands for it.
RolloverPreview == [revision |-> revision, period |-> PeriodState,
                    packs |-> LatestPacks, ledger |-> LedgerSnapshot(FY)]

\* finalizeGuard, past the comparison with the supplied preview and pack.
BoundToClosedYear(pack) ==
  /\ ReadClosed(FY)
  /\ LatestPacks = {pack}
  /\ pack.label = "CLOSED"
  /\ pack.state = PeriodCloseState

\* Mutant: the ledger revision is not compared.
RolloverStatusUnrevised(row) ==
  IF ReadClosed(FY) /\ LatestPacks = {row.pack} /\ row.pack.label = "CLOSED"
  THEN "FINALIZED" ELSE "STALE"

\* currentStatus
RolloverStatus(row) ==
  IF /\ revision = row.revision
     /\ ReadClosed(FY)
     /\ LatestPacks = {row.pack} /\ row.pack.label = "CLOSED"
  THEN "FINALIZED" ELSE "STALE"

-----------------------------------------------------------------------------
(* Commands                                                                *)

\* report.close-pack.export of the year, in whatever state the year is.  Packs
\* are only ordered among themselves, so their clock is told from the last one.
ExportPack(r, id, step) ==
  /\ lifecycle = "ACTIVE"
  /\ id \notin {packs[i].id : i \in DOMAIN packs}
  /\ LET at == IF packs = <<>> THEN 0 ELSE packs[Len(packs)].at
     IN  packs' = Append(packs, [id |-> id, at |-> at + step, label |-> Status(FY),
                                 state |-> PeriodCloseState, ledger |-> LedgerSnapshot(FY),
                                 checklist |-> Checklist(FY)])
  /\ Finish(r, [op |-> "report.close-pack.export"], id)
  /\ UNCHANGED <<lifecycle, ledgerVars, events, clock, unresolved, plans, rollovers, previews>>

PreviewRollover ==
  /\ lifecycle = "ACTIVE"
  /\ \E kept \in SUBSET previews : /\ Cardinality(kept) < MaxPlans
                                  /\ previews' = kept \cup {RolloverPreview}
  /\ UNCHANGED <<vars, packs, rollovers>>

\* Mutant: the supplied preview is taken as it is.
FinalizeRolloverUnchecked(r, preview, pack) ==
  /\ lifecycle = "ACTIVE"
  /\ rollovers = {}
  /\ BoundToClosedYear(pack)
  /\ rollovers' = {[revision |-> revision, pack |-> pack, ledger |-> preview.ledger]}
  /\ Finish(r, [op |-> "fiscal-year.rollover.finalize", preview |-> preview], "FINALIZED")
  /\ UNCHANGED <<lifecycle, ledgerVars, events, clock, unresolved, plans, packs, previews>>

\* fiscal-year.rollover.finalize; a year takes one rollover, ever.
FinalizeRollover(r, preview, pack) ==
  /\ lifecycle = "ACTIVE"
  /\ rollovers = {}                        \* FISCAL_YEAR_ROLLOVER_ALREADY_FINALIZED
  /\ preview = RolloverPreview             \* ..._LEDGER_REVISION_CHANGED, ..._PREVIEW_STALE
  /\ BoundToClosedYear(pack)               \* ..._PERIOD_NOT_CLOSED, ..._CLOSE_PACK_*
  /\ rollovers' = {[revision |-> revision, pack |-> pack, ledger |-> preview.ledger]}
  /\ Finish(r, [op |-> "fiscal-year.rollover.finalize", preview |-> preview], "FINALIZED")
  /\ UNCHANGED <<lifecycle, ledgerVars, events, clock, unresolved, plans, packs, previews>>

-----------------------------------------------------------------------------
YearInit == Init /\ packs = <<>> /\ rollovers = {} /\ previews = {}

YearNext ==
  \/ Next /\ UNCHANGED yearVars
  \/ \E r \in Requests, id \in PackIds, step \in ClockSteps : ExportPack(r, id, step)
  \/ PreviewRollover
  \/ \E r \in Requests, preview \in previews, i \in DOMAIN packs :
        FinalizeRollover(r, preview, packs[i])

YearSpec == YearInit /\ [][YearNext]_allVars

-----------------------------------------------------------------------------
(* What holds                                                              *)

\* The state is well formed.
YearTypeOK ==
  /\ TypeOK
  /\ \A i, k \in DOMAIN packs : packs[i].id = packs[k].id => i = k
  /\ \A i \in DOMAIN packs : packs[i].id \in PackIds /\ packs[i].at \in Int
  /\ Cardinality(rollovers) <= 1
  /\ \A row \in rollovers : row.revision \in 0 .. revision

\* A rollover that a read reports as FINALIZED, and that export therefore hands
\* out, shows the ledger as it is now, although no read compares the two: equal
\* revisions vouch for it.
FinalizedIsCurrent ==
  \A row \in rollovers : RolloverStatus(row) = "FINALIZED" => row.ledger = LedgerSnapshot(FY)

\* The year's profit and loss is one number: the one confirmed at the close, the
\* one in the CA pack and the one in the rollover are the same.
OneResultForTheYear ==
  \A row \in rollovers :
    /\ row.pack.ledger.within = row.ledger.within
    /\ \E i \in EventsOf(FY) : events[i].plan.ledger.within = row.ledger.within

\* A STALE rollover can be replaced: whoever holds the current preview of the
\* CLOSED year, a close pack bound to it and a fresh request id can finalize
\* ("a new requestId after any stale/reopened change").
StaleCanBeRenewed ==
  \A row \in rollovers, i \in DOMAIN packs, r \in Requests :
    /\ lifecycle = "ACTIVE"
    /\ RolloverStatus(row) = "STALE"
    /\ RolloverPreview \in previews
    /\ BoundToClosedYear(packs[i])
    /\ ~Delivered(r)
    => ENABLED FinalizeRollover(r, RolloverPreview, packs[i])
=============================================================================
