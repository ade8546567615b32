----------------------- MODULE FiscalYearRolloverProofs -----------------------
(***************************************************************************)
(* What FiscalYearRollover guarantees for every set of constants: equal    *)
(* ledger revisions vouch for equal balances, because the trigger that     *)
(* advances the revision fires in the transaction that posts the journal.  *)
(* The result of the year is one number because no service posts into a    *)
(* year it reads as closed, and pack and rollover both name the close that *)
(* is read as the latest; that holds on any clock.                         *)
(***************************************************************************)
EXTENDS FiscalYearRollover, PeriodLedgerProofs, FiniteSetTheorems

\* No row is ahead of the ledger, and a row at its revision shows it.
RevisionTells ==
  /\ revision \in Nat
  /\ \A row \in rollovers : /\ row.revision \in Nat
                            /\ row.revision <= revision
                            /\ row.revision = revision => row.ledger = LedgerSnapshot(FY)

\* A step of the dated ledger leaves the journals alone or advances the revision.
LEMMA RevisionStep ==
  ASSUME [Next]_vars
  PROVE  UNCHANGED ledgerVars \/ revision' = revision + 1
<1>1. CASE UNCHANGED vars
  BY <1>1 DEF vars, ledgerVars
<1>2. ASSUME NEW r, NEW d, NEW a, NEW id, PostJournal(r, d, a, id)
      PROVE  revision' = revision + 1
  BY <1>2 DEF PostJournal, InsertJournal
<1>3. ASSUME NEW r, NEW plan, NEW override, NEW id, NEW step,
             ClosePeriod(r, plan, override, id, step) \/ ReopenPeriod(r, plan, id, step)
      PROVE  UNCHANGED ledgerVars
  BY <1>3 DEF ClosePeriod, ReopenPeriod, RecordEvent
<1>4. ASSUME NEW p, NEW op, Preview(op, p)
      PROVE  UNCHANGED ledgerVars
  BY <1>4 DEF Preview
<1>5. ASSUME NEW r, ArchiveBookSet(r)
      PROVE  UNCHANGED ledgerVars
  BY <1>5 DEF ArchiveBookSet
<1>6. ASSUME NEW r, NEW c, Replay(r, c)
      PROVE  UNCHANGED ledgerVars
  BY <1>6 DEF Replay
<1>7. ASSUME NEW f, MoveItem(f)
      PROVE  UNCHANGED ledgerVars
  BY <1>7 DEF MoveItem
<1> QED BY <1>1, <1>2, <1>3, <1>4, <1>5, <1>6, <1>7 DEF Next, LedgerCommand

\* What the reports show depends on the journals alone.
LEMMA SnapshotStep ==
  ASSUME UNCHANGED journals
  PROVE  LedgerSnapshot(FY)' = LedgerSnapshot(FY)
<1>1. JournalsUpTo(FY.end)' = JournalsUpTo(FY.end) /\ JournalsIn(FY)' = JournalsIn(FY)
  BY DEF JournalsUpTo, JournalsIn
<1> QED BY <1>1 DEF LedgerSnapshot

LEMMA RevisionTellsStep ==
  ASSUME RevisionTells, [YearNext]_allVars
  PROVE  RevisionTells'
<1>1. ASSUME UNCHANGED ledgerVars, UNCHANGED rollovers
      PROVE  RevisionTells'
  <2>1. LedgerSnapshot(FY)' = LedgerSnapshot(FY) /\ revision' = revision
    BY <1>1, SnapshotStep DEF ledgerVars
  <2> QED BY <1>1, <2>1 DEF RevisionTells
<1>2. CASE UNCHANGED allVars
  BY <1>1, <1>2 DEF allVars, vars, ledgerVars, yearVars
<1>3. CASE [Next]_vars /\ UNCHANGED yearVars
  <2>1. UNCHANGED rollovers
    BY <1>3 DEF yearVars
  <2>2. CASE UNCHANGED ledgerVars
    BY <1>1, <2>1, <2>2
  <2>3. CASE revision' = revision + 1
    <3>1. revision \in Nat /\ \A row \in rollovers : row.revision \in Nat /\ row.revision <= revision
      BY DEF RevisionTells
    <3>2. \A row \in rollovers : row.revision <= revision' /\ row.revision # revision'
      BY <2>3, <3>1
    <3> QED BY <2>1, <2>3, <3>1, <3>2 DEF RevisionTells
  <2> QED BY <1>3, <2>2, <2>3, RevisionStep
<1>4. ASSUME NEW r, NEW id, NEW step, ExportPack(r, id, step)
      PROVE  RevisionTells'
  BY <1>1, <1>4 DEF ExportPack
<1>5. CASE PreviewRollover
  BY <1>1, <1>5 DEF PreviewRollover, vars, ledgerVars
<1>6. ASSUME NEW r, NEW preview, NEW pack, FinalizeRollover(r, preview, pack)
      PROVE  RevisionTells'
  <2> DEFINE row == [revision |-> revision, pack |-> pack, ledger |-> preview.ledger]
  <2>1. rollovers' = {row} /\ UNCHANGED <<journals, revision>>
    BY <1>6 DEF FinalizeRollover, ledgerVars
  <2>2. preview.ledger = LedgerSnapshot(FY)
    BY <1>6 DEF FinalizeRollover, RolloverPreview
  <2>3. row.revision = revision /\ row.ledger = LedgerSnapshot(FY)'
    BY <2>1, <2>2, SnapshotStep
  <2> QED BY <2>1, <2>3 DEF RevisionTells
<1> QED BY <1>2, <1>3, <1>4, <1>5, <1>6 DEF YearNext

\* A rollover that is read as FINALIZED carries forward the ledger as it is.
THEOREM FinalizedRolloversAreCurrent == YearSpec => []FinalizedIsCurrent
<1>1. YearInit => RevisionTells
  BY DEF YearInit, Init, RevisionTells
<1>2. RevisionTells /\ [YearNext]_allVars => RevisionTells'
  BY RevisionTellsStep
<1>3. RevisionTells => FinalizedIsCurrent
  BY DEF RevisionTells, FinalizedIsCurrent, RolloverStatus
<1> QED BY <1>1, <1>2, <1>3, PTL DEF YearSpec

-----------------------------------------------------------------------------
(* Types                                                                   *)

\* What exporting and finalizing do to the dated ledger: a record of the request.
OnlyRecorded ==
  /\ UNCHANGED <<lifecycle, ledgerVars, events, clock, unresolved, plans>>
  /\ \E r \in Requests : \E command, result : Finish(r, command, result)

LEMMA RecordedTypes ==
  ASSUME TypeOK, OnlyRecorded
  PROVE  TypeOK'
<1>1. PICK r \in Requests : \E command, result : Finish(r, command, result)
  BY DEF OnlyRecorded
<1>2. \A x \in idem' \cup answers' : x.request \in Requests
  BY <1>1 DEF Finish, Answer, TypeOK
<1> QED BY <1>2 DEF OnlyRecorded, ledgerVars, TypeOK

\* Rows of packs, as a sequence.
PackRows == packs \in Seq({packs[i] : i \in DOMAIN packs})

PackRow(id, step) ==
  LET at == IF packs = <<>> THEN 0 ELSE packs[Len(packs)].at
  IN  [id |-> id, at |-> at + step, label |-> Status(FY), state |-> PeriodCloseState,
       ledger |-> LedgerSnapshot(FY), checklist |-> Checklist(FY)]

\* The kinds of steps.
Exported == /\ OnlyRecorded /\ UNCHANGED <<rollovers, previews>>
            /\ \E id \in PackIds, step \in ClockSteps :
                 /\ id \notin {packs[i].id : i \in DOMAIN packs}
                 /\ packs' = Append(packs, PackRow(id, step))

Finalized == /\ OnlyRecorded /\ UNCHANGED <<packs, previews>>
             /\ rollovers = {}
             /\ \E i \in DOMAIN packs :
                  /\ BoundToClosedYear(packs[i])
                  /\ rollovers' = {[revision |-> revision, pack |-> packs[i],
                                    ledger |-> LedgerSnapshot(FY)]}

LEMMA YearStepCases ==
  ASSUME [YearNext]_allVars
  PROVE  ([Next]_vars /\ UNCHANGED <<packs, rollovers>>) \/ Exported \/ Finalized
<1>1. ASSUME NEW r \in Requests, NEW id \in PackIds, NEW step \in ClockSteps,
             ExportPack(r, id, step)
      PROVE  Exported
  <2>1. OnlyRecorded
    BY <1>1 DEF ExportPack, OnlyRecorded
  <2> QED BY <1>1, <2>1 DEF ExportPack, Exported, PackRow
<1>2. CASE PreviewRollover
  BY <1>2 DEF PreviewRollover
<1>3. ASSUME NEW r \in Requests, NEW preview \in previews, NEW i \in DOMAIN packs,
             FinalizeRollover(r, preview, packs[i])
      PROVE  Finalized
  <2>1. OnlyRecorded
    BY <1>3 DEF FinalizeRollover, OnlyRecorded
  <2>2. preview.ledger = LedgerSnapshot(FY)
    BY <1>3 DEF FinalizeRollover, RolloverPreview
  <2> QED BY <1>3, <2>1, <2>2 DEF FinalizeRollover, Finalized
<1>4. CASE UNCHANGED allVars
  BY <1>4 DEF allVars, yearVars
<1>5. CASE Next /\ UNCHANGED yearVars
  BY <1>5 DEF yearVars
<1> QED BY <1>1, <1>2, <1>3, <1>4, <1>5 DEF YearNext

LEMMA ExportRows ==
  ASSUME PackRows, NEW row, packs' = Append(packs, row)
  PROVE  /\ PackRows'
         /\ Len(packs) \in Nat /\ DOMAIN packs = 1 .. Len(packs)
         /\ DOMAIN packs' = 1 .. (Len(packs) + 1)
         /\ \A i \in 1 .. Len(packs) : packs'[i] = packs[i]
         /\ packs'[Len(packs) + 1] = row
BY AppendFacts DEF PackRows

LEMMA YearTypeStep ==
  ASSUME YearTypeOK, PackRows, [YearNext]_allVars
  PROVE  YearTypeOK' /\ PackRows'
<1>1. revision \in Nat
  BY DEF YearTypeOK, TypeOK
<1>2. CASE [Next]_vars /\ UNCHANGED <<packs, rollovers>>
  <2>1. TypeOK'
    BY <1>2, TypeStep DEF YearTypeOK
  <2>2. revision' \in Nat /\ revision <= revision'
    BY <1>1, <1>2, RevisionStep DEF ledgerVars
  <2>3. \A row \in rollovers : row.revision \in 0 .. revision'
    BY <1>1, <2>2 DEF YearTypeOK
  <2> QED BY <1>2, <2>1, <2>3 DEF YearTypeOK, PackRows
<1>3. CASE Exported
  <2>1. TypeOK' /\ UNCHANGED <<rollovers, revision>>
    BY <1>3, RecordedTypes DEF Exported, OnlyRecorded, ledgerVars, YearTypeOK
  <2>2. PICK id \in PackIds, step \in ClockSteps :
           /\ id \notin {packs[i].id : i \in DOMAIN packs}
           /\ packs' = Append(packs, PackRow(id, step))
    BY <1>3 DEF Exported
  <2> DEFINE n == Len(packs)  row == PackRow(id, step)
  <2>3. /\ PackRows' /\ n \in Nat /\ DOMAIN packs = 1 .. n /\ DOMAIN packs' = 1 .. (n + 1)
        /\ \A i \in 1 .. n : packs'[i] = packs[i]
        /\ packs'[n + 1] = row
    BY <2>2, ExportRows
  <2>4. row.id = id /\ row.at \in Int
    <3>1. packs # <<>> => n \in DOMAIN packs
      BY <2>3, EmptySeq DEF PackRows
    <3>2. (IF packs = <<>> THEN 0 ELSE packs[n].at) \in Int
      BY <3>1 DEF YearTypeOK
    <3> QED BY <3>2, ClockAssumption DEF PackRow
  <2>5. \A i \in DOMAIN packs' : packs'[i].id \in PackIds /\ packs'[i].at \in Int
    BY <2>2, <2>3, <2>4 DEF YearTypeOK
  <2>6. \A i, k \in DOMAIN packs' : packs'[i].id = packs'[k].id => i = k
    BY <2>2, <2>3, <2>4 DEF YearTypeOK
  <2> QED BY <2>1, <2>3, <2>5, <2>6 DEF YearTypeOK
<1>4. CASE Finalized
  <2>1. TypeOK' /\ UNCHANGED <<packs, revision>>
    BY <1>4, RecordedTypes DEF Finalized, OnlyRecorded, ledgerVars, YearTypeOK
  <2>2. PICK i \in DOMAIN packs :
           rollovers' = {[revision |-> revision, pack |-> packs[i], ledger |-> LedgerSnapshot(FY)]}
    BY <1>4 DEF Finalized
  <2>3. Cardinality(rollovers') <= 1
    <3> DEFINE row == [revision |-> revision, pack |-> packs[i], ledger |-> LedgerSnapshot(FY)]
    <3>1. rollovers' = {row}
      BY <2>2
    <3> HIDE DEF row
    <3>2. Cardinality({row}) = 1
      BY FS_Singleton
    <3> QED BY <3>1, <3>2
  <2>4. \A row \in rollovers' : row.revision \in 0 .. revision'
    BY <1>1, <2>1, <2>2
  <2> QED BY <2>1, <2>3, <2>4 DEF YearTypeOK, PackRows
<1> QED BY <1>2, <1>3, <1>4, YearStepCases

\* The rows of packs and rollovers stay well formed.
THEOREM YearTypeCorrect == YearSpec => [](YearTypeOK /\ PackRows)
<1>1. ASSUME YearInit PROVE YearTypeOK /\ PackRows
  <2>1. TypeOK
    <3>1. events \in Seq({events[i] : i \in DOMAIN events}) /\ DOMAIN events = {}
      BY <1>1 DEF YearInit, Init
    <3> QED BY <1>1, <3>1 DEF YearInit, Init, TypeOK
  <2>2. packs \in Seq({packs[i] : i \in DOMAIN packs}) /\ DOMAIN packs = {}
    BY <1>1 DEF YearInit
  <2>3. Cardinality(rollovers) <= 1
    BY <1>1, FS_EmptySet DEF YearInit
  <2> QED BY <1>1, <2>1, <2>2, <2>3 DEF YearInit, YearTypeOK, PackRows
<1>2. YearTypeOK /\ PackRows /\ [YearNext]_allVars => (YearTypeOK /\ PackRows)'
  BY YearTypeStep
<1> QED BY <1>1, <1>2, PTL DEF YearSpec

-----------------------------------------------------------------------------
(* One result for the year                                                 *)

\* What the dated ledger gives the year, on any clock.
LedgerInv == TypeOK /\ ReadResultStands

LEMMA LedgerInvStep ==
  ASSUME LedgerInv, [YearNext]_allVars
  PROVE  LedgerInv'
<1>1. CASE [Next]_vars
  BY <1>1, TypeStep, ReadResultStep DEF LedgerInv
<1>2. CASE OnlyRecorded
  <2>1. UNCHANGED <<events, journals>>
    BY <1>2 DEF OnlyRecorded, ledgerVars
  <2>2. ReadResultStands'
    BY <2>1 DEF LedgerInv, ReadResultStands, EventsOf, IsLatest, JournalsIn
  <2> QED BY <1>2, <2>2, RecordedTypes DEF LedgerInv
<1> QED BY <1>1, <1>2, YearStepCases DEF Exported, Finalized

\* While the year reads CLOSED its latest event closed it, and the result
\* confirmed there is the result the ledger shows.
LEMMA ClosedYearShows ==
  ASSUME LedgerInv, ReadClosed(FY)
  PROVE  /\ \E i \in EventsOf(FY) : /\ events[i].plan \in PeriodCloseState
                                   /\ events[i].plan.ledger.within = LedgerSnapshot(FY).within
         /\ \A plan \in PeriodCloseState : plan.ledger.within = LedgerSnapshot(FY).within
<1>1. PICK i \in EventsOf(FY) : IsLatest(i) /\ events[i].type = "CLOSED"
  BY DEF ReadClosed
<1>2. i \in DOMAIN events /\ events[i].period = FY
  BY <1>1 DEF EventsOf
<1>3. events[i].plan.ledger.within = Turnover(JournalsIn(FY))
  BY <1>1, <1>2 DEF LedgerInv, ReadResultStands
<1>4. LedgerSnapshot(FY).within = Turnover(JournalsIn(FY))
  BY DEF LedgerSnapshot
<1>5. events[i].plan \in PeriodCloseState
  BY <1>1 DEF PeriodCloseState, LatestEvents
<1>6. ASSUME NEW plan \in PeriodCloseState
      PROVE  plan = events[i].plan
  <2>1. PICK k \in EventsOf(FY) : IsLatest(k) /\ plan = events[k].plan
    BY <1>6 DEF PeriodCloseState, LatestEvents
  <2>2. /\ k \in DOMAIN events /\ events[k].period = FY
        /\ events[i].at \in Int /\ events[k].at \in Int
        /\ events[i].id \in Int /\ events[k].id \in Int
    <3>1. k \in DOMAIN events /\ events[k].period = FY
      BY <2>1 DEF EventsOf
    <3>2. \A m \in DOMAIN events : events[m].at \in Int /\ events[m].id \in EventIds
      BY DEF LedgerInv, TypeOK
    <3>3. \A id \in EventIds : id \in Int
      BY EventIdsAssumption
    <3> QED BY <1>2, <3>1, <3>2, <3>3
  <2>3. k # i => Precedes(events[k], events[i]) /\ Precedes(events[i], events[k])
    BY <1>1, <1>2, <2>1, <2>2 DEF IsLatest
  <2>4. k = i
    BY <2>2, <2>3 DEF Precedes
  <2> QED BY <2>1, <2>4
<1> QED BY <1>1, <1>3, <1>4, <1>5, <1>6

\* A pack of the closed year shows the result of the close it names.
PacksTell ==
  \A i \in DOMAIN packs : packs[i].label = "CLOSED" =>
    \A plan \in packs[i].state : plan.ledger.within = packs[i].ledger.within

LEMMA PacksTellStep ==
  ASSUME LedgerInv, PackRows, PacksTell, [YearNext]_allVars
  PROVE  PacksTell'
<1>1. CASE UNCHANGED packs
  BY <1>1 DEF PacksTell
<1>2. CASE Exported
  <2>1. PICK id \in PackIds, step \in ClockSteps : packs' = Append(packs, PackRow(id, step))
    BY <1>2 DEF Exported
  <2> DEFINE n == Len(packs)  row == PackRow(id, step)
  <2>2. /\ n \in Nat /\ DOMAIN packs = 1 .. n /\ DOMAIN packs' = 1 .. (n + 1)
        /\ \A i \in 1 .. n : packs'[i] = packs[i]
        /\ packs'[n + 1] = row
    BY <2>1, ExportRows
  <2>3. /\ row.label = Status(FY) /\ row.state = PeriodCloseState
        /\ row.ledger = LedgerSnapshot(FY)
    BY DEF PackRow
  <2>4. row.label = "CLOSED" => \A plan \in row.state : plan.ledger.within = row.ledger.within
    BY <2>3, ClosedYearShows DEF Status
  <2> HIDE DEF row
  <2> QED BY <2>2, <2>4 DEF PacksTell
<1> QED BY <1>1, <1>2, YearStepCases DEF Finalized

\* Events keep their index, so what a rollover was bound to stays.
LEMMA EventsStay ==
  ASSUME TypeOK, [YearNext]_allVars, NEW i \in EventsOf(FY)
  PROVE  i \in EventsOf(FY)' /\ events'[i] = events[i]
<1>1. CASE UNCHANGED events
  BY <1>1 DEF EventsOf
<1>2. ASSUME NEW e, Recorded(e)
      PROVE  i \in EventsOf(FY)' /\ events'[i] = events[i]
  BY <1>2, RecordedRows DEF EventsOf
<1> QED BY <1>1, <1>2, YearStepCases, StepCases DEF Exported, Finalized, OnlyRecorded, Quiet, Posted

LEMMA OneResultStep ==
  ASSUME LedgerInv, PacksTell, OneResultForTheYear, [YearNext]_allVars
  PROVE  OneResultForTheYear'
<1>1. CASE UNCHANGED rollovers
  <2> SUFFICES ASSUME NEW row \in rollovers
               PROVE  /\ row.pack.ledger.within = row.ledger.within
                      /\ \E i \in EventsOf(FY)' : events'[i].plan.ledger.within = row.ledger.within
    BY <1>1 DEF OneResultForTheYear
  <2>1. PICK i \in EventsOf(FY) : events[i].plan.ledger.within = row.ledger.within
    BY DEF OneResultForTheYear
  <2>2. i \in EventsOf(FY)' /\ events'[i] = events[i]
    BY EventsStay DEF LedgerInv
  <2> QED BY <2>1, <2>2 DEF OneResultForTheYear
<1>2. CASE Finalized
  <2>1. PICK k \in DOMAIN packs :
           /\ BoundToClosedYear(packs[k])
           /\ rollovers' = {[revision |-> revision, pack |-> packs[k], ledger |-> LedgerSnapshot(FY)]}
    BY <1>2 DEF Finalized
  <2> DEFINE row == [revision |-> revision, pack |-> packs[k], ledger |-> LedgerSnapshot(FY)]
  <2>2. ReadClosed(FY) /\ packs[k].label = "CLOSED" /\ packs[k].state = PeriodCloseState
    BY <2>1 DEF BoundToClosedYear
  <2>3. PICK i \in EventsOf(FY) : /\ events[i].plan \in PeriodCloseState
                                 /\ events[i].plan.ledger.within = LedgerSnapshot(FY).within
    BY <2>2, ClosedYearShows
  <2>4. packs[k].ledger.within = LedgerSnapshot(FY).within
    BY <2>2, <2>3 DEF PacksTell
  <2>5. row.pack = packs[k] /\ row.ledger = LedgerSnapshot(FY)
    OBVIOUS
  <2>6. i \in EventsOf(FY)' /\ events'[i] = events[i]
    BY EventsStay DEF LedgerInv
  <2>7. rollovers' = {row}
    BY <2>1
  <2> HIDE DEF row
  <2> QED BY <2>3, <2>4, <2>5, <2>6, <2>7 DEF OneResultForTheYear
<1> QED BY <1>1, <1>2, YearStepCases DEF Exported

\* The result confirmed at the close, the one in the CA pack and the one carried
\* forward by the rollover are one number, whatever the clock does.
THEOREM YearHasOneResult == YearSpec => []OneResultForTheYear
<1>1. YearInit => LedgerInv /\ PacksTell /\ OneResultForTheYear
  <2> SUFFICES ASSUME YearInit PROVE LedgerInv /\ PacksTell /\ OneResultForTheYear
    OBVIOUS
  <2>1. DOMAIN events = {} /\ DOMAIN packs = {} /\ rollovers = {}
    BY DEF YearInit, Init
  <2>2. events \in Seq({events[i] : i \in DOMAIN events})
    BY <2>1 DEF YearInit, Init
  <2>3. TypeOK
    BY <2>1, <2>2 DEF YearInit, Init, TypeOK
  <2>4. ReadResultStands
    BY <2>1 DEF ReadResultStands
  <2> QED BY <2>1, <2>3, <2>4 DEF LedgerInv, PacksTell, OneResultForTheYear
<1>2. LedgerInv /\ [YearNext]_allVars => LedgerInv'
  BY LedgerInvStep
<1>3. LedgerInv /\ PackRows /\ PacksTell /\ [YearNext]_allVars => PacksTell'
  BY PacksTellStep
<1>4. LedgerInv /\ PacksTell /\ OneResultForTheYear /\ [YearNext]_allVars => OneResultForTheYear'
  BY OneResultStep
<1>5. YearSpec => []PackRows
  BY YearTypeCorrect, PTL
<1> QED BY <1>1, <1>2, <1>3, <1>4, <1>5, PTL DEF YearSpec
=============================================================================
