------------------------------ MODULE TaxReturns ------------------------------
(***************************************************************************)
(* From a filing snapshot to an exported return: authority packs of form   *)
(* rules and the eligibility evaluated from them in three values           *)
(* (tax-case-itr-eligibility-service), computation packs and computations  *)
(* (tax-case-computation-service), return schema packs and the artifacts   *)
(* prepared, validated and exported under them                             *)
(* (tax-case-return-artifact-service).  What makes a snapshot STALE is in  *)
(* TaxCases; here it is one counter, the basis, that upstream work moves.  *)
(* Each snapshot has its one position worksheet.                           *)
(***************************************************************************)
EXTENDS Naturals, Sequences, FiniteSets

CONSTANTS
  AuthorityPacks, ComputationPacks, SchemaPacks,  \* packs of each kind
  Forms, Fields, FactValues,  \* ITR forms, eligibility fields and what they may hold
  MaxDepth, NodesAt,          \* form rules are [op, ...] trees: their nodes at each depth, up to MAX_AST_DEPTH
  MaxBasis, MaxRecorded, MaxSnapshotsSealed, MaxEvaluations, MaxComputations, MaxArtifacts  \* bounds

NoPack == "none"
Rules == NodesAt[0]
Nodes == UNION {NodesAt[d] : d \in 0 .. MaxDepth}

Children(rule) ==
  IF rule.op \in {"all", "any"} THEN {rule.rules[i] : i \in DOMAIN rule.rules}
  ELSE IF rule.op = "not" THEN {rule.rule} ELSE {}

\* validateRule refuses a rule with a node deeper than that.
ASSUME ReturnsAssumption ==
  /\ MaxDepth \in Nat /\ DOMAIN NodesAt = 0 .. MaxDepth
  /\ \A d \in 0 .. MaxDepth : \A rule \in NodesAt[d] :
       Children(rule) \subseteq IF d < MaxDepth THEN NodesAt[d + 1] ELSE {}
  /\ NoPack \notin AuthorityPacks

VARIABLES
  basis,        \* version of everything a snapshot binds
  sealed,       \* the basis of each snapshot
  authority,    \* of each authority pack: [event, rules, supersedes]; its latest event
  recorded,     \* eligibility facts in (created_at, id) order: [snapshot, field, value, verified]
  evaluations,  \* [pack, snapshot, facts, results]
  selections,   \* [evaluation, form]
  packs,        \* of each computation and schema pack: [event, authority, form]
  computations, \* [selection, pack, approved]
  artifacts     \* [computation, pack, validation, exports]; exports: the status each export met

returnVars == <<basis, sealed, authority, recorded, evaluations, selections, packs, computations, artifacts>>

RulesOfForms == [Forms -> Rules]

ReturnInit ==
  /\ basis = 0
  /\ sealed = <<>>
  /\ authority = [p \in AuthorityPacks |-> [event |-> "NONE", rules |-> [f \in Forms |-> NoPack], supersedes |-> NoPack]]
  /\ recorded = <<>>
  /\ evaluations = <<>>
  /\ selections = <<>>
  /\ packs = [p \in ComputationPacks \cup SchemaPacks |-> [event |-> "NONE", authority |-> NoPack, form |-> NoPack]]
  /\ computations = <<>>
  /\ artifacts = <<>>

-----------------------------------------------------------------------------
(* Upstream.                                                               *)

MoveBasis ==
  /\ basis < MaxBasis
  /\ basis' = basis + 1
  /\ UNCHANGED <<sealed, authority, recorded, evaluations, selections, packs, computations, artifacts>>

SealSnapshot ==
  /\ Len(sealed) < MaxSnapshotsSealed
  /\ sealed' = Append(sealed, basis)
  /\ UNCHANGED <<basis, authority, recorded, evaluations, selections, packs, computations, artifacts>>

Snapshots == DOMAIN sealed
CurrentSnapshot(s) == sealed[s] = basis

-----------------------------------------------------------------------------
(* Authority packs.                                                        *)

\* A pack that was verified and then superseded still counts as verified here ...
Verified(p) == authority[p].event \in {"HUMAN_VERIFIED", "SUPERSEDED"}
\* ... but not where a return artifact is bound.
LiterallyVerified(p) == authority[p].event = "HUMAN_VERIFIED"

\* The pack named as superseded loses its standing at once, before anyone has looked at the new one.
RegisterAuthorityPack(p, rules, old) ==
  /\ authority[p].event = "NONE"
  /\ old # NoPack => Verified(old)
  /\ authority' = [q \in AuthorityPacks |->
       IF q = p THEN [event |-> "REGISTERED", rules |-> rules, supersedes |-> old]
       ELSE IF q = old THEN [authority[q] EXCEPT !.event = "SUPERSEDED"] ELSE authority[q]]
  /\ UNCHANGED <<basis, sealed, recorded, evaluations, selections, packs, computations, artifacts>>

DecideAuthorityPack(p, verdict) ==
  /\ authority[p].event = "REGISTERED"
  /\ authority' = [authority EXCEPT ![p].event = verdict]
  /\ UNCHANGED <<basis, sealed, recorded, evaluations, selections, packs, computations, artifacts>>

-----------------------------------------------------------------------------
(* Eligibility.                                                            *)

\* What a human asserts or a worksheet gives is verified; what an agent asserts is not.
\* Recorded in the millisecond of the one before it, a fact may sort before that one.
RecordEligibilityFact(s, field, value, verified, tie) ==
  LET at == IF tie /\ recorded # <<>> THEN Len(recorded) ELSE Len(recorded) + 1
      new == [snapshot |-> s, field |-> field, value |-> value, verified |-> verified]
  IN /\ s \in Snapshots
     /\ CurrentSnapshot(s)
     /\ Len(recorded) < MaxRecorded
     /\ recorded' = SubSeq(recorded, 1, at - 1) \o <<new>> \o SubSeq(recorded, at, Len(recorded))
     /\ UNCHANGED <<basis, sealed, authority, evaluations, selections, packs, computations, artifacts>>

FactRows(s) == SelectSeq(recorded, LAMBDA r : r.snapshot = s)

\* The last row of each field; a later unverified row hides the verified one before it.
LatestFacts(rows) ==
  [field \in {rows[i].field : i \in DOMAIN rows} |->
     LET last == CHOOSE i \in DOMAIN rows : rows[i].field = field /\ \A j \in DOMAIN rows : rows[j].field = field => j <= i
     IN rows[last]]

\* Mutant: what nobody verified is taken at its word.
LeafOnAnyFact(rule, facts) ==
  IF rule.field \notin DOMAIN facts THEN "UNKNOWN"
  ELSE CASE rule.op = "exists" -> "TRUE"
         [] rule.op = "missing" -> "FALSE"
         [] OTHER -> IF facts[rule.field].value \in rule.values THEN "TRUE" ELSE "FALSE"

\* The tests on one field: exists, missing and in (eq and int_cmp are sets of values too).
EvaluateLeaf(rule, facts) ==
  IF rule.field \notin DOMAIN facts THEN "UNKNOWN"
  ELSE IF ~facts[rule.field].verified THEN "UNKNOWN"
  ELSE CASE rule.op = "exists" -> "TRUE"
         [] rule.op = "missing" -> "FALSE"
         [] OTHER -> IF facts[rule.field].value \in rule.values THEN "TRUE" ELSE "FALSE"

\* What a node comes to, given what its children did.
EvaluateNode(rule, value, facts) ==
  LET children == {value[child] : child \in Children(rule)}
  IN CASE rule.op = "all" -> IF "FALSE" \in children THEN "FALSE" ELSE IF "UNKNOWN" \in children THEN "UNKNOWN" ELSE "TRUE"
       [] rule.op = "any" -> IF "TRUE" \in children THEN "TRUE" ELSE IF "UNKNOWN" \in children THEN "UNKNOWN" ELSE "FALSE"
       [] rule.op = "not" -> IF "UNKNOWN" \in children THEN "UNKNOWN" ELSE IF "TRUE" \in children THEN "FALSE" ELSE "TRUE"
       [] OTHER -> EvaluateLeaf(rule, facts)

EvaluateRule(rule, facts) ==
  LET value[node \in Nodes] == EvaluateNode(node, value, facts)
  IN value[rule]

Evaluate(p, s) ==
  /\ Verified(p)
  /\ s \in Snapshots
  /\ CurrentSnapshot(s)
  /\ Len(evaluations) < MaxEvaluations
  /\ evaluations' = Append(evaluations,
       [pack |-> p, snapshot |-> s, facts |-> FactRows(s),
        results |-> [f \in Forms |-> EvaluateRule(authority[p].rules[f], LatestFacts(FactRows(s)))]])
  /\ UNCHANGED <<basis, sealed, authority, recorded, selections, packs, computations, artifacts>>

\* Any pack that names it as superseded, verified or not, makes an evaluation STALE.
EvaluationCurrent(e) ==
  /\ \A q \in AuthorityPacks : authority[q].supersedes # evaluations[e].pack
  /\ CurrentSnapshot(evaluations[e].snapshot)
  /\ FactRows(evaluations[e].snapshot) = evaluations[e].facts

SelectForm(e, form) ==
  /\ e \in DOMAIN evaluations
  /\ EvaluationCurrent(e)
  /\ evaluations[e].results[form] = "TRUE"
  /\ \A i \in DOMAIN selections : selections[i] # [evaluation |-> e, form |-> form]
  /\ selections' = Append(selections, [evaluation |-> e, form |-> form])
  /\ UNCHANGED <<basis, sealed, authority, recorded, evaluations, packs, computations, artifacts>>

-----------------------------------------------------------------------------
(* Computations.                                                           *)

RegisterPack(p, a, form) ==
  /\ packs[p].event = "NONE"
  /\ authority[a].event # "NONE"
  /\ p \in ComputationPacks => Verified(a)
  /\ packs' = [packs EXCEPT ![p] = [event |-> "REGISTERED", authority |-> a, form |-> form]]
  /\ UNCHANGED <<basis, sealed, authority, recorded, evaluations, selections, computations, artifacts>>

\* A schema pack needs its authority pack verified and not superseded.
VerifyPack(p) ==
  /\ packs[p].event = "REGISTERED"
  /\ p \in SchemaPacks => LiterallyVerified(packs[p].authority)
  /\ packs' = [packs EXCEPT ![p].event = "HUMAN_VERIFIED"]
  /\ UNCHANGED <<basis, sealed, authority, recorded, evaluations, selections, computations, artifacts>>

\* A computation pack may be rejected whatever became of it, a schema pack only before it is decided.
RejectPack(p) ==
  /\ packs[p].event # "NONE"
  /\ p \in SchemaPacks => packs[p].event = "REGISTERED"
  /\ packs' = [packs EXCEPT ![p].event = "REJECTED"]
  /\ UNCHANGED <<basis, sealed, authority, recorded, evaluations, selections, computations, artifacts>>

EvaluationOf(selection) == selections[selection].evaluation
SnapshotOf(selection) == evaluations[EvaluationOf(selection)].snapshot

\* The evaluation is held to the snapshot only: neither a superseding pack nor
\* new eligibility facts, which make it STALE above, are looked at here.
CurrentBinding(selection, p) ==
  /\ CurrentSnapshot(SnapshotOf(selection))
  /\ packs[p].form = selections[selection].form
  /\ Verified(packs[p].authority)
  /\ packs[p].event = "HUMAN_VERIFIED"

GenerateComputation(selection, p) ==
  /\ selection \in DOMAIN selections
  /\ CurrentBinding(selection, p)
  /\ Len(computations) < MaxComputations
  /\ computations' = Append(computations, [selection |-> selection, pack |-> p, approved |-> FALSE])
  /\ UNCHANGED <<basis, sealed, authority, recorded, evaluations, selections, packs, artifacts>>

ApproveComputation(c) ==
  /\ c \in DOMAIN computations
  /\ CurrentSnapshot(SnapshotOf(computations[c].selection))
  /\ packs[computations[c].pack].event = "HUMAN_VERIFIED"
  /\ computations' = [computations EXCEPT ![c].approved = TRUE]
  /\ UNCHANGED <<basis, sealed, authority, recorded, evaluations, selections, packs, artifacts>>

-----------------------------------------------------------------------------
(* Return artifacts.                                                       *)

BoundInputs(c, p) ==
  /\ CurrentSnapshot(SnapshotOf(computations[c].selection))
  /\ computations[c].approved
  /\ packs[p].event = "HUMAN_VERIFIED"
  /\ packs[p].form = selections[computations[c].selection].form
  /\ LiterallyVerified(packs[p].authority)

PrepareArtifact(c, p) ==
  /\ c \in DOMAIN computations
  /\ BoundInputs(c, p)
  /\ Len(artifacts) < MaxArtifacts
  /\ \A i \in DOMAIN artifacts : artifacts[i].computation # c \/ artifacts[i].pack # p
  /\ artifacts' = Append(artifacts, [computation |-> c, pack |-> p, validation |-> "NONE", exports |-> {}])
  /\ UNCHANGED <<basis, sealed, authority, recorded, evaluations, selections, packs, computations>>

ArtifactStatus(i) ==
  LET a == artifacts[i]
  IN IF ~BoundInputs(a.computation, a.pack) THEN "STALE"
     ELSE CASE a.validation = "LOCAL_INVALID" -> "LOCAL_INVALID"
            [] a.validation # "LOCAL_INVALID" /\ a.exports # {} -> "EXPORTED"
            [] a.validation = "LOCAL_VALID" /\ a.exports = {} -> "LOCAL_VALID"
            [] OTHER -> "PREPARED"

ValidateArtifact(i, outcome) ==
  /\ i \in DOMAIN artifacts
  /\ ArtifactStatus(i) # "STALE"
  /\ artifacts' = [artifacts EXCEPT ![i].validation = outcome]
  /\ UNCHANGED <<basis, sealed, authority, recorded, evaluations, selections, packs, computations>>

\* The caller names the artifact's hash and the hash of its latest validation; nothing else is checked.
ExportArtifact(i) ==
  /\ i \in DOMAIN artifacts
  /\ artifacts[i].validation = "LOCAL_VALID"
  /\ artifacts' = [artifacts EXCEPT ![i].exports = @ \cup {ArtifactStatus(i)}]
  /\ UNCHANGED <<basis, sealed, authority, recorded, evaluations, selections, packs, computations>>

-----------------------------------------------------------------------------
ReturnNext ==
  \/ MoveBasis
  \/ SealSnapshot
  \/ \E p \in AuthorityPacks, rules \in RulesOfForms, old \in AuthorityPacks \cup {NoPack} :
       RegisterAuthorityPack(p, rules, old)
  \/ \E p \in AuthorityPacks, v \in {"HUMAN_VERIFIED", "REJECTED"} : DecideAuthorityPack(p, v)
  \/ \E s \in 1 .. MaxSnapshotsSealed, f \in Fields, v \in FactValues, verified, tie \in BOOLEAN :
       RecordEligibilityFact(s, f, v, verified, tie)
  \/ \E p \in AuthorityPacks, s \in 1 .. MaxSnapshotsSealed : Evaluate(p, s)
  \/ \E e \in 1 .. MaxEvaluations, f \in Forms : SelectForm(e, f)
  \/ \E p \in ComputationPacks \cup SchemaPacks, a \in AuthorityPacks, f \in Forms : RegisterPack(p, a, f)
  \/ \E p \in ComputationPacks \cup SchemaPacks : VerifyPack(p) \/ RejectPack(p)
  \/ \E i \in DOMAIN selections, p \in ComputationPacks : GenerateComputation(i, p)
  \/ \E c \in 1 .. MaxComputations : ApproveComputation(c)
  \/ \E c \in 1 .. MaxComputations, p \in SchemaPacks : PrepareArtifact(c, p)
  \/ \E i \in 1 .. MaxArtifacts, v \in {"LOCAL_VALID", "LOCAL_INVALID"} : ValidateArtifact(i, v)
  \/ \E i \in 1 .. MaxArtifacts : ExportArtifact(i)

ReturnSpec == ReturnInit /\ [][ReturnNext]_returnVars

-----------------------------------------------------------------------------
\* What the taxpayer's situation may be: each field absent, {}, or holding a value.
Situations == [Fields -> {{}} \cup {{v} : v \in FactValues}]

HoldsAt(rule, holds, situation) ==
  CASE rule.op = "all" -> \A child \in Children(rule) : holds[child]
    [] rule.op = "any" -> \E child \in Children(rule) : holds[child]
    [] rule.op = "not" -> \A child \in Children(rule) : ~holds[child]
    [] rule.op = "exists" -> situation[rule.field] # {}
    [] rule.op = "missing" -> situation[rule.field] = {}
    [] OTHER -> situation[rule.field] \cap rule.values # {}

Holds(rule, situation) ==
  LET holds[node \in Nodes] == HoldsAt(node, holds, situation)
  IN holds[rule]

(* A form a human could select is right whatever the facts nobody verified *)
(* turn out to be: in every situation that agrees with the verified facts  *)
(* of the evaluation, the rule of the pack holds in two values.            *)
SelectedFormsHoldHoweverTheUnknownsFall ==
  \A i \in DOMAIN selections :
    LET e == evaluations[EvaluationOf(i)]
        latest == LatestFacts(e.facts)
        verified == {f \in DOMAIN latest : latest[f].verified}
    IN \A situation \in Situations :
         (\A f \in verified : situation[f] = {latest[f].value}) =>
           Holds(authority[e.pack].rules[selections[i].form], situation)
=============================================================================
