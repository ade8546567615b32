--------------------------- MODULE MCAdministration --------------------------
(***************************************************************************)
(* Small instances of what surrounds the books: the tenants, the personal  *)
(* tax case and its return, the hashed migrations of a database file and   *)
(* the code that recognises such a file.  They share no state a property   *)
(* reads, so a behaviour explores the one that is in focus and leaves the  *)
(* others as they start.                                                   *)
(***************************************************************************)
EXTENDS SchemaMigrations, TaxCases, TaxReturns, Tenancy, DatabaseControl, FiniteSetsExt, TLC

VARIABLE focus

administrationVars ==
  <<focus, migrationVars, taxCaseVars, returnVars, tenancyVars, controlVars>>

-----------------------------------------------------------------------------
(* SchemaMigrations: three migrations, all but the first with a probe.     *)
MCEffects(m) == {<<m, 1>>, <<m, 2>>}
MCProbes(m) == IF m = 1 THEN {} ELSE {<<m, 1>>}

-----------------------------------------------------------------------------
(* TaxCases: a line in each of two BookSets, two facts of one source.      *)
MCLineOf(l) == IF l = "l1" THEN [bookSet |-> "p", amount |-> 2] ELSE [bookSet |-> "q", amount |-> 1]
MCPayloads == {[income |-> TRUE, gross |-> 1], [income |-> TRUE, gross |-> 2]}
\* Ids of facts are interchangeable: no query orders by them.
FactSymmetry == Permutations(Facts)

Moves == membership.version + pan +
         MapThenSumSet(LAMBDA b : books[b].revision + (IF books[b].lifecycle = "ARCHIVED" THEN 1 ELSE 0), BookSets)

\* Bound: how often books, PAN and membership move, and in which phase of a case.
FewMoves ==
  /\ membership.version = 0 => UNCHANGED <<books, pan>>
  /\ snapshots = <<>> => Moves' <= 2
  /\ Moves' <= 2 + membership'.version /\ membership'.version <= 2
  /\ allocated' # allocated => \A s \in Sources : assessments[s] = <<>>
  /\ snapshots # <<>> => UNCHANGED assessments
  /\ Moves > 2 => UNCHANGED facts

-----------------------------------------------------------------------------
(* TaxReturns: rules that look at a missing fact in each way there is.     *)
In(f, v) == [op |-> "in", field |-> f, values |-> v]
Leaf(op, f) == [op |-> op, field |-> f]
Not(rule) == [op |-> "not", rule |-> rule]
MCRules == { [op |-> "any", rules |-> <<In("x", {1}), Leaf("missing", "y")>>],
             Not([op |-> "all", rules |-> <<In("x", {1}), Leaf("exists", "y")>>]),
             [op |-> "all", rules |-> <<Not(In("x", {1})), Not(Leaf("missing", "y"))>>] }
MCNodesAt ==
  LET Below(nodes) == UNION {Children(rule) : rule \in nodes}
  IN [d \in 0 .. 2 |-> CASE d = 0 -> MCRules [] d = 1 -> Below(MCRules) [] d = 2 -> Below(Below(MCRules))]

\* Bound: one selection and, phase by phase, what moves besides.
FewChanges ==
  /\ evaluations = <<>> => basis' = 0 /\ UNCHANGED packs
  /\ Len(selections') <= 1
  /\ selections # <<>> => sealed' = sealed /\ recorded' = recorded
  /\ computations = <<>> => UNCHANGED basis
  /\ packs' # packs => recorded' = recorded /\ selections # <<>>
  /\ selections = <<>> \/ computations # <<>> => packs' = packs \/ artifacts # <<>>
  /\ artifacts' # artifacts => recorded' = recorded
  /\ evaluations # <<>> => \A p \in AuthorityPacks :
       \/ authority[p].event = authority'[p].event
       \/ authority[p].event = "HUMAN_VERIFIED" \/ authority'[p].event = "REGISTERED"

-----------------------------------------------------------------------------
(* Tenancy: two names that differ in case only, the names of the seeds.    *)
MCNoCase(n) == IF n = "SHOP" THEN "Shop" ELSE n
MCSeedName(k) == CASE k = "COMPANY" -> "Company" [] k = "PERSONAL" -> "Personal" [] OTHER -> "Proprietorship"

Creating == \A t \in DOMAIN tenants : tenants[t].lifecycle = "CREATING"

\* Bound: PAN versions and accounts are explored from a few tenants and BookSets.
FewRows ==
  /\ pans # <<>> => UNCHANGED <<tenants, bookSets, accounts>>
  /\ pans' # pans => accounts = <<>> /\ Len(bookSets) = 2 /\ Creating
  /\ accounts' # accounts => pans = <<>> /\ Len(bookSets') = 1 /\ tenants'[1].lifecycle = "CREATING"
  /\ accounts # <<>> => UNCHANGED tenants /\ Len(accounts') <= 2 /\ Len(bookSets') <= 2
  /\ Len(bookSets') > Len(bookSets) => bookSets'[Len(bookSets')].name # "Proprietorship"

-----------------------------------------------------------------------------
\* The components out of focus start in one of their initial states.
AdministrationInit ==
  /\ focus \in {"migrations", "case", "return", "tenants", "control"}
  /\ MigrationInit /\ (focus # "migrations" => format = "NONE")
  /\ TaxCaseInit /\ (focus # "case" => \A b \in BookSets : books[b].lifecycle = "ACTIVE")
  /\ ReturnInit
  /\ TenancyInit /\ (focus # "tenants" => rules = "v3")
  /\ ControlInit /\ (focus # "control" => database = CHOOSE d \in LeftByRelease : TRUE)

AdministrationNext ==
  \/ /\ focus = "migrations" /\ MigrationNext
     /\ UNCHANGED <<focus, taxCaseVars, returnVars, tenancyVars, controlVars>>
  \/ /\ focus = "case" /\ TaxCaseNext /\ FewMoves
     /\ UNCHANGED <<focus, migrationVars, returnVars, tenancyVars, controlVars>>
  \/ /\ focus = "return" /\ ReturnNext /\ FewChanges
     /\ UNCHANGED <<focus, migrationVars, taxCaseVars, tenancyVars, controlVars>>
  \/ /\ focus = "tenants" /\ TenancyNext /\ FewRows
     /\ UNCHANGED <<focus, migrationVars, taxCaseVars, returnVars, controlVars>>
  \/ /\ focus = "control" /\ ControlNext
     /\ UNCHANGED <<focus, migrationVars, taxCaseVars, returnVars, tenancyVars>>

AdministrationSpec == AdministrationInit /\ [][AdministrationNext]_administrationVars
=============================================================================
