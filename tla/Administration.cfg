SPECIFICATION AdministrationSpec
CONSTANTS
 MaxMigration = 3
 Effects <- MCEffects
 Probes <- MCProbes
 MaxAudits = 2
 Personal = "p"
 Proprietorships = {"q"}
 Sources = {s1}
 Facts = {f1, f2}
 Keys = {k1}
 Payloads <- MCPayloads
 Lines = {"l1", "l2"}
 LineOf <- MCLineOf
 MaxRevision = 1
 MaxPan = 2
 MaxAssessments = 2
 MaxSnapshots = 1
 AuthorityPacks = {a1, a2}
 ComputationPacks = {c1}
 SchemaPacks = {k1}
 Forms = {itr1}
 Fields = {"x", "y"}
 FactValues = {0, 1}
 MaxDepth = 2
 NodesAt <- MCNodesAt
 MaxBasis = 1
 MaxRecorded = 2
 MaxSnapshotsSealed = 1
 MaxEvaluations = 1
 MaxComputations = 1
 MaxArtifacts = 1
 Names = {"Company", "Personal", "Proprietorship", "Shop", "SHOP"}
 NoCase <- MCNoCase
 SeedName <- MCSeedName
 Codes = {1, 2}
 SeedCodes = {1}
 Pans = {"A", "B"}
 Requests = {"r1", "r2"}
 MaxTenants = 2
 MaxBookSets = 3
 LegacyTop = 2
 Official = 5
 Authority = {2}
 Computation = {3}
 Statement = {4}
 MaxEdits = 3
INVARIANTS
 AppliedIsBacked
 ReadySourceIsSettled
 WorksheetsAreCoveredByTheBooks
 SelectedFormsHoldHoweverTheUnknownsFall
 ServedTenantsHaveTheirBooks
 RecognisersAgree
 ServedFilesAreWhole
PROPERTY OnlyAuditedRecoveryUnblocks
SYMMETRY FactSymmetry
CHECK_DEADLOCK FALSE
