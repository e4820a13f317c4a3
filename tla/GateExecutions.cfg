SPECIFICATION GateSpec
CONSTANTS
 ClosureRequests <- mcClosureRequests
 ClosureManifests <- mcClosureManifests
 Acceptances <- mcAcceptances
 Roots = {"s0","s1","s2"}
 ResultsOf <- mcResultsOf
 FirstRoot = "s0"
 MaxTransactions = 2
 SafepointClaims <- mcSafepointClaims
 BaselineActions = {"b"}
 Usages = {0, 2}
 ExecutionBindings <- mcExecutionBindings
 PlanLists <- mcPlanLists
 CutClaims <- mcCutClaims
 SnapCertificates <- mcSnapCertificates
 Artifacts <- mcArtifacts
 QualityPairs <- mcQualityPairs
 ClassRules = {}
 Memberships = {}
 Benchmarks <- mcBenchmarks
 FrozenBaseline <- mcFrozenBaseline
 Scale = 10
 Envelopes <- mcEnvelopes
 MaxExecutions = 1
 EffectClasses = {"ReadOnly","Irreversible"}
 ApprovalSets = {{"preAction"}}
 Heads = {0,1}
 MaxPermits = 1
 Problems <- mcProblems
 Surfaces = {{"a","b"},{"a"}}
 Routes = {"v"}
 MaxQueryTrace = 2
 MaxHypergraph = 7
 MaxInteger = 40
 Objects = {"a","b","c"}
 Hosted = {"a","b"}
 DemandEnvelopes <- mcDemandEnvelopes
 Changes = {{"a"},{"b","c"}}
 Actions <- mcActions
 MaxForks = 1
 Ledgers <- mcLedgers
 Lens <- mcLens
 Scopes = {{},{"c"}}
 Requests <- mcRequests
 Inputs <- mcInputs
 MaxIssues = 2
 MaxReasons = 2
 Closures <- mcClosures
 ArtifactClaims <- mcArtifactClaims
 Variations <- mcVariations
 Components <- mcComponents
 Evidences <- mcEvidences
 SnapIntakes <- mcSnapIntakes
 IndexStates <- mcIndexStates
 MinGeneration = 1
 MaxHeld = 2
 WorkReports <- mcWorkReports
 MaxPreparations = 1
 WireReceipts <- mcWire
 WorkEvidences <- mcWorkEvidences
 WorkVerifiers = {"v"}
 PairClaims <- mcPairClaims
 PreparationClaims <- mcPreparationClaims
 MetricClaims <- mcMetricClaims
 PhasePolicies <- mcPhasePolicies
 MeasuredTotals = {0, 100, 150}
 MaxCharges = 2
 MaxTasks = 2
 MaxSources = 20
 MaxWorks = 4
 MaxPairs = 2
 Tokenizer = "tk"
 Charges <- mcLedgerCharges
 Attempts <- mcAttempts
 Presentations <- mcPresentations
 ReceiptRoots <- mcReceiptRoots
 Targets = {0, 3, 5, 10}
 Accounts <- mcAccounts
 ResourceRows <- mcResourceRows
 Bills <- mcBills
 Campaigns <- mcCampaigns
 Frontiers <- mcFrontiers
 Attributions <- mcAttributions
 PpmOne = 10
 MaxCount = 9
 MaxHistory = 3
 Drafts <- mcDrafts
 Tasks <- mcTasks
 Trials <- mcTrials
 Syndromes <- mcSyndromes
 Benefits <- mcBenefits
 Dependencies <- mcDependencies
 MinTrials = 2
 RetireAfter = 2
 MaxEpoch = 2
 MaxNotes = 3
 MaxAmount = 9
 MaxCoordinates = 2
 MaxActions = 2
 ActionClaims <- mcActionClaims
 PlanDrafts <- mcPlanDrafts
 BranchInputs <- mcBranchInputs
 BranchMaximum = 3
 SelectionClaims <- mcSelections
 Version = 1
 ValidHeads = {"h1", "h0", "hub"}
 MaxSteps = 2
 MaxObjects = 1
 MaxTools = 1
 MaxCalls = 2
 Manifests <- mcManifests
 FirstFiles <- mcFirstFiles
 Rewrites <- mcRewrites
 MaxRewrites = 2
 VerifierIds = {"v", "w"}
 VerifierVersions = {"1", "2"}
 Registrations <- mcRegistrations
 Checklists <- mcChecklists
 Deltas <- mcDeltas
 Transitions <- mcTransitions
 Successors <- mcSuccessors
 FutureActions <- mcFutureActions
 MaxTrustChanges = 3
 MaxRefs = 2
 MaxEntries = 2
 BudgetBits = 6
 FirstBudgets = {0, 1, 3, 8}
 Required = {1, 2, 5, 7, 12, 50}
 Overheads = {0, 1, 7}
 Runs <- mcRuns
 MaxAttempts = 2
 MaxArtifacts = 1
 Tables <- mcTables
 Claims <- mcPublicClaims
 Opinions <- mcOpinions
 MaxOpinions = 3
 Subjective <- mcSubjective
INVARIANTS FinalReceiptsAreEarned RecoveryKeepsItsWord ReportsAgree  StrictReuseIsEarned TotalsAreEarned BooksAreHonest  
CHECK_DEADLOCK FALSE
