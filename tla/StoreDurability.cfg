\* Call deaths, power failures, kills and concurrent callers in zero-store's
\* journals, logs and migrations, in GraphZero's log, snapshots and
\* index and in FSZero's pack.  Every call may be the last one.
SPECIFICATION StoreSpec
CONSTANTS
    Absent = Absent
    JBindings <- mcBindings
    FirstRoot = "r0"
    DeathTimes = {1, 2}
    MaxKills = 2
    MaxPowerLosses = 2
    Attempts = {"a", "b"}
    Evidences <- mcEvidences
    MaxEntries = 4
    MaxDeaths = 2
    MaxPowerFailures = 2
    SegmentLimit = 2
    MaxSealed = 2
    MaxReplay = 6
    MaxRecords = 8
    MaxWalKills = 2
    Engines = {"fszero", "graphzero"}
    MaxKnown = 3
    Migrators = {m, n}
    MaxMigratorDeaths = 1
    Publishers = {p, q}
    e1 = e1
    e2 = e2
    o1 = o1
    o2 = o2
    Events = {e1, e2}
    Observations = {o1, o2}
    SessionOf <- mcSession
    RequestOf <- mcRequest
    CutShort = CutShort
    LogLimit = 2
    MaxLogCrashes = 1
    Bytes = 3
    Writers = {w1, w2}
    Edges = {d1, d2}
    MaxTree = 1
    MaxSnapshots = 3
    MaxSegments = 1
    MaxGraphKills = 1
    PackOpeners = {g1, g2}
    Contents = {c1}
    Names = {mm}
    Damaged = Damaged
    Closed = Closed
    MaxGeneration = 1
    MaxPack = 2
    MaxFailures = 2
    Trees <- mcTrees
    Versions <- mcVersions
    Source <- mcSource
    Manifests = {1}
    SourcesOf <- mcSourcesOf
    BeadIssues = 4
    HistoryLines = 2
    CompactAfter = 1
    RewriteThreshold = 2
    MaxEdits = 2
    MaxCalls = 2
    MaxIndexFaults = 1
INVARIANTS
    PublicationLaw
    RecoveryNeverStuck
    AttemptsAreAtMostOnce
    AckedRecordsSurvive
    
    LogAnswersTrue
    StoreOpens
    
    
PROPERTY ImplementsDecision
CHECK_DEADLOCK FALSE
