\* Every cell that was loaded ends, and every guest program.  A system with
\* nothing left to do stops.
SPECIFICATION LiveSpec
CONSTANTS
    c1 = c1
    c2 = c2
    c3 = c3
    s1 = s1
    s2 = s2
    Cells = {c1, c2}
    Sessions = {s1, s2}
    SessionOf <- MCSessionOf
    Paths = {p}
    Contents = {x}
    Absent = Absent
    Unpinned = Unpinned
    NoCell = NoCell
    MaxEffects <- MCOneAndNone
    MaxFaults = 0
    MaxCrashes = 1
    MaxExternal = 0
    EmptyRoot = EmptyRoot
    Roots = {EmptyRoot}
    Programs <- mcPrograms
    Bodies <- mcBodies
    Saved <- mcSaved
    NeedDeadline <- mcNeedDeadline
    Answers = {"ok", "error", "bad"}
    MaxInflight = 2
    MaxCalls = 3
    MaxPromises = 4
    MaxDepth = 9
    MicrotaskCeiling = 2
    TraceLimit = 3
    ValueLimit = 3
    TotalLimit = 4
    KeyLimit = 2
INVARIANT PromisesAreKept
PROPERTIES CellEnds ProgramsEnd
CHECK_DEADLOCK FALSE
