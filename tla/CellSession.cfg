CONSTANTS
    c1 = c1
    c2 = c2
    c3 = c3
    s1 = s1
    s2 = s2
    Cells = {c1, c2}
    Sessions = {s1, s2}
    SessionOf <- MCSessionOf
    Paths = {p}
    Contents = {x}
    Absent = Absent
    Unpinned = Unpinned
    NoCell = NoCell
    MaxEffects <- MCOneEach
    MaxFaults = 0
    MaxCrashes = 1
    MaxExternal = 1
    EmptyRoot = EmptyRoot
    Roots = {EmptyRoot, r1}
SPECIFICATION CellSpec
INVARIANTS FailureKeepsRoot CompletionIsTrue
SYMMETRY CellSymmetry
VIEW AliveState
CHECK_DEADLOCK FALSE
