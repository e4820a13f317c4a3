CONSTANTS
    c1 = c1
    c2 = c2
    c3 = c3
    s1 = s1
    s2 = s2
    Cells = {c1}
    Sessions = {s1, s2}
    SessionOf <- MCSessionOf
    Paths = {p}
    Contents = {x}
    Absent = Absent
    Unpinned = Unpinned
    NoCell = NoCell
    MaxEffects <- MCOneEach
    MaxFaults = 1
    MaxCrashes = 0
    MaxExternal = 0
SPECIFICATION Spec
INVARIANTS RollbackRestoresBase
VIEW NoReplies
CHECK_DEADLOCK FALSE
