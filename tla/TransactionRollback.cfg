CONSTANTS
    c1 = c1
    c2 = c2
    c3 = c3
    s1 = s1
    s2 = s2
    Cells = {c1, c2}
    Sessions = {s1, s2}
    SessionOf <- MCSessionOf
    Paths = {p}
    Contents = {x, y}
    Absent = Absent
    Unpinned = Unpinned
    NoCell = NoCell
    MaxEffects <- MCTwoAndOne
    MaxFaults = 0
    MaxCrashes = 1
    MaxExternal = 0
SPECIFICATION Spec
INVARIANTS RollbackRestoresBase
PROPERTIES OwnUndoGuarded
SYMMETRY DataSymmetry
VIEW NoReplies
CHECK_DEADLOCK FALSE
