\* One attempt, one call that dies between the rename and the sync of its entry
\* and one power failure.
SPECIFICATION AttemptSpec
CONSTANTS
    Absent = Absent
    Attempts = {"a"}
    Evidences = {}
    MaxEntries = 4
    MaxDeaths = 1
    MaxPowerFailures = 1
INVARIANT RetryIsSafe
CHECK_DEADLOCK FALSE
