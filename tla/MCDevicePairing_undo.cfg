\* A directory that cannot be synced after the store was renamed into place.
SPECIFICATION Spec
CONSTANTS
    Windows = {w1, w2}
    MaxReveals = 1
    Remembered = 1
    MaxClaims = 2
    SaveFaults = {"before", "after"}
    Budgets <- Ways
INVARIANT MemoryOnDisk
CHECK_DEADLOCK FALSE
