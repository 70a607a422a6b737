\* A dialog that closes while it asks for its first QR.
SPECIFICATION Spec
CONSTANTS
    Windows = {w1, w2}
    MaxReveals = 1
    Remembered = 1
    MaxClaims = 2
    SaveFaults = {"before"}
    Budgets <- Ways
INVARIANT ClosedStopsTokens
CHECK_DEADLOCK FALSE
