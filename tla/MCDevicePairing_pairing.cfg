\* Dialogs, phones and the daemon, with two claims.
SPECIFICATION Spec
CONSTANTS
    Windows = {w1, w2}
    MaxReveals = 1
    Remembered = 1
    MaxClaims = 2
    SaveFaults = {"before"}
    Budgets <- Ways
INVARIANTS AllowedAsShown ToldAsKept RacedIsVoid
PROPERTIES DialogSettles
CHECK_DEADLOCK FALSE
