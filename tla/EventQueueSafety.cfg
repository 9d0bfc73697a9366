\* Two workers, an event whose handler may do anything, one of a type without a
\* handler, one that never verifies, and a backoff whose power of two leaves the
\* floats before the budget is spent.
SPECIFICATION Spec
CONSTANTS
    Events = {e1, e2, bad}
    Valid = {e1, e2}
    Registered = {e1}
    Workers = {w1, w2}
    NoEvent = NoEvent
    MaxAttempts = 4
    RetryBase = 1
    RetryCap = 2
    MaxShift = 2
    MaxDisruptions = 3
    MaxReplays = 1
SYMMETRY WorkerSymmetry
INVARIANTS TypeOK NoSharedRow HeldRowIsDue AckedIsStored
PROPERTIES VerdictsUnderLock SettledRowsStay
