\* Two events with any outcome and an exponent that never overflows. Liveness:
\* no symmetry.
SPECIFICATION FairSpec
CONSTANTS
    Events = {e1, e2}
    Valid = {e1, e2}
    Registered = {e1, e2}
    Workers = {w1, w2}
    NoEvent = NoEvent
    MaxAttempts = 2
    RetryBase = 1
    RetryCap = 2
    MaxShift = 1024
    MaxDisruptions = 2
    MaxReplays = 1
INVARIANT AttemptsBudget
PROPERTIES EveryEventSettles ImplementsLifecycle
