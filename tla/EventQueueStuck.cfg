\* A budget larger than the exponent of a float.
SPECIFICATION FairSpec
CONSTANTS
    Events = {e1}
    Valid = {e1}
    Registered = {e1}
    Workers = {w1}
    NoEvent = NoEvent
    MaxAttempts = 4
    RetryBase = 1
    RetryCap = 1
    MaxShift = 2
    MaxDisruptions = 0
    MaxReplays = 0
PROPERTY EveryEventSettles
