\* Two differing events of one subscription, rejected and acknowledged events of
\* another one of the same customer, one fault and one refusal.
SPECIFICATION Spec
CONSTANTS
    c1 = c1
    c2 = c2
    s1 = s1
    s2 = s2
    s3 = s3
    made1 = made1
    made1b = made1b
    made3 = made3
    cut2 = cut2
    many3 = many3
    odd2 = odd2
    upd2 = upd2
    SameTerms = FALSE
    Customers = {c1}
    Subscriptions = {s1, s2}
    Events = {made1, made1b, odd2, cut2, upd2}
    NoOps = {upd2}
    Subscription <- MCSubscription
    CustomerOf <- MCCustomerOf
    Terms <- MCTerms
    Shape <- MCShape
    Mapped = {c1}
    Workers = {w1, w2}
    None = None
    MaxAttempts = 2
    MaxFaults = 1
    MaxRefusals = 1
CHECK_DEADLOCK FALSE
SYMMETRY WorkerSymmetry
INVARIANTS TypeOK LinkConfirmed
PROPERTIES LinkStable ImplementsProvisioning
