\* A lost answer, then a 409 and a list without the contract.
SPECIFICATION Spec
CONSTANTS
    c1 = c1
    c2 = c2
    s1 = s1
    s2 = s2
    s3 = s3
    made1 = made1
    made1b = made1b
    made3 = made3
    cut2 = cut2
    many3 = many3
    odd2 = odd2
    upd2 = upd2
    SameTerms = TRUE
    Customers = {c1}
    Subscriptions = {s1}
    Events = {made1}
    NoOps = {}
    Subscription <- MCSubscription
    CustomerOf <- MCCustomerOf
    Terms <- MCTerms
    Shape <- MCShape
    Mapped = {c1}
    Workers = {w1}
    None = None
    MaxAttempts = 3
    MaxFaults = 1
    MaxRefusals = 1
CHECK_DEADLOCK FALSE
PROPERTY MissIsPermanent
