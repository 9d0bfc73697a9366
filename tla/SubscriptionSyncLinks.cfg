\* A mapped customer's subscription with two agreeing events, another customer's
\* that may come before its mapping, and a payload to reject.
SPECIFICATION FairSpec
CONSTANTS
    c1 = c1
    c2 = c2
    s1 = s1
    s2 = s2
    s3 = s3
    made1 = made1
    made1b = made1b
    made3 = made3
    cut2 = cut2
    many3 = many3
    odd2 = odd2
    upd2 = upd2
    SameTerms = TRUE
    Customers = {c1, c2}
    Subscriptions = {s1, s2, s3}
    Events = {made1, made1b, made3, many3}
    NoOps = {}
    Subscription <- MCSubscription
    CustomerOf <- MCCustomerOf
    Terms <- MCTerms
    Shape <- MCShape
    Mapped = {c1}
    Workers = {w1, w2}
    None = None
    MaxAttempts = 2
    MaxFaults = 1
    MaxRefusals = 0
CHECK_DEADLOCK FALSE
INVARIANTS FailedAfterFullBudget OneContractPerTerms
PROPERTY EverySubscriptionLinked
