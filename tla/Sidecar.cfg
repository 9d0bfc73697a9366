\* One worker, events in any order, one fault and one refusal; two attempts and
\* delays of one and two ticks, so that a backoff can outlast the budget of another
\* event. Liveness: no symmetry.
SPECIFICATION FairSpec
CONSTANTS
    c1 = c1
    s1 = s1
    s2 = s2
    new1 = new1
    upd1 = upd1
    made1 = made1
    made2 = made2
    Customers = {c1}
    Subscriptions = {s1, s2}
    Events = {new1, upd1, made1, made2}
    CustomerEvents = {new1, upd1}
    Customer <- MCCustomer
    Version <- MCVersion
    Created = {new1}
    Subscription <- MCSubscription
    CustomerOf <- MCCustomerOf
    NoOps = {}
    Terms <- MCTerms
    Workers = {w1}
    None = None
    MaxAttempts = 2
    MaxFaults = 1
    MaxRefusals = 1
    RetryBase = 2
    RetryCap = 2
CHECK_DEADLOCK FALSE
INVARIANT NameMatchesLatest
PROPERTIES ImplementsCustomerSync ImplementsSubscriptionSync ImplementsProvisioning EverySubscriptionLinked
