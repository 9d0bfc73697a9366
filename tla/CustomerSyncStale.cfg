\* Two workers rename one customer at once.
SPECIFICATION Spec
CONSTANTS
    c1 = c1
    c2 = c2
    new1 = new1
    upd1 = upd1
    upd1b = upd1b
    new2 = new2
    bad2 = bad2
    Customers = {c1}
    Events = {new1, upd1, upd1b}
    Customer <- MCCustomer
    Version <- MCVersion
    Created = {new1}
    Mappable = {new1, upd1, upd1b}
    Workers = {w1, w2}
    None = None
    MaxAttempts = 2
    AliasUnique = FALSE
    InOrder = TRUE
    MaxFaults = 0
    MaxRefusals = 0
CHECK_DEADLOCK FALSE
INVARIANT NameMatchesLatest
