\* One worker fails once after Metronome has created the customer, and
\* Metronome refuses an alias in use.
SPECIFICATION Spec
CONSTANTS
    c1 = c1
    c2 = c2
    new1 = new1
    upd1 = upd1
    upd1b = upd1b
    new2 = new2
    bad2 = bad2
    Customers = {c1}
    Events = {new1}
    Customer <- MCCustomer
    Version <- MCVersion
    Created = {new1}
    Mappable = {new1}
    Workers = {w1}
    None = None
    MaxAttempts = 3
    AliasUnique = TRUE
    InOrder = TRUE
    MaxFaults = 1
    MaxRefusals = 0
CHECK_DEADLOCK FALSE
INVARIANT EndsMapped
