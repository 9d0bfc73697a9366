\* Two workers, out-of-order events, an unmappable payload, faults and refusals.
\* Liveness: no symmetry.
SPECIFICATION FairSpec
CONSTANTS
    c1 = c1
    c2 = c2
    new1 = new1
    upd1 = upd1
    upd1b = upd1b
    new2 = new2
    bad2 = bad2
    Customers = {c1, c2}
    Events = {new1, upd1, new2, bad2}
    Customer <- MCCustomer
    Version <- MCVersion
    Created = {new1, new2}
    Mappable = {new1, upd1, new2}
    Workers = {w1, w2}
    None = None
    MaxAttempts = 2
    AliasUnique = FALSE
    InOrder = FALSE
    MaxFaults = 1
    MaxRefusals = 1
CHECK_DEADLOCK FALSE
INVARIANTS TypeOK MappingConfirmed ProcessedIsMapped
PROPERTIES MappingStable ImplementsProvisioning EveryEventProcessed
