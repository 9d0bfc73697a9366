\* A new or an old volume, good or bad settings, two disruptions of any kind.
CONSTANTS
    r1 = r1
    r2 = r2
    r3 = r3
    Poll = Poll
    Requests = {r1, r2, r3}
    PoolSize = 1
    MaxOverflow = 1
    MaxDisruptions = 2

SPECIFICATION FairSpec

INVARIANTS
    TypeOK
    SchemaIsStamped
    ReadyToRun
    PoolAccounts

PROPERTIES
    OutagesEnd
    EveryPostAnswered
    PollsGoOn
