SPECIFICATION Spec
CONSTANTS
    PoolSize = 3
    StackSize = 4
    MaxUser = 3
    MaxRefs = 3
INVARIANTS
    TypeOK
    NoNullDeref
    LedgerCoversBusy
    UserLedger
    LiveEntries
    LastFreeIsFree
PROPERTIES
    FreshOutput
    UnholdAllRepairs
