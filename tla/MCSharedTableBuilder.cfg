SPECIFICATION BuilderSpec
CONSTANTS
    t1 = t1
    t2 = t2
    t3 = t3
    r1 = r1
    r2 = r2
    r3 = r3
    r4 = r4
    Null = Null
    DefaultRow = DefaultRow
    Threads = {t1, t2, t3}
    Rows = {r1, r2, r3, r4}
    original = original
    Spares = {original}
    HashOf <- MCHashOf
    Work <- MCWork
    InitialCapacity = 1
    GroupSize = 1
    CapacityBits = 8
    ZeroHash = 0
INVARIANTS
    GrowthInv
    OneMigrator
    OwnedOnce
    GrowsFromNewest
    ReplacedOnlyFull
    BuilderInv
    WritesCounted
    NoTableLeftBehind
    UnwrapHolds
    PublishedIsComplete
PROPERTIES
    EveryInsertReturns
    NoInsertAfterSetUp
    PublishedIsReadOnly
    CompactReturns
CHECK_DEADLOCK FALSE
