SPECIFICATION BuilderSpec
CONSTANTS
    t1 = t1
    t2 = t2
    r1 = r1
    r2 = r2
    r3 = r3
    r4 = r4
    r5 = r5
    Null = Null
    DefaultRow = DefaultRow
    Threads = {t1, t2}
    Rows = {r1, r2, r3, r4, r5}
    Spares = {}
    HashOf <- MCHashOf
    Work <- MCWork
    InitialCapacity = 2
    GroupSize = 2
    CapacityBits = 8
    ZeroHash = 0
INVARIANT
    RowsReadable
