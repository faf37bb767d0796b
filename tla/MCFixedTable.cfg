SPECIFICATION Spec
CONSTANTS
    t1 = t1
    t2 = t2
    t3 = t3
    a1 = a1
    a2 = a2
    b1 = b1
    c1 = c1
    d1 = d1
    e1 = e1
    Default = Default
    Threads = {t1, t2, t3}
    Rows = {a1, a2, b1, c1, d1, e1}
    HashOf <- MCHashOf
    Work <- MCWork
    Hashes <- MCHashes
    TagOf <- MCTagOf
    StartOf <- MCStartOf
    Capacity = 4
    GroupSize = 2
    StaleHashLoads = FALSE
INVARIANTS
    TypeOK
    TagsShowWrittenCells
    EveryHashReadable
    GetReturnsUnlessFull
    BulkAgreesWithGet
    IteratesWholeTables
PROPERTY
    ImplementsAtomicTable
