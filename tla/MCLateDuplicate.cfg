SPECIFICATION Spec
CONSTANTS
    t1 = t1
    t2 = t2
    a1 = a1
    a2 = a2
    Default = Default
    Threads = {t1, t2}
    Rows = {a1, a2}
    HashOf <- MCHashOf
    Work <- MCWork
    Hashes <- MCHashes
    TagOf <- MCTagOf
    StartOf <- MCStartOf
    Capacity = 4
    GroupSize = 2
    StaleHashLoads = FALSE
INVARIANT
    ClaimedCellWasDefault
