\* Two threads share a cache of two entries.
CONSTANTS
    x = x
    y = y
    z = z
    Names <- ShortKeys
    Hash <- ShortHash
    Stored <- ShortStored
    Keys <- ShortKeys
    KeptKey <- ShortStored
    InitSize = 2
    UintMod = 64
    Threads = {t1, t2}
    Addr = {a1, a2, a3}
    MaxSize = 2
    TTLs = {0, 1}
    MaxPuts = 3
    MaxTime = 1
    Free = Free
    Null = Null
    Garbage = Garbage
SPECIFICATION Spec
SYMMETRY AddrThreadSymmetry
INVARIANTS
    TypeOK
    ListOwnsUnits
    IndexMatchesList
    EntriesLatest
PROPERTY LruSpec
\* The cache ends destroyed, or in a division by zero.
CHECK_DEADLOCK FALSE
