\* Two threads share a cache of one entry.
CONSTANTS
    x = x
    y = y
    z = z
    Names <- ShortKeys
    Hash <- ShortHash
    Stored <- ShortStored
    Keys <- ShortKeys
    KeptKey <- ShortStored
    InitSize = 2
    UintMod = 64
    Threads = {t1, t2}
    Addr = {a1, a2}
    MaxSize = 1
    TTLs = {0, 1}
    MaxPuts = 3
    MaxTime = 1
    Free = Free
    Null = Null
    Garbage = Garbage
SPECIFICATION Spec
SYMMETRY AddrThreadSymmetry
INVARIANT GetReturnsOwnData
\* The cache ends destroyed, or in a division by zero.
CHECK_DEADLOCK FALSE
