\* A careful caller: delete only what search finds, as cache.c does.
CONSTANTS
    a = a
    b = b
    c = c
    d = d
    Names <- MCNames
    Hash <- MCHash
    Stored <- MCStored
    InitSize = 2
    UintMod = 64
    MaxInserts = 6
    NoData = NoData
    AbsentDeletes = {}
SPECIFICATION Spec
INVARIANTS
    TypeOK
    SearchFindsLatest
    NumExact
    LoadBounded
    HeapIsNodes
\* The program ends with the table destroyed, or in a division by zero.
CHECK_DEADLOCK FALSE
