\* Names come and go one at a time: every delete halves the table.
CONSTANTS
    a = a
    b = b
    c = c
    d = d
    Names <- MCNames
    Hash <- MCHash
    Stored <- MCStored
    InitSize = 2
    UintMod = 64
    MaxInserts = 6
    NoData = NoData
    AbsentDeletes = {}
SPECIFICATION Spec
INVARIANT SearchReturns
\* The program ends with the table destroyed, or in a division by zero.
CHECK_DEADLOCK FALSE
