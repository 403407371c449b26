\* Two workers, no local file, an upstream server that answers.
CONSTANTS
    ip1 = ip1
    ip2 = ip2
    Zero = Zero
    Garbage = Garbage
    Root = Root
    Unreadable = Unreadable
    NoRequest = NoRequest
    NoMsg = NoMsg
    NoEntry = NoEntry
    LabelLen <- MCLabelLen
    BinaryLen <- MCBinaryLen
    HashKeyMaxLen = 50
    ZeroAfter = {}
    MaxSize = 4
    Names <- AllNames
    Addresses <- AllAddresses
    Workers = {w1, w2}
    Requests = {1, 2, 3}
    Asks <- RelayAsks
    Upstream <- RelayUpstream
    File <- NoFile
    LocalTTL = 2
    CommandLines <- TwoThreads
    Atoi <- MCAtoi
    Readable = {"hosts"}
    DnsAddresses = {"8.8.8.8"}
    DefaultPool = 1
    DefaultCache = 1
    MaxNum = 2
    FdLimit = 2
    Faults = {}
    UintMod = 256
    MaxTime = 2
SPECIFICATION Spec
SYMMETRY WorkerSymmetry
INVARIANTS
    TypeOK
    AnswersBacked
    AnswersAsked
    TtlLeft
    HeapAccounted
\* Every request has been handled.
CHECK_DEADLOCK FALSE
