\* An answer with two CNAME records.
CONSTANTS
    ip1 = ip1
    ip2 = ip2
    Zero = Zero
    Garbage = Garbage
    Root = Root
    Unreadable = Unreadable
    NoRequest = NoRequest
    NoMsg = NoMsg
    NoEntry = NoEntry
    LabelLen <- MCLabelLen
    BinaryLen <- MCBinaryLen
    HashKeyMaxLen = 50
    ZeroAfter = {}
    MaxSize = 4
    Names <- AllNames
    Addresses <- AllAddresses
    Workers = {w1}
    Requests = {1, 2}
    Asks <- ChainAsks
    Upstream <- ChainUpstream
    File <- NoFile
    LocalTTL = 2
    CommandLines <- ThreeCached
    Atoi <- MCAtoi
    Readable = {"hosts"}
    DnsAddresses = {"8.8.8.8"}
    DefaultPool = 1
    DefaultCache = 3
    MaxNum = 2
    FdLimit = 1
    Faults = {}
    UintMod = 256
    MaxTime = 0
SPECIFICATION Spec
INVARIANT AnswersBacked
\* Every request has been handled, or the process has exited.
CHECK_DEADLOCK FALSE
