\* Two workers read the local file.
CONSTANTS
    ip1 = ip1
    ip2 = ip2
    Zero = Zero
    Garbage = Garbage
    Root = Root
    Unreadable = Unreadable
    NoRequest = NoRequest
    NoMsg = NoMsg
    NoEntry = NoEntry
    LabelLen <- MCLabelLen
    BinaryLen <- MCBinaryLen
    HashKeyMaxLen = 50
    ZeroAfter = {}
    MaxSize = 4
    Names <- AllNames
    Addresses <- AllAddresses
    Workers = {w1, w2}
    Requests = {1, 2}
    Asks <- LocalAsks
    Upstream <- LocalUpstream
    File <- LocalFile
    LocalTTL = 2
    CommandLines <- TwoThreads
    Atoi <- MCAtoi
    Readable = {"hosts"}
    DnsAddresses = {"8.8.8.8"}
    DefaultPool = 1
    DefaultCache = 1
    MaxNum = 2
    FdLimit = 2
    Faults = {}
    UintMod = 256
    MaxTime = 0
SPECIFICATION Spec
INVARIANT LocalFileObeyed
\* Every request has been handled, or the process has exited.
CHECK_DEADLOCK FALSE
