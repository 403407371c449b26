\* poolsize=1: one worker reads the local file; sockets and messages fail.
CONSTANTS
    ip1 = ip1
    ip2 = ip2
    Zero = Zero
    Garbage = Garbage
    Root = Root
    Unreadable = Unreadable
    NoRequest = NoRequest
    NoMsg = NoMsg
    NoEntry = NoEntry
    LabelLen <- MCLabelLen
    BinaryLen <- MCBinaryLen
    HashKeyMaxLen = 50
    ZeroAfter = {}
    MaxSize = 4
    Names <- AllNames
    Addresses <- AllAddresses
    Workers = {w1}
    Requests = {1, 2, 3}
    Asks <- LocalAsks
    Upstream <- LocalUpstream
    File <- LocalFile
    LocalTTL = 1
    CommandLines <- AnyLine
    Atoi <- MCAtoi
    Readable = {"hosts"}
    DnsAddresses = {"8.8.8.8"}
    DefaultPool = 1
    DefaultCache = 1
    MaxNum = 2
    FdLimit = 2
    Faults = {"bind", "recv", "send", "lost"}
    UintMod = 256
    MaxTime = 2
SPECIFICATION FairSpec
INVARIANTS
    RepliedOnce
    SocketsAccounted
    LocalFileObeyed
    ReplyHeader
    HeapAccounted
PROPERTY EveryRequestAnswered
\* Every request has been handled, or the process has exited.
CHECK_DEADLOCK FALSE
