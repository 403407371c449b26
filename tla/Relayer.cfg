\* Three clients of one host; datagrams are lost, calls fail, sockets run out.
CONSTANTS
    c1 = c1
    c2 = c2
    c3 = c3
    h1 = h1
    h2 = h2
    ip1 = ip1
    ip2 = ip2
    Root = Root
    Unreadable = Unreadable
    NoClient = NoClient
    NoMsg = NoMsg
    Clients = {c1, c2, c3}
    Cli = {c1}
    Hosts = {h1, h2}
    Workers = {w1, w2}
    LabelLen <- MCLabelLen
    BinaryLen <- MCBinaryLen
    HashKeyMaxLen = 8
    ZeroAfter <- MCZeroAfter
    MaxSize = 3
    Addr <- OneHost
    Asks <- MCAsks
    Answers <- MCAnswers
    FdLimit = 2
    Faults = {"recv", "send", "lost"}
SPECIFICATION Spec
INVARIANTS
    TypeOK
    QueryIntact
    ReadAsSaid
    OwnAnswer
    LeaksAccounted
PROPERTY EveryRequestHandled
\* Every client has ended, or the process has.
CHECK_DEADLOCK FALSE
