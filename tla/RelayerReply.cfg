\* Clients on two hosts, which use the same port; nothing fails.
CONSTANTS
    c1 = c1
    c2 = c2
    c3 = c3
    h1 = h1
    h2 = h2
    ip1 = ip1
    ip2 = ip2
    Root = Root
    Unreadable = Unreadable
    NoClient = NoClient
    NoMsg = NoMsg
    Clients = {c1, c2}
    Cli = {c1}
    Hosts = {h1, h2}
    Workers = {w1, w2}
    LabelLen <- MCLabelLen
    BinaryLen <- MCBinaryLen
    HashKeyMaxLen = 8
    ZeroAfter <- MCZeroAfter
    MaxSize = 3
    Addr <- TwoHosts
    Asks <- MCAsks
    Answers <- MCAnswers
    FdLimit = 2
    Faults = {}
SPECIFICATION Spec
INVARIANT ReplyToAsker
\* Every client has ended, or the process has.
CHECK_DEADLOCK FALSE
