\* One thread fills the pool and closes it, as doc/Thread_pool.md does.
CONSTANTS
    Workers = {w1}
    Clients = {c1}
    Closers = {c1}
    MaxTasks = 1
    NoTask = NoTask
    NoThread = NoThread
SPECIFICATION FairSpec
PROPERTY ClosePoolReturns
CHECK_DEADLOCK FALSE
