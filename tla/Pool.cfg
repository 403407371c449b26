\* Two workers, a client that submits, a client that submits and may close.
CONSTANTS
    Workers = {w1, w2}
    Clients = {c1, c2}
    Closers = {c2}
    MaxTasks = 3
    NoTask = NoTask
    NoThread = NoThread
SPECIFICATION FairSpec
INVARIANTS
    TypeOK
    TasksAccounted
    PopFindsTask
    WorkConserving
    DestroyQuiesces
PROPERTIES
    TaskQueueSpec
    EveryTaskRuns
    ClosePoolEnds
\* A pool that was closed stops; so does ClosePool that waits in vain.
CHECK_DEADLOCK FALSE
