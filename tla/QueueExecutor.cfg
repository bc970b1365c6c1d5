CONSTANTS
    Workers = {w1}
    Tickets = {t1, t2}
    Clients = {c1, c2}
    NonCancelable = {t2}
    MaxCalls = 2
    PoolTasks = {loop}
    LoopTask = loop
    NoTask = NoTask
    FinishTasksOnClose = FALSE
    NoTicket = NoTicket
    NoThread = NoThread
SPECIFICATION ExecutorFairSpec
CHECK_DEADLOCK FALSE
INVARIANTS
    ShutdownKeepsPromise
PROPERTIES
    DiscardedNeverStarts
    ClearReturns
