CONSTANTS
    Workers = {w1, w2}
    Tickets = {t1, t2, t3}
    Clients = {c1}
    PoolTasks = {loop}
    LoopTask = loop
    NoTask = NoTask
    FinishTasksOnClose = FALSE
    NoTicket = NoTicket
    NoThread = NoThread
SPECIFICATION FairSpec
CHECK_DEADLOCK FALSE
INVARIANTS
    TicketIsInOnePlace
    OneLoopWhileScheduled
    StopIsFinal
PROPERTIES
    QueueGoesOn
    ImplementsTicketQueue
