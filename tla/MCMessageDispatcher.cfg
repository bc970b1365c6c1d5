CONSTANTS
    Clients = {c1, c2}
    Owner = owner
    Loop = loop
    MaxActions = 4
    MaxExecutes = 2
SPECIFICATION FairSpec
CHECK_DEADLOCK FALSE
INVARIANTS
    NoLostWakeup
PROPERTIES
    RunsInOrder
    NoActionStartsDuringStop
    NothingWaitsForEver
