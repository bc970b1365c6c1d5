CONSTANTS
    Requests = {r1, s1}
    Eventing = {s1}
    Cancelling = {r1, s1}
    Clients = {c1, c2}
    Dispatcher = dispatcher
    Deleter = deleter
    NoRequest = NoRequest
    MaxEvents = 2
SPECIFICATION FairSpec
CHECK_DEADLOCK FALSE
INVARIANTS
    RequestLivesOnce
    OneAnswer
    DestroyedIsQuiet
PROPERTIES
    CallsReturn
