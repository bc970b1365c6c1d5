CONSTANTS
    CallsOf <- BlockingAndAbort
    Internal = TRUE
    MaxCalls = 6
SPECIFICATION FairSpec
CHECK_DEADLOCK FALSE
INVARIANTS
    BusyMeansOngoing
PROPERTIES
    BlockingCallIsHandled
    BlockingCallReturns
