CONSTANTS
    UseRenderThread = TRUE
    MaxAttempts = 5
    SeqNumbers = 256
SPECIFICATION FairSpec
CHECK_DEADLOCK FALSE
PROPERTIES
    StopReturns
