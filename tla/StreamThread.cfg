CONSTANTS
    UseRenderThread = TRUE
    MaxAttempts = 5
    SeqNumbers = 256
SPECIFICATION Spec
CHECK_DEADLOCK FALSE
INVARIANTS
    SessionIsWhole
    NoFrameAfterStop
PROPERTIES
    FramesAreConnected
    FramesFollowOn
