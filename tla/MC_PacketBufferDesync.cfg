CONSTANTS
    Payloads <- MCPayloads
    MaxSize = 6
    MaxWrites = 2
SPECIFICATION Spec
INVARIANT FramesIntact
CHECK_DEADLOCK FALSE
