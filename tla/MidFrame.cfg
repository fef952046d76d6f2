SPECIFICATION Spec
CONSTANTS
    FrameHeader = 9
    BlockLen = 3
    MaxFrame = 4
    Bodies = {0, 4, 6}
    MaxFrames = 4
INVARIANTS
    VerdictsAtFrames
CHECK_DEADLOCK FALSE
