\* Three frames and a stray byte, cut in every way by reads of up to eight bytes.
CONSTANTS
    ByteMod = 8
    HeadOne = 4
    HeadTwo = 3
    MaxBuffer = 16
    Slack = 2
    MaxRead = 8
    MaxRetryTimes = 1
    ReportTypes = {1, 2}
    Frames <- MCFrames
    MaxFrames = 3
    MaxNoise = 1
SPECIFICATION MCSpec
INVARIANTS TypeOK BufferBound FramesOnce NoneMissed
PROPERTIES NothingMadeUp
\* the read thread waits when no byte comes
CHECK_DEADLOCK FALSE
