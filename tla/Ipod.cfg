\* Three frames and a stray byte, cut in every way by reads of up to eight bytes.
CONSTANTS
    ByteMod = 8
    HeadOne = 7
    HeadTwo = 5
    MaxBuffer = 16
    Slack = 2
    MaxRead = 8
    MaxRetryTimes = 0
    General = 0
    Extended = 4
    GeneralTypes = {2}
    ExtendedTypes = {3, 6}
    ChangeType = 6
    ChangeKinds = {1}
    Frames <- MCFrames
    MaxFrames = 3
    SendsOn = FALSE
    MaxNoise = 1
SPECIFICATION MCSpec
INVARIANTS TypeOK BoundedBuffer FramesOnce NoneMissed
PROPERTIES NothingMadeUp
\* the read thread waits when no byte comes
CHECK_DEADLOCK FALSE
