\* Large packets among the frames, read four bytes at a time.
CONSTANTS
    ByteMod = 8
    HeadOne = 7
    HeadTwo = 5
    MaxBuffer = 14
    Slack = 1
    MaxRead = 4
    MaxRetryTimes = 1
    General = 0
    Extended = 4
    GeneralTypes = {2}
    ExtendedTypes = {3, 6}
    ChangeType = 6
    ChangeKinds = {1}
    Frames <- MCFrames
    MaxFrames = 3
    SendsOn = TRUE
    MaxNoise = 0
SPECIFICATION MCSpec
INVARIANT NoOverflow
CHECK_DEADLOCK FALSE
