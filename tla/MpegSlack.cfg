\* Two frames, no stray bytes.
CONSTANTS
    ByteMod = 8
    HeadOne = 4
    HeadTwo = 3
    MaxBuffer = 16
    Slack = 2
    MaxRead = 8
    MaxRetryTimes = 1
    ReportTypes = {1, 2}
    Frames <- MCFrames
    MaxFrames = 2
    MaxNoise = 0
SPECIFICATION MCSpec
INVARIANT NoOverflow
CHECK_DEADLOCK FALSE
