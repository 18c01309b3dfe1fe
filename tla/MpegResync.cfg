\* Two frames behind a stray byte that looks like the first HEAD byte.
CONSTANTS
    ByteMod = 8
    HeadOne = 4
    HeadTwo = 3
    MaxBuffer = 16
    Slack = 2
    MaxRead = 8
    MaxRetryTimes = 1
    ReportTypes = {1, 2}
    Frames <- MCFrames
    MaxFrames = 2
    MaxNoise = 1
SPECIFICATION MCSpec
INVARIANT DropsNoHead
CHECK_DEADLOCK FALSE
