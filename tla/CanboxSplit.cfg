\* One event; read may return it in pieces.
CONSTANTS
    ByteMod = 4
    HeadByte = 2
    AckByte = 3
    NakByte = 1
    MaxBuffer = 8
    Slack = 1
    MaxRead = 3
    MaxRetryTimes = 0
    MaxDrain = 1
    MaxTries = 3
    Reader = Reader
    Senders = {s1}
    NoThread = NoThread
    Events <- MCEvents
    MaxEvents = 1
    MaxCalls = 1
    MaxSem = 1
    MaxFrames = 1
SPECIFICATION MCSpec
INVARIANT IntactAccepted
CHECK_DEADLOCK FALSE
