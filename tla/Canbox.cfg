\* One read thread and one sender that sends twice; two events, or any bytes.
CONSTANTS
    ByteMod = 4
    HeadByte = 2
    AckByte = 3
    NakByte = 1
    MaxBuffer = 8
    Slack = 1
    MaxRead = 3
    MaxRetryTimes = 0
    MaxDrain = 1
    MaxTries = 3
    Reader = Reader
    Senders = {s1}
    NoThread = NoThread
    Events <- MCEvents
    MaxEvents = 2
    MaxCalls = 2
    MaxSem = 2
    MaxFrames = 1
SPECIFICATION MCSpec
INVARIANTS TypeOK EventsOnce BufferBound NoGhostBytes
PROPERTIES WriteReturns
\* the read thread waits when no byte comes
CHECK_DEADLOCK FALSE
