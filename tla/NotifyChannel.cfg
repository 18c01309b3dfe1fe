\* One read thread, three threads that pop, four notifications.
CONSTANTS
    Reader = Reader
    Null = Null
    Consumers = {c1, c2, c3}
    MaxPush = 4
    Notification <- MCNotification
SPECIFICATION MCSpec
INVARIANTS TypeOK SemAccounting NoNullPop ExactlyOnce
PROPERTIES NoLostWakeup Refinement
\* when everything is delivered the consumers wait for ever
CHECK_DEADLOCK FALSE
