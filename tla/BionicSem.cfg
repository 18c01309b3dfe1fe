\* One thread that waits, one that waits with a deadline or tries, two posts.
CONSTANTS
    Waiter = Waiter
    Timed = Timed
    Poster1 = Poster1
    Poster2 = Poster2
    SEM_MAX_VALUE = 2
    Thread <- MCThread
    Calls <- MCCalls
SPECIFICATION Spec
INVARIANTS TypeOK SleeperSeen
PROPERTIES Refinement UnitsTaken
