SPECIFICATION FairSpec
CONSTANTS
    Tasks = {t1, t2}
    ShutdownTask = shutdown
    NoTask = null
    Delays <- ShortAndLong
    MinTicks = 2
    TaskExpiration = 1
    MaxEventId = 2
    MaxTime = 3
PROPERTY EventsLeaveTheHeap
PROPERTY TasksLeaveTheQueue
\* the supply of tasks is finite and a shut down server stops
CHECK_DEADLOCK FALSE
