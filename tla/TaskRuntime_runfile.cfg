SPECIFICATION FairSpec
CONSTANTS
    Tasks = {t1}
    ShutdownTask = shutdown
    NoTask = null
    Delays <- ShortAndLong
    MinTicks = 2
    TaskExpiration = 1
    MaxEventId = 2
    MaxTime = 2
PROPERTY InternalShutdownClearsRunfile
\* the supply of tasks is finite and a shut down server stops
CHECK_DEADLOCK FALSE
