SPECIFICATION Spec
CONSTANTS
    Tasks = {t1, t2, t3}
    ShutdownTask = shutdown
    NoTask = null
    Delays <- ShortAndLong
    MinTicks = 2
    TaskExpiration = 1
    MaxEventId = 2
    MaxTime = 3
INVARIANT TypeOK
INVARIANT StoppedNeverRuns
INVARIANT SingleOwner
INVARIANT TimeoutHasDueEvent
INVARIANT EventsNeverExpire
INVARIANT ActiveIdsAreQueued
INVARIANT NothingStranded
PROPERTY ImplementsEventService
\* the supply of tasks is finite and a shut down server stops
CHECK_DEADLOCK FALSE
SYMMETRY Symmetry
