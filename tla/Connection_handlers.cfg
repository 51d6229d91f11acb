SPECIFICATION Spec
CONSTANTS
    Messages = {m1, m2}
    NoMsg = NoMsg
    BadPackets = {"unknown", "overrun"}
    Faults <- AllFaults
    MaxProtocolTasks = 1
INVARIANTS
    TypeOK
    SocketOutlivesItsUsers
    OneWriteAtATime
    OpenMeansListening
    CloseTaskMatchesState
    RefsMatchMessages
    ProtocolOutlivesItsUsers
\* The two threads can lock each other out: see Connection_locks.cfg.
CHECK_DEADLOCK FALSE
