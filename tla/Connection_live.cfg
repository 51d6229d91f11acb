SPECIFICATION FairSpec
CONSTANTS
    Messages = {m1}
    NoMsg = NoMsg
    BadPackets = {}
    Faults <- AllFaults
    MaxProtocolTasks = 1
PROPERTIES
    ClosingConnectionIsReleased
