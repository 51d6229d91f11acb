SPECIFICATION FairSpec
CONSTANTS
    Messages = {m1, m2}
    NoMsg = NoMsg
    BadPackets = {"unknown"}
    Faults = {}
    MaxProtocolTasks = 1
PROPERTIES
    RipeMessagesAreSent
CHECK_DEADLOCK FALSE
