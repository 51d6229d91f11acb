SPECIFICATION FairSpec
CONSTANTS
    Messages = {m1, m2}
    NoMsg = NoMsg
    BadPackets = {}
    Faults = {"read", "write", "size", "flood"}
    MaxProtocolTasks = 1
PROPERTIES
    MessagesReturn
