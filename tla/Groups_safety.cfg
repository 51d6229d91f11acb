SPECIFICATION Spec
CONSTANTS
    Players = {p1, p2, gm}
    Gamemasters = {gm}
    Parties = {q1, q2}
    PrivateIds = {i1}
    RuleChannel = RuleChannel
    NormalChannels = {RuleChannel}
    Reporters = {p1}
    Chatters = {p1, p2}
    Custom = {p1}
    NoPlayer = NoPlayer
    NoParty = NoParty
    NoReport = NoReport
SYMMETRY Symmetry
INVARIANTS
    TypeOK
    PartiesAgree
    ChannelUsersBelong
    ReportsHaveBothEnds
PROPERTIES
    LeadersComeFromWithin
