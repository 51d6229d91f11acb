--------------------------- MODULE MCWaitingList ---------------------------
\* WaitingList on an instance TLC can explore.
EXTENDS WaitingList, TLC

CONSTANTS free1, free2, free3, paid1, paid2, staff

MCPlayers == {free1, free2, free3, paid1, paid2, staff}
MCPremium == {paid1, paid2}
MCAlwaysLogin == {staff}

Symmetry == Permutations({free1, free2, free3}) \cup Permutations(MCPremium)
=============================================================================
