SPECIFICATION Spec
CONSTANTS
    free1 = free1
    free2 = free2
    free3 = free3
    paid1 = paid1
    paid2 = paid2
    staff = staff
    Nobody = Nobody
    Players <- MCPlayers
    Premium <- MCPremium
    AlwaysLogin <- MCAlwaysLogin
    MaxPlayers = 1
INVARIANTS
    ToldMeansListed
