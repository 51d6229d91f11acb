SPECIFICATION Spec
CONSTANTS
    Players = {p1}
    Monsters = {m1, m2}
    Areas = {a1, a2}
    SpawnArea = a1
    Temple = a2
    Far = {{a1, a2}}
    SpawnSize = 1
    Buckets = 1
    MaxSummons = 1
    MaxReleases = 1
    NoCreature = NoCreature
SYMMETRY Symmetry
INVARIANTS
    TypeOK
    CountsMatchHolders
    NobodyIsForgotten
    MonstersWakeInSight
    SummonsHaveMasters
    AttackedAreInSight
