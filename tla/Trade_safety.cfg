SPECIFICATION Spec
CONSTANTS
    Players = {p1, p2, p3}
    Items = {bag1, bag2, coin}
    Bags = {bag1, bag2}
    Tiles <- RowOfTiles
    Slots = 1
    BagRoom = 2
    Capacity = 3
    MaxOffer = 2
    NoPlayer = NoPlayer
    NoItem = NoItem
    Nowhere = Nowhere
SYMMETRY Symmetry
INVARIANTS
    TypeOK
    PartnersAgree
    OffersRegistered
    OffersDisjoint
    OffersIntact
    TradersInReach
PROPERTIES
    ExchangeOrNothing
    AgreementStands
