SPECIFICATION PatientSpec
CONSTANTS
    corn = corn  east = east  west = west  far = far
    Commodities <- MCCommodities
    Islands <- MCIslands
    NoIsland = NoIsland
    InitialFunds = 14
    MaxCargo = 3
    SellPct = 40
    ChangePct = 60
    Reach = 2
    Near <- MCNear
    Wave <- MCWave
    FloorAtLoad <- MCFloor
    Ceiling <- MCCeiling
    FloorEdits = {2}
    MaxNet = 2
    MaxFunds = 12
INVARIANTS
    HistCanonical
    ShownPriceHolds
PROPERTIES
    LedgerFollowsCargo
    FundsFollowPrices
    PricesRecover
