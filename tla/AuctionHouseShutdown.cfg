SPECIFICATION Spec
CONSTANTS
    c1 = c1
    c2 = c2
    c3 = c3
    a1 = a1
    a2 = a2
    i1 = i1
    Nobody = Nobody
    Characters = {c1, c2, c3}
    Items = {i1}
    Account <- MCAccount
    Home <- MCHome
    StartGold <- MCStartGold
    Deposit = 1
    CutPercent = 50
    StartBid = 1
    Prices = {1, 2}
    Buyouts = {0, 2}
    MaxQueue = 2
PROPERTIES
    ShutdownStores
