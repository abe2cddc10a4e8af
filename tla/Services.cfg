SPECIFICATION ServicesSpec
CONSTANTS
    a1 = a1
    a2 = a2
    a3 = a3
    a4 = a4
    a5 = a5
    c1 = c1
    c2 = c2
    c3 = c3
    i1 = i1
    i2 = i2
    g1 = g1
    g2 = g2
    Accounts = {a1, a2, a3, a4, a5}
    PlayerLimit = 2
    Nobody = Nobody
    Characters = {c1, c2, c3}
    Items = {i1, i2}
    StartGold <- MCStartGold
    Home <- MCHome
    Deposit = 1
    CutPercent = 50
    StartBid = 1
    Prices = {1, 2, 3}
    Buyouts = {0, 2, 3}
    Savers = {c1, c2}
    SaveInterval = 20
    MaxTicket = 3
    MaxSkip = 3
    Traders = {c1, c2}
    NoTrader = NoTrader
    TradeItems = {i1, i2}
    NoItem = NoItem
    TradedSlots = {1}
    ShownSlot = 0
    ShownItems = {}
    Eligible <- MCEligible
    FirstOwner <- MCHome
    FirstGold <- MCFirstGold
    Room <- MCRoom
    MaxMoney = 2
    Sums = {0, 1}
    NoBG = NoBG
    Fighters = {c1, c2, c3}
    Side <- MCSide
    BGTypes = {"warsong"}
    Battlegrounds = {1}
    Stamps = {1, 2}
    MinPerTeam = 1
    MaxPerTeam = 2
    MaxGroupSize = 2
    InvitationTypes = {"no_balance", "balanced", "even"}
    Looters = {c1, c2, c3}
    LootItems = {i1}
    NoLooter = NoLooter
    MaxCast = 3
    Finders = {c1, c2, c3}
    Parties = {g1, g2}
    NoParty = NoParty
    PartySize = 3
    MaxRequests = 7
    MinFound = 1
    AllFound = 2
    Unfit = {}
    Parts = {"login", "market", "saving", "trade", "battle", "loot", "dungeon"}
INVARIANTS
    WaitsOnce
    NoIdleSlot
    ItemOnce
    ItemFound
    BidsStand
    InvitedMatches
    SlotsMatch
    BlockedHasRoll
    NoMissedMatch
    AskedHasProposal
PROPERTIES
    AdmittedInOrder
    DueStays
    ExchangeHonoured
    RollFair
CHECK_DEADLOCK FALSE
