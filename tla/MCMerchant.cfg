SPECIFICATION MerchantSpec
CONSTANTS
    pump = pump
    far = far
    tuna = tuna
    held = held
    press = press
    None = None
    Stations <- MCStations
    Pumps = {pump}
    Goods <- MCGoods
    Fuel <- MCFuel
    Ticks <- MCTicks
    Mid <- MCMid
    Ask <- MCAsk
    Bid <- MCBid
    Lines <- MCLines
    Shelves <- MCShelves
    Deck <- MCDeck
    News <- MCNews
    Register <- MCRegister
    Kept <- MCKept
    Forecast <- MCForecast
    Capacity = 4
    Tank = 10
    MinHold = 2
    Posting = 1
    DailyCost = 600
    TicksPerDay = 288
    FuelPrice = 2
    Purses = {4000}
    Caps = {0, 4}
    Contracts = {"booked"}
    Contract = 3
    MaxHand = 1
    MaxFaults = 1
INVARIANTS MerchantTypeOK OneAtATime BasisIsPaid
PROPERTY SoldInTheEnd
