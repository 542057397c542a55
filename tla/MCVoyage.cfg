SPECIFICATION VoyageSpec
CONSTANTS
    pump = pump
    near = near
    far = far
    out = out
    back = back
    onward = onward
    home = home
    None = None
    Stations <- MCStations
    Pumps <- MCPumps
    Loads <- MCLoads
    Origin <- MCOrigin
    Dest <- MCDest
    Windows = {7, 14}
    Fuel <- MCFuel
    Ticks <- MCTicks
    EconomyFuel <- MCEconomyFuel
    EconomyTicks <- MCEconomyTicks
    Tank = 60
    Hold = 3
    Goods = {0}
    Bay = 2
    PickupTTL = 10
    Engage = 2
    Loading = 1
    AirMargin = 3
    TankerTicks = 2
    Denied = {}
INVARIANTS VoyageTypeOK  NeverStranded
