SPECIFICATION OutfitSpec
CONSTANTS
    Sisters = {1}
    Debts = {0, 1}
    Purses = {5}
    Cap = 8
    Price <- MCPrice
    FrameCost = 2
    StartRung = 4
    Fitted = {"drive-tune", "hold-extension"}
    Mortgage = 1
    Service = 1
    TankPrice = 1
    HireCost = 1
    Wage = 1
    Meal = 0
    LoafADay = 1
    MaxAboard = 1
    Berths = 1
    Relief = 5000
    BaseAsk = 1
    LowSkill = 10000
    Pod = 2
    RepairRate = 5
    TicksPerDay = 1
    Evidence <- MCEvidence
    Quotes <- MCQuotes
    Rooms = {3}
    Incomes = {0, 8}
    Spends = {0}
    MaxHand = 1
    MaxFaults = 1
INVARIANTS OutfitTypeOK ChargesMet
PROPERTY HandsAreFed
