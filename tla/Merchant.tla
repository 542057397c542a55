-------------------------------- MODULE Merchant --------------------------------
(***************************************************************************)
(* The merchant phase of a pilot's fold (crates/pilot/src/main.rs, from    *)
(* the read-back of the last trade to the carry leg) with the judgment it  *)
(* asks (crates/pilot/src/trade.rs), against an exchange that folds what   *)
(* is filed once a tick.  Kept: the book of positions and its file, the    *)
(* pending trade and its receipt, the exchange's clock on a lot, the       *)
(* pending overlay, the whole of the judgment with its arithmetic, the     *)
(* carry.  Left out: the units a counter buys beyond one cap, the          *)
(* tie-breaks between equal runs, what sisters have bound for a shelf, and *)
(* wear.  Clocks are kept as ticks to go; prices do not move, except       *)
(* between the board a buy is judged on and the fold that fills it.        *)
(***************************************************************************)
EXTENDS Chain

CONSTANTS Pumps,
          Fuel, Ticks,     \* for two stations
          Mid, Ask, Bid,   \* of a good at a station; Ask and Bid are 0 where it is not countered
          Kept,            \* what the decay leaves of a good after so many ticks, in bps
          Capacity, Tank,  \* the hull
          MinHold,         \* ticks before a bought lot may be sold
          Forecast,        \* the chain's words on the shelves, worked out once
          Posting,         \* the posting window of carry_horizon
          DailyCost, TicksPerDay, FuelPrice,
          Purses,          \* what credits and the opened line may come to
          Caps,            \* what a counter may take or give
          Contracts,       \* what the word of a freight contract may be, if one is held
          Contract,        \* and its units
          MaxHand, MaxFaults

ASSUME MerchantAssumption ==
    /\ IsFiniteSet(Stations) /\ IsFiniteSet(Goods) /\ Pumps \subseteq Stations
    /\ \A f \in {Fuel, Ticks} : f \in [Stations \X Stations -> Nat]
    /\ \A f \in {Mid, Ask, Bid} : f \in [Stations \X Goods -> Nat]
    /\ \A p \in Foreseen : Mid[p] = MidPrice(p[2], Shelves[p].stock, Shelves[p].equilibrium)
    /\ {Capacity, Tank, MinHold, TicksPerDay} \subseteq Nat \ {0}
    /\ {Posting, DailyCost, FuelPrice, Contract, MaxHand, MaxFaults} \subseteq Nat
    /\ Purses \subseteq Nat /\ Caps \subseteq Nat /\ Contracts \subseteq {"booked", "picked"}
    /\ Kept \in [Goods -> [0..(MinHold + Posting) -> 0..10000]]

VARIABLES berth, fly, tank,  \* the hull: its berth or where it is bound, ticks to fly
          hold, ripe,        \* the exchange: units of a good aboard, ticks until it may be sold
          queue,             \* the exchange: what is accepted and not folded
          receipt,           \* the exchange: the outcome of the last trade folded
          book,              \* holdings.json and its copy in memory
          wait,              \* pending_until, in ticks from now
          trade,             \* pending_trade
          trades,            \* the automation is granted and the key may file it
          hands, faults,     \* bounds
          bets,              \* history: goods aboard that the merchant bought
          paid,              \* history: what a unit of such a lot cost
          astray,            \* history: an answer or the process was lost since the last buy
          opened             \* history: the merchant filed a buy with a lot of its own aboard

hull == <<berth, fly, tank>>
bounds == <<hands, faults>>
history == <<bets, paid, astray, opened>>
merchantVars == <<hull, hold, ripe, queue, receipt, book, wait, trade, trades, bounds, history>>

Stale == 3 * MinHold  \* (STUCK_HOLDS + 1) hold periods

Positions == [units : 1..Capacity, basis : Nat, target : Stations \cup {None},
              age : 0..(Stale + 1), clock : 0..MinHold]

Trades == [side : {"sell"}, good : Goods, units : 1..Capacity, ask : Nat]
          \cup [side : {"buy"}, good : Goods, units : 1..Capacity, ask : Nat, target : Stations]

Receipts == [outcome : {"filled"}, total : Nat] \cup [outcome : {"minimum hold"}, ripe : 0..MinHold]
            \cup [outcome : {"short", "no stock"}]

ASSUME NoneAssumption == None \notin Positions \cup Trades \cup Receipts

\* What a hold carries.
Load(cargo) == MapThenSumSet(LAMBDA g : cargo[g], Goods)

\* The book has at most one position of a good, of at least a unit, and neither it nor the
\* hold is more than the hull carries.
MerchantTypeOK ==
    /\ berth \in Stations /\ fly \in 0..Max({Ticks[p] : p \in Stations \X Stations}) /\ tank \in 0..Tank
    /\ hold \in [Goods -> 0..Capacity] /\ ripe \in [Goods -> 0..MinHold]
    /\ book \in [Goods -> Positions \cup {None}]
    /\ wait \in 0..2 /\ trades \in BOOLEAN /\ hands \in 0..MaxHand /\ faults \in 0..MaxFaults
    /\ {queue, trade} \subseteq Trades \cup {None} /\ receipt \in Receipts \cup {None}
    /\ bets \subseteq {g \in Goods : hold[g] > 0}
    /\ paid \in [Goods -> Nat] /\ {astray, opened} \subseteq BOOLEAN
    /\ Load(hold) <= Capacity

Nothing == [g \in Goods |-> None]

MerchantInit ==
    /\ berth \in Stations /\ fly = 0 /\ tank = Tank
    /\ hold = [g \in Goods |-> 0] /\ ripe = [g \in Goods |-> 0]
    /\ queue = None /\ receipt = None /\ book = Nothing
    /\ wait = 0 /\ trade = None /\ trades = TRUE /\ hands = 0 /\ faults = 0
    /\ bets = {} /\ paid = [g \in Goods |-> 0] /\ astray = FALSE /\ opened = FALSE

-----------------------------------------------------------------------------
(* Arithmetic of trade.rs.                                                  *)

Bps(value, share) == (value * share) \div 10000

Docked == fly = 0

\* From the berth the hull is at, and at it.
FuelTo(s) == Fuel[<<berth, s>>]
TicksTo(s) == Ticks[<<berth, s>>]
AskHere(g) == Ask[<<berth, g>>]
BidHere(g) == Bid[<<berth, g>>]

Spot(s, g) == Mid[<<s, g>>] - Bps(Mid[<<s, g>>], 1800)

Horizon == MinHold + Posting

\* What the chain says of a shelf: its mid so many ticks from now, and the ticks until it is
\* dry if it is eaten.
ChainForecast ==
    [p \in Foreseen |->
        [mid |-> [t \in 0..Max({Horizon} \cup {Ticks[q] : q \in Stations \X Stations}) |->
                     MidThen(p[1], p[2], t)],
         dry |-> Dry(p[1], p[2])]]

\* That is the forecast the folds work with.  A mid is at least a credit and never more than
\* twice the base.
ASSUME ForecastAssumption ==
    /\ Forecast = ChainForecast
    /\ \A p \in Foreseen : \A t \in DOMAIN Forecast[p].mid :
          Forecast[p].mid[t] \in 1..Max({1, 2 * Register[p[2]].base})

ForeseenDry(s, g) == IF <<s, g>> \in DOMAIN Forecast THEN {Forecast[s, g].dry} \ {None} ELSE {}

\* What a unit will fetch there so many ticks from now, by the forecast where there is one.
UnitValue(s, g, when) ==
    IF <<s, g>> \notin DOMAIN Forecast THEN Spot(s, g)
    ELSE LET mid == Forecast[s, g].mid[when]
         IN Min({mid - Bps(mid, 1800), 2 * Spot(s, g)})

Surviving(g, units, when) == Bps(units, Kept[g][Min({when, Horizon})])

OnwardToPump(s) ==
    IF Pumps = {} \/ s \in Pumps THEN 0 ELSE Min({Fuel[<<s, p>>] : p \in Pumps})

CarryAffordable(cost, fuel) == fuel >= Bps(cost, 12000)

CarryFlyable(cost, fuel) == CarryAffordable(cost, fuel) /\ (fuel - cost) * 20 >= Tank

\* What the carry may leave with: at a pump, as much as the purse buys.
FuelAvailable(credits) ==
    IF berth \in Pumps THEN Min({Tank, tank + credits \div Max({FuelPrice, 1})}) ELSE tank

Sighted(g) == \E s \in Stations \ {berth} : Mid[<<s, g>>] > 0

Worth(f) == f.net * TicksPerDay - DailyCost * f.ticks

\* best_forward: where else the lot is worth most, on arrival or once the shelf has drained.
Forwards(g, units, fuel, answers) ==
    LET moments(s) ==
            LET flight == Max({TicksTo(s), 1})
            IN {flight} \cup {Clamped(dry, flight, Max({Horizon, flight})) : dry \in ForeseenDry(s, g)}
        reached == {s \in Stations \ {berth} : /\ answers /\ Mid[<<s, g>>] > 0
                                            /\ CarryAffordable(FuelTo(s), fuel)}
        all == UNION {{[net |-> UnitValue(s, g, when) * Surviving(g, units, when)
                                - FuelTo(s) * FuelPrice,
                        ticks |-> when] : when \in moments(s)} : s \in reached}
    IN {f \in all : \A other \in all : Worth(other) <= Worth(f)}

-----------------------------------------------------------------------------
(* decide_trade.  A board is read or empty; `in' is what this fold reads.   *)

\* With no board, or counters that take nothing, the purse is not asked.
Readings == {in \in [credits : Purses, cap : Caps, contract : {"none"} \cup Contracts,
                     board : BOOLEAN, map : BOOLEAN, answers : BOOLEAN, read : BOOLEAN] :
                /\ in.cap = 0 \/ ~in.board => in.credits = Max(Purses)
                /\ ~in.board => in.cap = Max(Caps)
                /\ ~in.map => in.answers}

\* In flight there is no board, no counter and no course to ask for.
Unasked(in) == in.board /\ in.cap = Max(Caps) /\ in.contract = "none" /\ in.answers

SpareHold(in, cargo) ==
    Max({0, Capacity - Load(cargo) - IF in.contract = "picked" THEN Contract ELSE 0})

NeedHold(in, cargo) == in.contract = "booked" /\ Contract > SpareHold(in, cargo)

\* A mutation: a lot nobody's bid clears is kept.
NeverStuck(h, in) == FALSE

\* Carried too long, or in the way of a booked load.
Stuck(h, in) == h.age > Stale \/ NeedHold(in, hold)

\* The bid here is worth as much as the best berth elsewhere, at what the wait costs.
TakenHere(g, h, units, in) ==
    IF ~in.map \/ ~Sighted(g) THEN BidHere(g) >= h.basis + Bps(h.basis, 1200)
    ELSE /\ BidHere(g) > 0
         /\ \A f \in Forwards(g, h.units, FuelAvailable(in.credits), in.answers) :
               (f.net - BidHere(g) * units) * TicksPerDay <= DailyCost * f.ticks

Sells(kept, in) ==
    {[side |-> "sell", good |-> g, units |-> Min({kept[g].units, in.cap}), ask |-> AskHere(g)] :
        g \in {g \in Goods : /\ kept[g] # None /\ kept[g].clock = 0
                             /\ in.board /\ AskHere(g) > 0 /\ in.cap > 0
                             /\ \/ TakenHere(g, kept[g], Min({kept[g].units, in.cap}), in)
                                \/ Stuck(kept[g], in)}}

\* The runs a good sold here could make: what lands at the forecast value, less what was
\* paid for what was loaded, less the carry's fuel and the leg from there to a pump.
Runs(in) ==
    LET fuel == FuelAvailable(in.credits)
        units(g) == Min({Bps(in.credits, 2500) \div AskHere(g), Bps(SpareHold(in, hold), 5000), in.cap})
        cost(s) == FuelTo(s) + OnwardToPump(s)
        when(s) == Max({TicksTo(s), MinHold})
        net(s, g) == UnitValue(s, g, when(s)) * Surviving(g, units(g), when(s))
                     - AskHere(g) * units(g) - cost(s) * FuelPrice
        margin(value, g) == value - AskHere(g) >= Max({1, Bps(AskHere(g), 2000)})
        sold == {g \in Goods : in.board /\ AskHere(g) > 0 /\ in.cap > 0}
        ceiling(s, g) == IF <<s, g>> \in DOMAIN Forecast THEN 2 * Spot(s, g) ELSE Spot(s, g)
        all == {r \in (Stations \ {berth}) \X sold :
                   /\ in.map /\ in.answers /\ Mid[r] > 0 /\ margin(ceiling(r[1], r[2]), r[2])
                   /\ CarryAffordable(cost(r[1]), fuel)
                   /\ margin(UnitValue(r[1], r[2], when(r[1])), r[2])
                   /\ units(r[2]) > 0 /\ net(r[1], r[2]) >= 150}
    IN {[side |-> "buy", good |-> r[2], units |-> units(r[2]), ask |-> AskHere(r[2]), target |-> r[1]] :
           r \in {r \in all : \A q \in all : net(q[1], q[2]) <= net(r[1], r[2])}}

\* One position at a time, and never when cash is at the floor or freight wants the space.
Buys(kept, in) ==
    IF kept # Nothing \/ NeedHold(in, hold) \/ SpareHold(in, hold) <= 0 \/ in.credits < 2000
    THEN {} ELSE Runs(in)

DecideTrade(kept, in) == IF Sells(kept, in) # {} THEN Sells(kept, in) ELSE Buys(kept, in)

-----------------------------------------------------------------------------
(* The fold of the pilot: read back, reconcile, judge, file.                *)

\* A mutation: nothing is read back.
ReadNothing(kept, read) == kept

\* The receipt sets the basis a fill had, or the clock a refusal names.
ReadBack(kept, read) ==
    IF trade = None \/ ~read \/ receipt = None \/ kept[trade.good] = None
    THEN kept
    ELSE IF receipt.outcome = "filled" /\ trade.side = "buy"
    THEN LET unit == (receipt.total + trade.units - 1) \div trade.units
         IN [kept EXCEPT ![trade.good].basis = Max({unit, trade.ask})]
    ELSE IF receipt.outcome = "minimum hold"
    THEN [kept EXCEPT ![trade.good].clock = receipt.ripe]
    ELSE kept

\* adopt_exchange_clocks: the exchange's word on when a lot may be sold.
AdoptClocks(kept) ==
    [g \in Goods |-> IF kept[g] # None /\ hold[g] > 0 THEN [kept[g] EXCEPT !.clock = ripe[g]]
                     ELSE kept[g]]

\* The dearest of some berths for a good, if the map was read.
Dearest(g, stations, map) ==
    LET mid(s) == Mid[<<s, g>>]
        paying == {s \in stations : mid(s) > 0}
    IN IF ~map \/ paying = {} THEN None ELSE CHOOSE s \in paying : \A r \in paying : mid(r) <= mid(s)

\* What is found aboard and not on the book.
Adopted(g, target) == [units |-> hold[g], basis |-> IF target = None THEN 0 ELSE Mid[<<target, g>>],
                       target |-> target, age |-> 0, clock |-> 0]

\* A mutation: a lot sold out stays on the book at no units.
ReconciledAtNothing(kept, map) ==
    [g \in Goods |-> IF kept[g] # None THEN [kept[g] EXCEPT !.units = hold[g]]
                     ELSE IF hold[g] = 0 THEN None ELSE Adopted(g, Dearest(g, Stations, map))]

\* reconcile_hold: the hold is the truth.
Reconciled(kept, map) ==
    [g \in Goods |-> IF hold[g] = 0 THEN None
                     ELSE IF kept[g] # None THEN [kept[g] EXCEPT !.units = hold[g]]
                     ELSE Adopted(g, Dearest(g, Stations, map))]

\* retarget: a lot at its own market that was not sold goes where it is worth most.
Retargeted(kept, map) ==
    [g \in Goods |-> IF kept[g] # None /\ kept[g].target = berth /\ kept[g].clock = 0
                     THEN [kept[g] EXCEPT !.target = Dearest(g, Stations \ {berth}, map)] ELSE kept[g]]

\* The newest position past its clock, if it is bound elsewhere and the leg can be flown.
Carries(kept, in) ==
    LET ready == {g \in Goods : kept[g] # None /\ kept[g].clock = 0 /\ kept[g].target # None}
        newest == {g \in ready : \A other \in ready : kept[g].age <= kept[other].age}
    IN {s \in {kept[g].target : g \in newest} :
           /\ in.contract = "none" /\ in.answers /\ s # berth
           /\ CarryFlyable(FuelTo(s) + OnwardToPump(s), tank)}

\* A mutation: what is accepted and not folded is not waited out.
WaitedOut == wait = 0

\* One intent in flight at a time: the pending overlay of /v1/me and the pilot's own.
Settled == wait = 0 /\ queue = None

\* The overlay shows what is in flight for this key, from before a restart too.
SeesPending == /\ queue # None /\ wait < 2 /\ wait' = 2
               /\ UNCHANGED <<hull, hold, ripe, queue, receipt, book, trade, trades, bounds, history>>

\* What the exchange made of an act: took it, did not take it, took it and the answer was
\* lost, or the pilot died before it wrote the book.
Files(d, kept, unread) ==
    \/ /\ queue' = d /\ wait' = 2 /\ trade' = d
       /\ book' = IF d.side = "sell" THEN kept
                  ELSE [kept EXCEPT ![d.good] = [units |-> d.units, basis |-> d.ask, target |-> d.target,
                                                 age |-> 0, clock |-> MinHold]]
       /\ astray' = (d.side = "sell" /\ unread)
       /\ UNCHANGED <<trades, faults>>
    \/ /\ trades' \in {trades, FALSE}
       /\ book' = kept /\ trade' = None /\ astray' = unread /\ UNCHANGED <<queue, wait, faults>>
    \/ /\ faults < MaxFaults /\ faults' = faults + 1
       /\ queue' = d /\ book' = kept /\ trade' = None /\ astray' = TRUE
       /\ UNCHANGED <<wait, trades>>

\* A berth to sell at takes so much of what is bought for it.
Sized(d, takes) == [d EXCEPT !.units = Min({d.units, takes})]

Rests(kept) == /\ book' = kept /\ trade' = None
               /\ UNCHANGED <<hull, queue, wait, trades, faults, opened>>

Pass(in) ==
    /\ trades /\ Settled /\ (in.read \/ trade # None) /\ (Docked \/ Unasked(in))
    /\ LET kept == Reconciled(AdoptClocks(ReadBack(book, in.read)), in.map)
           decisions == DecideTrade(kept, in)
           aimed == IF decisions = {} THEN Retargeted(kept, in.map) ELSE kept
           unread == astray \/ (trade # None /\ ~in.read)
       IN \/ /\ ~Docked \/ decisions = {}
             /\ Rests(IF Docked THEN aimed ELSE kept)
             /\ astray' = unread
          \/ /\ Docked /\ decisions = {}
             /\ \E s \in Carries(aimed, in) :
                   /\ berth' = s /\ fly' = TicksTo(s) /\ tank' = tank - FuelTo(s)
             /\ book' = aimed /\ trade' = None /\ wait' = 2
             /\ astray' = unread
             /\ UNCHANGED <<queue, trades, faults, opened>>
          \/ /\ Docked /\ decisions # {}
             /\ Rests(kept) /\ astray' = unread
          \/ /\ Docked
             /\ \E d \in decisions, takes \in Caps \ {0} :
                   /\ d.side = "buy" => in.contract # "booked"
                   /\ Files(IF d.side = "buy" THEN Sized(d, takes) ELSE d, kept, unread)
                   /\ opened' = (opened \/ (d.side = "buy" /\ (bets # {} \/ queue # None)))
             /\ UNCHANGED hull
    /\ receipt' = None  \* only the receipt a pending trade names is ever asked for
    /\ UNCHANGED <<hold, ripe, hands, bets, paid>>

\* The process ends and another starts; the file it was writing may be half a file.
Restarts == /\ faults < MaxFaults /\ faults' = faults + 1
            /\ wait' = 0 /\ trade' = None /\ receipt' = None /\ astray' = TRUE
            /\ book' \in {book, Nothing}
            /\ UNCHANGED <<hull, hold, ripe, queue, trades, hands, bets, paid, opened>>

-----------------------------------------------------------------------------
(* The exchange, the freight the hull flies, and the captain's own hand.    *)

Aged(kept) == [g \in Goods |-> IF kept[g] = None THEN None
                               ELSE [kept[g] EXCEPT !.age = Min({kept[g].age + 1, Stale + 1}),
                                                    !.clock = Max({kept[g].clock - 1, 0})]]

Ripens == [g \in Goods |-> Max({ripe[g] - 1, 0})]

Passes == /\ fly' = Max({fly - 1, 0}) /\ wait' = Max({wait - 1, 0}) /\ book' = Aged(book)
          /\ UNCHANGED <<berth, tank, trade, trades, bounds, astray, opened>>

Tick == /\ queue = None /\ Passes /\ ripe' = Ripens
        /\ UNCHANGED <<hold, queue, receipt, bets, paid>>

FoldSell ==
    /\ queue # None /\ queue.side = "sell" /\ Passes /\ queue' = None /\ ripe' = Ripens
    /\ LET g == queue.good IN
       \/ /\ hold[g] >= queue.units /\ ripe[g] = 0
          /\ hold' = [hold EXCEPT ![g] = @ - queue.units]
          /\ bets' = IF hold'[g] = 0 THEN bets \ {g} ELSE bets
          /\ paid' = IF hold'[g] = 0 THEN [paid EXCEPT ![g] = 0] ELSE paid
          /\ receipt' = [outcome |-> "filled", total |-> queue.units * BidHere(g)]
       \/ /\ hold[g] < queue.units /\ receipt' = [outcome |-> "short"] /\ UNCHANGED <<hold, bets, paid>>
       \/ /\ hold[g] >= queue.units /\ ripe[g] > 0
          /\ receipt' = [outcome |-> "minimum hold", ripe |-> ripe[g] - 1]
          /\ UNCHANGED <<hold, bets, paid>>

\* A buy is filled at what the counter then asks, or refused.
FoldBuy ==
    /\ queue # None /\ queue.side = "buy" /\ queue' = None
    /\ fly' = Max({fly - 1, 0}) /\ wait' = Max({wait - 1, 0}) /\ book' = Aged(book)
    /\ LET g == queue.good IN
       \/ /\ Load(hold) + queue.units <= Capacity
          /\ hold' = [hold EXCEPT ![g] = @ + queue.units]
          /\ ripe' = [Ripens EXCEPT ![g] = MinHold - 1]
          /\ \E price \in {queue.ask, queue.ask + Bps(queue.ask, 1000)} :
                /\ receipt' = [outcome |-> "filled", total |-> queue.units * price]
                /\ paid' = [paid EXCEPT ![g] = price]
          /\ bets' = IF hold[g] = 0 THEN bets \cup {g} ELSE bets
       \/ /\ receipt' = [outcome |-> "no stock"] /\ ripe' = Ripens /\ UNCHANGED <<hold, paid, bets>>
    /\ UNCHANGED <<berth, tank, trade, trades, bounds, astray, opened>>

ExchangeFolds == Tick \/ FoldSell \/ FoldBuy

\* The captain buys a unit at a counter, which arms the clock anew, or sells the lot.
ByHand == /\ Docked /\ hands < MaxHand /\ hands' = hands + 1
          /\ \E g \in Goods :
                /\ \/ /\ Load(hold) < Capacity
                      /\ hold' = [hold EXCEPT ![g] = @ + 1] /\ ripe' = [ripe EXCEPT ![g] = MinHold]
                   \/ /\ hold[g] > 0 /\ ripe[g] = 0
                      /\ hold' = [hold EXCEPT ![g] = 0] /\ UNCHANGED ripe
                /\ bets' = bets \ {g} /\ paid' = [paid EXCEPT ![g] = 0]
          /\ UNCHANGED <<hull, queue, receipt, book, wait, trade, trades, faults, astray, opened>>

\* Freight moves the hull between the merchant's folds, and fills the tank.
HullMoves == /\ Docked /\ Settled
             /\ \/ /\ tank' = Tank /\ UNCHANGED <<berth, fly>>
                \/ \E s \in Stations \ {berth} : /\ tank >= FuelTo(s) /\ tank' = tank - FuelTo(s)
                                                 /\ berth' = s /\ fly' = TicksTo(s)
             /\ UNCHANGED <<hold, ripe, queue, receipt, book, wait, trade, trades, bounds, history>>

MerchantNext == \/ SeesPending \/ (\E in \in Readings : Pass(in)) \/ Restarts
                \/ ExchangeFolds \/ ByHand \/ HullMoves

\* A fold on which everything is read, the counters take and the dial lets the act go out.
Clear == [credits |-> Max(Purses), cap |-> Max(Caps), contract |-> "none", board |-> TRUE, map |-> TRUE,
          answers |-> TRUE, read |-> TRUE]

FairPass == /\ Docked /\ Settled /\ hold' = hold /\ receipt' = None /\ Pass(Clear)
            /\ queue' = None => DecideTrade(book', Clear) = {}

Fairness == WF_merchantVars(ExchangeFolds) /\ WF_merchantVars(SeesPending) /\ SF_merchantVars(FairPass)

MerchantSpec == MerchantInit /\ [][MerchantNext]_merchantVars /\ Fairness

-----------------------------------------------------------------------------

\* The merchant opens one position at a time: neither a lost answer nor a restart has it buy
\* beside a lot of its own (trade.rs:880, main.rs:1295).
OneAtATime == ~opened

\* Once the receipt of a buy was read, the basis every sell is judged by is not below what
\* was paid, wherever the price went between the board and the fold (trade.rs:168).
BasisIsPaid ==
    \A g \in bets : book[g] # None /\ trade = None /\ ~astray => book[g].basis >= paid[g]

\* Bounded risk beats stuck risk: a lot aboard is sold in the end, while the automation is
\* granted and counters take it now and then (trade.rs:480).
SoldInTheEnd == \A g \in Goods : hold[g] > 0 ~> hold[g] = 0 \/ ~trades
=============================================================================
