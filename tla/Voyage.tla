--------------------------------- MODULE Voyage ---------------------------------
(***************************************************************************)
(* The freight judgment, crates/pilot/src/doctrine.rs, closed with the     *)
(* exchange it steers by: decide_with is asked once a fold, and what it    *)
(* says is what the hull does.  It is stateless; what keeps a voyage sound *)
(* over many folds is only that each answer leaves a state from which the  *)
(* next one is sound too.  Kept: every rung and its order, both clocks of  *)
(* a contract, the tank, the tour over the held contracts.  Left out: what *)
(* a load pays (any load that may be booked may be the best one), wear     *)
(* (a repair may be due at any berth), the service class (one drive), and  *)
(* storms.  Deadlines are kept as ticks to go.                             *)
(***************************************************************************)
EXTENDS Integers, FiniteSets, SequencesExt

CONSTANTS Stations, Pumps, Loads, None,
          Origin, Dest,  \* where a load is picked up, and for where
          Windows,       \* ticks to its deadline a load on the board may have
          Fuel, Ticks,   \* what the router answers for two stations, standard burn
          EconomyFuel,   \* and economy burn, which is slower
          EconomyTicks,
          Tank, Hold,    \* the hull; a load takes one unit of the hold
          Goods,         \* units of the merchant's goods that may be aboard
          Bay,           \* BAY_LIMIT
          PickupTTL, Engage, Loading, AirMargin,
          TankerTicks,   \* how long a called tanker takes
          Denied         \* verbs the hull's key may not file

ASSUME VoyageAssumption ==
    /\ IsFiniteSet(Stations) /\ IsFiniteSet(Loads) /\ IsFiniteSet(Windows)
    /\ Pumps \subseteq Stations /\ None \notin Stations \cup Loads \cup Nat
    /\ None # [verb |-> "done"]
    /\ Origin \in [Loads -> Stations] /\ Dest \in [Loads -> Stations]
    /\ \A l \in Loads : Origin[l] # Dest[l]
    /\ \A f \in {Fuel, Ticks, EconomyFuel, EconomyTicks} :
          /\ f \in [Stations \X Stations -> Nat] /\ \A s \in Stations : f[<<s, s>>] = 0
    /\ Windows \subseteq Nat /\ Goods \subseteq 0..Hold
    /\ {Tank, Hold, Bay, PickupTTL, Engage, Loading, AirMargin, TankerTicks} \subseteq Nat \ {0}

Words == {"none", "booked", "picked", "delivered"}

VARIABLES at,      \* the berth, or where the course ends
          fly,     \* ticks left to fly, 0 at a berth
          tank,
          goods,
          word,    \* the ledger's word of each load
          left,    \* ticks to its delivery deadline
          window,  \* ticks to the end of its pickup window
          crane,   \* ticks its loading still takes
          active,  \* the contract the next act is about
          act,     \* what was filed this fold
          tanker,  \* ticks until a called tanker is here, or None
          late, lapsed,  \* history: loads that landed past a clock
          gambled, \* history: fuel was counted on that is not in the tank
          silent,  \* history: the router did not answer under a contract
          dry,     \* history: a course was declined for fuel, or a tanker was waited for
          squeezed,\* history: a companion was taken with no tick to spare for its own booking
          detoured \* history: a load was taken beside one still to be picked up elsewhere

hull == <<at, fly, tank, goods, tanker>>
bay == <<word, left, window, crane>>
history == <<late, lapsed, gambled, silent, dry, squeezed, detoured>>
voyageVars == <<hull, bay, active, act, history>>

HoldOn == [verb |-> "hold"]
Acts == {HoldOn} \cup [verb : {"refuel", "repair", "paws"}]
        \cup [verb : {"travel"}, to : Stations, economy : BOOLEAN]
        \cup [verb : {"book"}, load : Loads, due : Windows] \cup [verb : {"collect"}, load : Loads]

HighTicks == LET all == {Ticks[p] : p \in Stations \X Stations}
                        \cup {EconomyTicks[p] : p \in Stations \X Stations}
             IN Max(all) + Engage

HighWindow == Max(Windows \cup {0})

\* What is recorded of the hull and of each contract is within what the exchange allows; the
\* bay never holds more than its limit (doctrine.rs:555).
VoyageTypeOK ==
    /\ at \in Stations /\ fly \in 0..HighTicks /\ tank \in 0..Tank /\ goods \in Goods
    /\ word \in [Loads -> Words] /\ left \in [Loads -> 0..HighWindow]
    /\ window \in [Loads -> 0..PickupTTL] /\ crane \in [Loads -> 0..Loading]
    /\ active \in Loads \cup {None} /\ act \in Acts \cup {None, [verb |-> "done"]}
    /\ tanker \in 0..TankerTicks \cup {None}
    /\ (active = None) => \A l \in Loads : word[l] = "none"
    /\ active # None => word[active] # "none"
    /\ Cardinality({l \in Loads : word[l] # "none"}) <= Bay
    /\ late \subseteq Loads /\ lapsed \subseteq Loads
    /\ {gambled, silent, dry, squeezed, detoured} \subseteq BOOLEAN

VoyageInit ==
    /\ at \in Pumps /\ fly = 0 /\ tank = Tank /\ goods \in Goods
    /\ word = [l \in Loads |-> "none"]
    /\ left = [l \in Loads |-> 0] /\ window = [l \in Loads |-> 0] /\ crane = [l \in Loads |-> 0]
    /\ active = None /\ act = None /\ tanker = None
    /\ late = {} /\ lapsed = {} /\ gambled = FALSE /\ silent = FALSE /\ dry = FALSE
    /\ squeezed = FALSE /\ detoured = FALSE

-----------------------------------------------------------------------------
(* The tank.                                                                *)

Docked == fly = 0

\* Below a share of the tank, in hundredths.
Below(percent) == tank * 100 < percent * Tank

Reserved(fuel) == (fuel * 6) \div 5

\* reachable_pump: each pump at the standard burn, or else at half throttle; the cheapest.
Runs(here) ==
    LET affords(fuel) == (fuel * 11) \div 10 <= tank
        plan(p) == IF affords(Fuel[<<here, p>>])
                   THEN [pump |-> p, economy |-> FALSE, fuel |-> Fuel[<<here, p>>]]
                   ELSE [pump |-> p, economy |-> TRUE, fuel |-> EconomyFuel[<<here, p>>]]
        plans == {plan(p) : p \in Pumps}
    IN {r \in plans : affords(r.fuel) /\ \A s \in plans : affords(s.fuel) => r.fuel <= s.fuel}

\* A mutation: a plan ends where the load does.
NoOnward(station) == 0

\* onward_to_pump: what a plan must keep for the leg from where it ends to a pump.
OnwardToPump(station) ==
    IF Pumps = {} \/ station \in Pumps THEN 0 ELSE Min({Fuel[<<station, p>>] : p \in Pumps})

-----------------------------------------------------------------------------
(* What is held.                                                            *)

Held == {l \in Loads : word[l] # "none"}

Companions == Held \ {active}

Spare == Hold - goods - Cardinality({l \in Held : word[l] = "picked"})

\* The hold carries more than the companions account for.
Aboard == /\ at = Origin[active]
          /\ goods + Cardinality({l \in Held : word[l] = "picked"})
                > Cardinality({l \in Companions : word[l] = "picked"})

-----------------------------------------------------------------------------
(* May a load be booked on its own?  `air' is the ticks left to fly to where*)
(* the hull is bound, None at a berth.                                      *)

DeadTicks(l, air) == Ticks[<<at, Origin[l]>>] + (IF air = None THEN 0 ELSE air + AirMargin)

WholePlan(l) == Reserved(Fuel[<<at, Origin[l]>>] + Fuel[<<Origin[l], Dest[l]>>] + OnwardToPump(Dest[l]))

\* The origin sells fuel, and its tank could hold what the haul takes.
FilledThere(l) == /\ Origin[l] \in Pumps
                  /\ tank >= Reserved(Fuel[<<at, Origin[l]>>])
                  /\ Tank >= Reserved(Fuel[<<Origin[l], Dest[l]>>] + OnwardToPump(Dest[l]))

\* A mutation: the pickup clock is the only one read.
BookableByPickup(l, due, air) == /\ DeadTicks(l, air) + Engage + Loading <= PickupTTL
                                 /\ tank >= WholePlan(l) \/ FilledThere(l)

Bookable(l, due, air) ==
    /\ DeadTicks(l, air) + Engage + Loading <= PickupTTL
    /\ DeadTicks(l, air) + Engage + Loading + Ticks[<<Origin[l], Dest[l]>>] + Engage <= due
    /\ tank >= WholePlan(l) \/ FilledThere(l)

\* book_in_the_air: flying light, or laden to her own delivery and onward from it.
BookableInTheAir(l, due) ==
    /\ "book" \notin Denied /\ Cardinality(Held) < Bay /\ Spare >= 1
    /\ active # None => /\ word[active] = "picked" /\ Dest[active] = at
                        /\ Companions = {} /\ Origin[l] = at
    /\ Bookable(l, due, fly)

-----------------------------------------------------------------------------
(* The tour: the stops the bay still needs, in the best order.              *)

Pickup(l) == [load |-> l, station |-> Origin[l], picks |-> TRUE]
Deliver(l) == [load |-> l, station |-> Dest[l], picks |-> FALSE]

RequiredStops == {Pickup(l) : l \in {l \in Held : word[l] = "booked" /\ ~(l = active /\ Aboard)}}
                 \cup {Deliver(l) : l \in {l \in Held : word[l] # "delivered"}}

\* Every order with each pickup before its own delivery.
Tours(stops) ==
    {t \in SetToSeqs(stops) :
        \A i, j \in DOMAIN t : t[i].load = t[j].load /\ t[i].picks /\ ~t[j].picks => i < j}

\* price_order, from the berth; `due' is what is left to each load's deadline.
Priced(tour, due) ==
    LET visit(s, stop) ==
            LET flown == IF stop.station = s.at THEN 0 ELSE Ticks[<<s.at, stop.station>>] + Engage
                lands == s.ticks + flown
            IN [at |-> stop.station,
                ticks |-> IF stop.picks THEN lands + Loading ELSE lands,
                fuel |-> s.fuel + Fuel[<<s.at, stop.station>>],
                late |-> IF ~stop.picks /\ lands > due[stop.load] THEN s.late + 1 ELSE s.late]
    IN FoldLeft(visit, [at |-> at, ticks |-> 0, fuel |-> 0, late |-> 0], tour)

Cheaper(p, q) == \/ p.late < q.late
                 \/ p.late = q.late /\ p.ticks < q.ticks
                 \/ p.late = q.late /\ p.ticks = q.ticks /\ p.fuel < q.fuel

PlanTour(stops, due) ==
    LET priced == {[tour |-> t, price |-> Priced(t, due)] : t \in Tours(stops)}
    IN {p \in priced : \A q \in priced : ~Cheaper(q.price, p.price)}

\* companion_priced: no delivery is made late that was not.
CompanionPriced(l, due) ==
    LET dues == [left EXCEPT ![l] = due]
    IN \A with \in PlanTour(RequiredStops \cup {Pickup(l), Deliver(l)}, dues) :
       \A without \in PlanTour(RequiredStops, dues) : with.price.late <= without.price.late

\* The booking is a fold of its own, which the plan does not count.
SparesATick(l, due) ==
    LET dues == [h \in Loads |-> IF h = l THEN due - 1 ELSE left[h] - 1]
    IN \A with \in PlanTour(RequiredStops \cup {Pickup(l), Deliver(l)}, dues) :
       \A without \in PlanTour(RequiredStops, left) : with.price.late <= without.price.late

\* companion, where the router is silent: a stop already ahead, by the board's own figures.
TicksToStop(stop) ==
    LET haul == Ticks[<<Origin[active], Dest[active]>>]
    IN IF word[active] = "booked" /\ at # Origin[active] /\ stop = Dest[active]
       THEN Ticks[<<at, Origin[active]>>] + Engage + Loading + haul + Engage
       ELSE haul + Engage

CompanionUnpriced(l, due) ==
    /\ \/ Dest[l] = Dest[active] /\ at # Dest[active]
       \/ Dest[l] = Origin[active] /\ at # Origin[active] /\ word[active] = "booked"
    /\ Loading + TicksToStop(Dest[l]) <= due
    /\ Loading + TicksToStop(Dest[active]) <= left[active]

\* A mutation: a companion is taken whatever the bay holds.
CompanionAnyBay(l, due, answers) ==
    /\ "book" \notin Denied /\ Origin[l] = at
    /\ Spare - Cardinality({h \in Held : word[h] = "booked"}) >= 1
    /\ IF answers THEN CompanionPriced(l, due) ELSE CompanionUnpriced(l, due)

Companion(l, due, answers) ==
    /\ "book" \notin Denied /\ Cardinality(Held) < Bay
    /\ Origin[l] = at
    /\ Spare - Cardinality({h \in Held : word[h] = "booked"}) >= 1
    /\ IF answers THEN CompanionPriced(l, due) ELSE CompanionUnpriced(l, due)

-----------------------------------------------------------------------------
(* decide_with.  `row' is the load the board offers that would be taken, or *)
(* None; `answers' whether the router answers this fold; `wear' whether a   *)
(* repair is due and affordable.                                            *)

Travel(to) == IF to = at THEN HoldOn ELSE [verb |-> "travel", to |-> to, economy |-> FALSE]

Book(row) == [verb |-> "book", load |-> row.load, due |-> row.due]

\* At a pump, or one is in reach: an errand and not a rescue.
NoPump(answers) == ~(Docked /\ (at \in Pumps \/ (answers /\ Runs(at) # {})))

UnderContract(row, answers) ==
    LET owed == {l \in Held : word[l] = "delivered"}
    IN IF owed # {}
       THEN {[verb |-> "collect", load |-> l] : l \in IF active \in owed THEN {active} ELSE owed}
       ELSE IF ~Docked
       THEN {IF row # None /\ answers /\ BookableInTheAir(row.load, row.due) THEN Book(row) ELSE HoldOn}
       ELSE IF row # None /\ Companion(row.load, row.due, answers) THEN {Book(row)}
       ELSE IF answers THEN {Travel(p.tour[1].station) : p \in PlanTour(RequiredStops, left)}
       ELSE IF Aboard THEN {Travel(Dest[active])}
       ELSE IF word[active] = "booked" THEN {Travel(Origin[active])}
       ELSE {HoldOn}

Idle(row, answers, wear) ==
    IF ~Docked
    THEN {IF row # None /\ answers /\ BookableInTheAir(row.load, row.due) THEN Book(row) ELSE HoldOn}
    ELSE IF at \in Pumps /\ Below(90) THEN {[verb |-> "refuel"]}
    ELSE IF wear /\ "repair" \notin Denied THEN {[verb |-> "repair"]}
    ELSE IF row # None /\ answers /\ Spare >= 1 /\ Bookable(row.load, row.due, None) THEN {Book(row)}
    ELSE IF Below(40) \/ (Pumps # {} /\ at \notin Pumps /\ Below(90))
    THEN IF answers /\ Runs(at) # {}
         THEN {[verb |-> "travel", to |-> r.pump, economy |-> r.economy] : r \in Runs(at)}
         ELSE IF Below(40) THEN {[verb |-> "paws"]} ELSE {HoldOn}
    ELSE {HoldOn}

DecideWith(row, answers, wear) ==
    IF tanker # None /\ Docked THEN {HoldOn}
    ELSE IF Below(5) /\ NoPump(answers)
    THEN {IF "paws" \in Denied THEN HoldOn ELSE [verb |-> "paws"]}
    ELSE IF active # None THEN UnderContract(row, answers)
    ELSE Idle(row, answers, wear)

Rows == {None} \cup [load : Loads \ Held, due : Windows]

Decide == /\ act = None
          /\ \E row \in Rows, answers, wear \in BOOLEAN :
                /\ act' \in DecideWith(row, answers, wear)
                /\ silent' = (active # None /\ (silent \/ ~answers))
                /\ gambled' = (gambled \/ /\ act'.verb = "book"
                                          /\ tank < WholePlan(act'.load) \/ active # None)
                /\ squeezed' = (active # None /\ (squeezed \/
                                  (act'.verb = "book" /\ Docked /\ ~SparesATick(act'.load, act'.due))))
                /\ detoured' = (active # None /\ (detoured \/
                                  (act'.verb = "book" /\ \E l \in Held : word[l] = "booked" /\ Origin[l] # at)))
          /\ IF active = None THEN late' = {} /\ lapsed' = {} /\ dry' = FALSE
                              ELSE UNCHANGED <<late, lapsed, dry>>
          /\ UNCHANGED <<hull, bay, active>>

-----------------------------------------------------------------------------
(* The exchange: it folds what was filed, flies the hull, works the crane   *)
(* and keeps the two clocks of a contract.                                  *)

Answered == [verb |-> "done"]

filed == <<history, goods>>

Rests == /\ act # None /\ act.verb \in {"hold", "repair"}
         /\ act' = Answered /\ UNCHANGED <<at, fly, tank, tanker, bay, active, filed>>

Refuels == /\ act # None /\ act.verb = "refuel"
           /\ tank' = Tank /\ gambled' = FALSE
           /\ act' = Answered
           /\ UNCHANGED <<at, fly, goods, tanker, bay, active, late, lapsed, silent, dry, squeezed, detoured>>

SendsTanker == /\ act # None /\ act.verb = "paws"
               /\ tanker' = IF tanker = None THEN TankerTicks ELSE tanker
               /\ dry' = TRUE
               /\ act' = Answered
               /\ UNCHANGED <<at, fly, tank, goods, bay, active, late, lapsed, gambled, silent, squeezed, detoured>>

\* What a leg takes of the tank, and the ticks it lasts.
Burnt(leg) == IF leg.economy THEN EconomyFuel[<<at, leg.to>>] ELSE Fuel[<<at, leg.to>>]
Flight(leg) == IF leg.economy THEN EconomyTicks[<<at, leg.to>>] ELSE Ticks[<<at, leg.to>>]

\* The propellant is charged at departure; the drive engages a little later.
Departs == /\ act # None /\ act.verb = "travel"
           /\ tank >= Burnt(act) /\ tank' = tank - Burnt(act)
           /\ \E delay \in 0..(Engage - 1) : fly' = Flight(act) + delay
           /\ at' = act.to
           /\ act' = Answered /\ UNCHANGED <<tanker, bay, active, filed>>

\* A course the tank does not cover is declined in silence.
Declines == /\ act # None /\ act.verb = "travel"
            /\ tank < Burnt(act)
            /\ dry' = TRUE
            /\ act' = Answered
            /\ UNCHANGED <<hull, bay, active, late, lapsed, gambled, silent, squeezed, detoured>>

Books == /\ act # None /\ act.verb = "book"
         /\ word' = [word EXCEPT ![act.load] = "booked"]
         /\ left' = [left EXCEPT ![act.load] = act.due]
         /\ window' = [window EXCEPT ![act.load] = PickupTTL]
         /\ crane' = [crane EXCEPT ![act.load] = Loading]
         /\ active' = IF active = None THEN act.load ELSE active
         /\ act' = Answered /\ UNCHANGED <<at, fly, tank, tanker, filed>>

\* The next of the bay becomes the active one.
Succeeds(gone) == IF active \in gone
                  THEN IF Held \ gone = {} THEN active' = None ELSE active' \in Held \ gone
                  ELSE UNCHANGED active

Collects == /\ act # None /\ act.verb = "collect"
            /\ word' = [word EXCEPT ![act.load] = "none"]
            /\ Succeeds({act.load})
            /\ act' = Answered /\ UNCHANGED <<at, fly, tank, tanker, left, window, crane, filed>>

Elapse ==
    /\ act = Answered
    /\ fly' = IF Docked THEN 0 ELSE fly - 1
    /\ tank' = IF tanker = 0 /\ Docked THEN Tank ELSE tank
    /\ tanker' = IF tanker = None \/ (tanker = 0 /\ Docked) THEN None
                 ELSE IF tanker = 0 THEN 0 ELSE tanker - 1
    /\ LET lands(l) == word[l] = "picked" /\ fly' = 0 /\ Dest[l] = at
           loads(l) == word[l] = "booked" /\ Docked /\ Origin[l] = at
           loaded(l) == loads(l) /\ crane[l] = 1
           reverts(l) == word[l] = "booked" /\ ~loaded(l) /\ window[l] = 1
           settles(l) == word[l] \in {"booked", "picked"} /\ ~lands(l) /\ left[l] = 0
           gone == {l \in Loads : reverts(l) \/ settles(l)}
       IN /\ word' = [l \in Loads |-> IF l \in gone THEN "none"
                                      ELSE IF lands(l) THEN "delivered"
                                      ELSE IF loaded(l) THEN "picked" ELSE word[l]]
          /\ left' = [l \in Loads |-> IF word'[l] \in {"booked", "picked"} THEN left[l] - 1 ELSE 0]
          /\ window' = [l \in Loads |-> IF word'[l] = "booked" THEN window[l] - 1 ELSE 0]
          /\ crane' = [l \in Loads |-> IF word'[l] # "booked" THEN 0
                                       ELSE IF loads(l) THEN crane[l] - 1 ELSE crane[l]]
          /\ late' = late \cup {l \in Loads : settles(l)}
          /\ lapsed' = lapsed \cup {l \in Loads : reverts(l)}
          /\ Succeeds(gone)
    /\ act' = None
    /\ UNCHANGED <<at, goods, gambled, silent, dry, squeezed, detoured>>

VoyageNext == \/ Decide \/ Rests \/ Refuels \/ SendsTanker \/ Departs \/ Declines \/ Books \/ Collects
              \/ Elapse

VoyageSpec == VoyageInit /\ [][VoyageNext]_voyageVars

-----------------------------------------------------------------------------
(* What each answer must leave possible.                                    *)

\* While the router answers and the plan burns what is in the tank, every load is delivered
\* before its deadline and picked up inside its window, whatever was booked beside it on
\* the way (doctrine.rs:870, :1394).
InTime == ~(silent \/ dry \/ squeezed \/ detoured) => late = {} /\ lapsed = {}

\* A hull at a berth is at a pump, or one is in reach at one of the burns, unless fuel was
\* counted on that was not in the tank.
NeverStranded == Docked /\ act = None /\ ~gambled => at \in Pumps \/ Runs(at) # {}

\* What the router must answer for it: a stop on the way to a pump never saves a twelfth of the
\* fuel, which is what the reserve of a plan has over the margin of a run to a pump
\* (doctrine.rs:310, :511).
Straight == \A a, b \in Stations : \A p \in Pumps :
                11 * Fuel[<<a, p>>] <= 12 * (Fuel[<<a, b>>] + Fuel[<<b, p>>])

\* The drive does not engage for the laden leg with the active contract's own cargo still
\* on the dock it is loaded from (doctrine.rs:666).
LoadedBeforeLeaving ==
    act # None /\ act.verb = "travel" /\ active # None /\ at = Origin[active]
        => word[active] # "booked" \/ act.to # Dest[active]
=============================================================================
