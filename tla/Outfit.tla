--------------------------------- MODULE Outfit ---------------------------------
(***************************************************************************)
(* What a pilot spends on the ship and on her hands: the outfitting and    *)
(* the crew phase of its fold (crates/pilot/src/main.rs) with the judgment *)
(* they ask (outfit.rs, crew.rs), against an exchange that takes what is   *)
(* filed a tick later and sweeps its charges every day.  Kept: the order   *)
(* of the two phases and what each leaves to the next, every rung of both  *)
(* judgments with their arithmetic, the pending overlay, verbs refused.    *)
(* Left out: the names of hands, the captain's dial but for its yes or no, *)
(* co-pilots (they run neither phase).  What is spent elsewhere in a fold  *)
(* (freight, the merchant, the captain) is spent at any time.              *)
(***************************************************************************)
EXTENDS Integers, FiniteSets, SequencesExt, FiniteSetsExt

CONSTANTS Sisters,      \* the captain's other hulls, numbered in the order of their actors
          Debts,        \* what a hull may owe at first
          Purses, Cap,  \* credits at first, and at most
          Price, FrameCost, StartRung, Fitted, \* what the hull has at first
          Mortgage, Service, TankPrice,
          HireCost, Wage, Meal, LoafADay, MaxAboard, Berths, Relief, BaseAsk,
          LowSkill, Pod, RepairRate, TicksPerDay,
          Evidence,     \* what the record may say: hold-bound runs, standing, deliveries, wear
          Quotes,       \* what the berth may ask for loaf and sell of it, a set of at most one
          Rooms,        \* hold the galley may use
          Incomes, Spends,
          MaxHand, MaxFaults

Fittings == {"refrigeration", "drive-tune", "hold-extension"}

ASSUME OutfitAssumption ==
    /\ Sisters \subseteq Nat \ {0} /\ IsFiniteSet(Sisters) /\ IsFiniteSet(Debts)
    /\ Debts \cup Rooms \cup Incomes \cup Spends \subseteq Nat /\ Purses \subseteq 0..Cap
    /\ Price \in [Fittings -> Nat \ {0}] /\ StartRung \in 1..5 /\ Fitted \subseteq Fittings
    /\ {FrameCost, HireCost, Wage, LoafADay, Berths, Relief, BaseAsk, RepairRate, TicksPerDay}
          \subseteq Nat \ {0}
    /\ {Cap, Mortgage, Service, TankPrice, Meal, MaxAboard, LowSkill, Pod, MaxHand, MaxFaults}
          \subseteq Nat
    /\ \A q \in Quotes : Cardinality(q) <= 1 /\ \A of \in q : {of.ask, of.units} \subseteq Nat \ {0}
    /\ \A e \in Evidence : e.watch # <<>>

VARIABLES ship,            \* what the exchange keeps of the hull
          owes,            \* and of the captain's other hulls
          queue,           \* accepted and not folded
          wait,            \* pending_until is ahead
          outfits, crews,  \* the automation is on, the verbs of the crew are this key's
          folded,          \* the pilot has folded in this tick
          day,             \* ticks since the day rolled
          hands, faults,   \* bounds
          promise,         \* history: days of charges the last purchase left money for
          eaten,           \* history: what was taken since, beyond those charges
          shared           \* history: the money an act in flight was judged by was spent from besides

memory == <<wait, outfits, crews>>
bounds == <<hands, faults>>
outfitVars == <<ship, owes, queue, memory, folded, day, bounds, promise, eaten, shared>>

ReserveDays == 3
HoldBoundEvidence == 5
Window == 7
LowDays == 2
StockDays == 5

\* frame_rung: pods, and the standing the yard asks for.
Rungs == <<[pods |-> 2, standing |-> 0], [pods |-> 4, standing |-> 1500],
           [pods |-> 7, standing |-> 3500], [pods |-> 12, standing |-> 6000],
           [pods |-> 18, standing |-> 8500]>>

MostDebt == Max(Debts \cup {1})
MostLoaf == StockDays * LoafADay * Berths

Acts == [verb : {"refit"}, fitting : Fittings] \cup [verb : {"expandFrame", "hire", "galleyOn", "service"}]
        \cup [verb : {"payLease"}, amount : 1..MostDebt, hull : Sisters \cup {0}]
        \cup [verb : {"stock"}, units : 1..MostLoaf]
        \cup [verb : {"buy"}, units : 1..MostLoaf, ask : Nat]

\* An act in flight is one the exchange can take; the hopper holds no more than it is stocked
\* toward.
OutfitTypeOK ==
    /\ ship.credits \in 0..Cap /\ ship.debt \in 0..MostDebt /\ ship.fittings \subseteq Fittings
    /\ ship.rung \in 1..5 /\ ship.engine \in 0..Berths /\ ship.others \in 0..Berths
    /\ ship.engine + ship.others <= Berths /\ ship.skill \in {LowSkill, 10000}
    /\ ship.on \in BOOLEAN /\ ship.jammed \in BOOLEAN /\ ship.hopper \in 0..MostLoaf
    /\ ship.loaf \in 0..(2 * MostLoaf)
    /\ owes \in [Sisters -> 0..MostDebt] /\ queue \in Seq(Acts)
    /\ {wait, outfits, crews, folded, shared} \subseteq BOOLEAN /\ day \in 0..(TicksPerDay - 1)
    /\ hands \in 0..MaxHand /\ faults \in 0..MaxFaults
    /\ promise.days \in 0..ReserveDays /\ promise.daily \in Nat /\ eaten \in Nat

Aboard(s) == s.engine + s.others

Leased == ship.debt > 0

Fixed == Mortgage + IF Leased THEN Service ELSE 0

\* A hull as it may be found: no hand at its engine, nothing stowed.
Found(credits, debt, others) ==
    [credits |-> credits, debt |-> debt, fittings |-> Fitted, rung |-> StartRung, engine |-> 0,
     others |-> others, skill |-> 10000, on |-> FALSE, jammed |-> FALSE, hopper |-> 0, loaf |-> 0]

OutfitInit ==
    /\ \E credits \in Purses, debt \in Debts, others \in {0, 1} :
          (debt > 0 => others = 0) /\ ship = Found(credits, debt, others)
    /\ owes \in [Sisters -> Debts] /\ queue = <<>>
    /\ wait = FALSE /\ outfits = TRUE /\ crews = TRUE /\ folded = FALSE /\ day = 0
    /\ hands = 0 /\ faults = 0
    /\ promise = [days |-> 0, daily |-> 0] /\ eaten = 0 /\ shared = FALSE

-----------------------------------------------------------------------------
(* outfit.rs.                                                               *)

\* A mutation: the tank of fuel alone is kept.
TankOnly == TankPrice

\* reserve: what every purchase leaves.
Reserve == ReserveDays * Fixed + TankPrice

Spare == ship.credits - Reserve

Capacity == Rungs[ship.rung].pods * Pod + IF "hold-extension" \in ship.fittings THEN 40 ELSE 0

\* frame_return_per_day, where the arithmetic has a footing.
FrameReturns(in) ==
    LET added == (Rungs[ship.rung + 1].pods - Rungs[ship.rung].pods)
                    * (Capacity \div Rungs[ship.rung].pods)
    IN IF ship.rung = 5 \/ Capacity = 0 THEN {} ELSE {((in.margin * added) \div Capacity) \div Window}

\* frame_waits: title, standing, evidence that the hold binds.
FrameWaits(in) == \/ Leased \/ in.standing < Rungs[ship.rung + 1].standing
                  \/ in.bound < HoldBoundEvidence

\* shortfall_bps, over the deliveries of a kind that were booked for something.
Shortfalls(stats) ==
    LET booked == FoldLeft(LAMBDA sum, d : sum + d.booked, 0, stats)
        paid == FoldLeft(LAMBDA sum, d : IF d.booked > 0 THEN sum + d.paid ELSE sum, 0, stats)
    IN IF booked <= 0 THEN {} ELSE {10000 - (paid * 10000) \div booked}

\* decay_evidence.
Decays(stats) ==
    LET perishable == SelectSeq(stats, LAMBDA d : d.perishable)
        durable == SelectSeq(stats, LAMBDA d : ~d.perishable)
    IN /\ Len(perishable) >= 3
       /\ \E p \in Shortfalls(perishable) :
             IF Shortfalls(durable) = {} THEN p >= 1800
             ELSE \A d \in Shortfalls(durable) : p - d >= 300

\* The fittings wanted, and the one of them that is bought first.
Wanted(in) == {f \in Fittings \ ship.fittings : f = "refrigeration" => Decays(in.stats)}

FirstOf(wanted) == IF "refrigeration" \in wanted THEN "refrigeration"
                   ELSE IF "drive-tune" \in wanted THEN "drive-tune" ELSE "hold-extension"

\* next_rung: the frame, bought outright; what the crew does past it is crew.rs's.
NextRung(in) ==
    IF ship.rung < 5 /\ ~FrameWaits(in) /\ ship.credits - FrameCost >= Reserve
    THEN {[verb |-> "expandFrame"]} ELSE {}

\* A mutation: all that is spare goes to the balance, however small it is.
PaysAll(hull, debt) == IF Spare > 0 THEN {[verb |-> "payLease", amount |-> Spare, hull |-> hull]} ELSE {}

Pays(hull, debt) == IF Spare > 0 THEN {[verb |-> "payLease", amount |-> Min({Spare, debt}), hull |-> hull]}
                    ELSE {}

Owing == {s \in Sisters : owes[s] > 0}

\* fleet_leases: a hull that cannot be read owes nothing.
Read(in) == IF in.fleet = "unread" THEN {} ELSE Owing

\* The smallest balance first, so that a title lands soonest.
Smallest == CHOOSE s \in Owing : \A r \in Owing : owes[s] < owes[r] \/ (owes[s] = owes[r] /\ s <= r)

\* decide_outfit: the hull's own balance, the fleet's unless the frame out-earns the rent,
\* the fittings, the frame.
DecideOutfit(in) ==
    LET record == in.record
        wanted == Wanted(record)
        outEarns == ship.rung < 5 /\ ~FrameWaits(record)
                    /\ \E earns \in FrameReturns(record) : earns > Service
    IN IF Leased THEN Pays(0, ship.debt)
       ELSE IF Read(in) # {}
       THEN IF outEarns THEN NextRung(record) ELSE Pays(Smallest, owes[Smallest])
       ELSE IF wanted = {} THEN NextRung(record)
       ELSE IF ship.credits - Price[FirstOf(wanted)] < Reserve THEN {}
       ELSE {[verb |-> "refit", fitting |-> FirstOf(wanted)]}

-----------------------------------------------------------------------------
(* crew.rs.                                                                 *)

\* WearMeter: what the drive wore since the process started, a drop being a repair, and
\* what that is a day once a whole day was watched.
WearCosts(watch) ==
    LET rises == {i \in 2..Len(watch) : watch[i].bps > watch[i - 1].bps}
        accrued == MapThenSumSet(LAMBDA i : watch[i].bps - watch[i - 1].bps, rises)
        ticks == watch[Len(watch)].tick - watch[1].tick
    IN IF ticks < TicksPerDay THEN {}
       ELSE {(((accrued * RepairRate) \div 100) * TicksPerDay) \div Max({ticks, 1})}

ADay == Aboard(ship) * LoafADay

HopperLow == Aboard(ship) > 0 /\ ship.hopper < ADay * LowDays

\* The berth's quote, read only when the hopper will want it.
Asked(in) == IF HopperLow /\ ship.loaf = 0 THEN in.quote ELSE {}

\* keep_per_day.
Keep(in) ==
    LET ask == IF Asked(in) = {} THEN BaseAsk ELSE (CHOOSE of \in Asked(in) : TRUE).ask
    IN Wage + Meal + LoafADay * ask + HireCost \div 30

\* A mutation: loaf is bought whatever is aboard already.
NeverStocks(in) ==
    LET want == ADay * StockDays - ship.hopper
        units(of) == Min({want, of.units, Max({0, in.room - ship.loaf}), Max({Spare, 0}) \div of.ask})
    IN IF Aboard(ship) = 0 \/ ~HopperLow THEN {}
       ELSE {[verb |-> "buy", units |-> units(of), ask |-> of.ask] : of \in {of \in in.quote : units(of) > 0}}

\* Feed who is aboard before signing anyone else on.
Feeds(in) ==
    LET want == ADay * StockDays - ship.hopper
        units(of) == Min({want, of.units, Max({0, in.room - ship.loaf}), Max({Spare, 0}) \div of.ask})
    IN IF Aboard(ship) = 0 THEN {}
       ELSE IF ~ship.on THEN {[verb |-> "galleyOn"]}
       ELSE IF ship.jammed THEN {[verb |-> "service"]}
       ELSE IF ~HopperLow THEN {}
       ELSE IF ship.loaf > 0 THEN {[verb |-> "stock", units |-> Min({ship.loaf, want})]}
       ELSE {[verb |-> "buy", units |-> units(of), ask |-> of.ask] : of \in {of \in Asked(in) : units(of) > 0}}

\* What a hire leaves beyond its price: the reserve, and days of payroll for all.
HoldBack == Reserve + ReserveDays * (Wage + Meal) * (Aboard(ship) + 1)

MaxHands == IF MaxAboard > 0 THEN Min({MaxAboard, Berths}) ELSE Berths

\* One engineer, where the measured wear says a hand earns twice its keep.
Hires(in) ==
    LET manned == Min({ship.engine * ship.skill, 10000})
        saves(wear) == ((wear * Relief * (10000 - manned)) \div 10000) \div 10000
    IN IF /\ ~Leased /\ Aboard(ship) < MaxHands /\ manned < 10000
          /\ \E wear \in WearCosts(in.record.watch) : saves(wear) >= 2 * Keep(in)
          /\ ship.credits - HireCost >= HoldBack
       THEN {[verb |-> "hire"]} ELSE {}

DecideCrew(in) == IF Feeds(in) # {} THEN Feeds(in) ELSE Hires(in)

-----------------------------------------------------------------------------
(* The fold: the outfitting phase, and unless it filed, the crew's, on the  *)
(* same reading of the hull.                                                *)

\* `yard': no contract is held and the captain's dial leaves the outfitting to the ship;
\* `fleet': the other hulls' balances are not read, read, and to be paid from here too;
\* `post': the dial leaves the hands to her; `record': what the hull's own record says.
Readings == {in \in [quote : Quotes, room : Rooms, yard : BOOLEAN, post : BOOLEAN,
                     fleet : {"unread", "read", "paid"}, record : Evidence] :
                in.yard \/ in.fleet = "unread"}

\* A mutation: an act is waited out only if its answer came.
MindsOwnAnswers == ~wait

\* One intent in flight at a time: the pending overlay of /v1/me and the pilot's own.
Settled == ~wait /\ queue = <<>>

\* A sister's balance the exchange cannot take from here is advice.
OutfitActs(in) ==
    IF ~outfits \/ ~in.yard THEN {}
    ELSE {a \in DecideOutfit(in) : a.verb = "payLease" /\ a.hull # 0 => in.fleet = "paid"}

CrewActs(in) == IF crews /\ in.post THEN DecideCrew(in) ELSE {}

\* What the exchange makes of an act of the crew's: refuses it, for now or (a verb this key
\* may not file) until the pilot starts anew, or takes it, and the answer is heard or lost.
CrewPhase(in, lost) ==
    LET acts == IF outfits THEN CrewActs(in) ELSE {}
    IN /\ \/ /\ crews' \in IF acts = {} THEN {crews} ELSE {crews, FALSE}
             /\ faults' = faults + Len(lost) + IF crews' = crews THEN 0 ELSE 1
             /\ queue' = queue \o lost /\ UNCHANGED <<wait, shared>>
          \/ \E a \in acts :
                /\ wait' \in BOOLEAN /\ faults' = faults + Len(lost) + IF wait' THEN 0 ELSE 1
                /\ queue' = queue \o Append(lost, a) /\ shared' = (shared \/ lost # <<>>)
                /\ UNCHANGED crews
       /\ faults' <= MaxFaults

\* A verb of the outfitting's that this key may not file ends the crew's phase with it.
Phases(in) ==
    /\ Settled /\ folded' = TRUE
    /\ \/ \E a \in OutfitActs(in) :
             /\ queue' = Append(queue, a) /\ wait' = TRUE
             /\ UNCHANGED <<outfits, crews, faults, shared>>
       \/ /\ OutfitActs(in) # {} /\ faults < MaxFaults /\ faults' = faults + 1
          /\ outfits' = FALSE /\ UNCHANGED <<queue, wait, crews, shared>>
       \/ CrewPhase(in, <<>>) /\ UNCHANGED outfits
       \/ \E a \in OutfitActs(in) : CrewPhase(in, <<a>>) /\ UNCHANGED outfits
    /\ UNCHANGED <<ship, owes, day, hands, promise, eaten>>

\* A fold under way, unread, at sea, or waiting for what is in flight.
Waits == /\ ~folded /\ folded' = TRUE /\ wait' = (wait \/ queue # <<>>)
         /\ UNCHANGED <<ship, owes, queue, outfits, crews, day, bounds, promise, eaten, shared>>

Restarts == /\ faults < MaxFaults /\ faults' = faults + 1
            /\ wait' = FALSE /\ outfits' = TRUE /\ crews' = TRUE
            /\ UNCHANGED <<ship, owes, queue, folded, day, hands, promise, eaten, shared>>

-----------------------------------------------------------------------------
(* The exchange: it folds what was filed, in order, and sweeps the charges  *)
(* of the day.  The title lands when the balance clears.                    *)

Balance(st, hull) == IF hull = 0 THEN st.ship.debt ELSE st.owes[hull]

Cost(st, a) == CASE a.verb = "refit" -> Price[a.fitting]
                 [] a.verb = "expandFrame" -> FrameCost
                 [] a.verb = "payLease" -> Min({a.amount, Balance(st, a.hull)})
                 [] a.verb = "hire" -> HireCost
                 [] a.verb = "buy" -> a.units * a.ask
                 [] OTHER -> 0

Possible(st, a) ==
    /\ Cost(st, a) <= st.ship.credits
    /\ a.verb = "refit" => a.fitting \notin st.ship.fittings
    /\ a.verb = "expandFrame" => st.ship.rung < 5
    /\ a.verb = "hire" => Aboard(st.ship) < Berths
    /\ a.verb = "stock" => st.ship.loaf >= a.units /\ st.ship.hopper + a.units <= MostLoaf

Applied(st, a) ==
    LET s == [st.ship EXCEPT !.credits = @ - Cost(st, a)]
        changed == CASE a.verb = "refit" -> [s EXCEPT !.fittings = @ \cup {a.fitting}]
                     [] a.verb = "expandFrame" -> [s EXCEPT !.rung = @ + 1]
                     [] a.verb = "payLease" /\ a.hull = 0 -> [s EXCEPT !.debt = @ - Cost(st, a)]
                     [] a.verb = "hire" -> [s EXCEPT !.engine = @ + 1]
                     [] a.verb = "galleyOn" -> [s EXCEPT !.on = TRUE]
                     [] a.verb = "service" -> [s EXCEPT !.jammed = FALSE]
                     [] a.verb = "stock" -> [s EXCEPT !.loaf = @ - a.units, !.hopper = @ + a.units]
                     [] a.verb = "buy" -> [s EXCEPT !.loaf = @ + a.units]
                     [] OTHER -> s
    IN IF ~Possible(st, a) THEN st
       ELSE IF a.verb = "payLease" /\ a.hull # 0
       THEN [ship |-> changed, owes |-> [st.owes EXCEPT ![a.hull] = @ - Cost(st, a)]]
       ELSE [ship |-> changed, owes |-> st.owes]

Payroll(s) == (Wage + Meal) * Aboard(s)

\* Charges, payroll and meals at the roll of the day; a hand unpaid or unfed works worse.
Rolled(s, jams) ==
    LET swept == Min({s.credits, Fixed})
        paid == Min({s.credits - swept, Payroll(s)})
        eats == Aboard(s) * LoafADay
        serves == s.on /\ ~s.jammed
    IN [s EXCEPT !.credits = @ - swept - paid, !.hopper = IF serves THEN Max({0, @ - eats}) ELSE @,
                 !.jammed = @ \/ jams,
                 !.skill = IF Aboard(s) = 0 \/ (paid = Payroll(s) /\ serves /\ s.hopper >= eats)
                           THEN 10000 ELSE LowSkill]

Void == [days |-> 0, daily |-> 0]

\* What the last purchase left money for: the ship's charges, and after a hire the payroll.
Promised(after) ==
    IF after.credits = ship.credits THEN promise
    ELSE IF shared THEN Void
    ELSE [days |-> ReserveDays,
          daily |-> Fixed + IF after.engine > ship.engine THEN Payroll(after) ELSE 0]

\* What is left when the queue was folded.
AfterQueue ==
    LET st[k \in 0..Len(queue)] == IF k = 0 THEN [ship |-> ship, owes |-> owes]
                                   ELSE Applied(st[k - 1], queue[k])
    IN st[Len(queue)]

Elapse ==
    LET st == AfterQueue
        rolls == day = TicksPerDay - 1
    IN /\ folded /\ folded' = FALSE /\ queue' = <<>> /\ wait' = FALSE /\ shared' = FALSE
       /\ day' = (day + 1) % TicksPerDay /\ owes' = st.owes
       /\ \E spend \in Spends, income \in Incomes, jams \in BOOLEAN :
             LET spent == Min({spend, st.ship.credits})
                 before == [st.ship EXCEPT !.credits = @ - spent]
                 after == IF rolls THEN Rolled(before, jams) ELSE before
                 left == IF spent > 0 THEN Void ELSE Promised(st.ship)
                 kept == IF rolls /\ left.days > 0 THEN [left EXCEPT !.days = @ - 1] ELSE left
             IN /\ jams => rolls /\ before.on /\ hands < MaxHand
                /\ hands' = IF jams THEN hands + 1 ELSE hands
                /\ ship' = [after EXCEPT !.credits = Min({Cap, @ + income})]
                /\ promise' = IF kept.days = 0 THEN Void ELSE kept
                /\ eaten' = IF kept.days = 0 THEN 0
                            ELSE (IF left = promise THEN eaten ELSE 0)
                                 + Max({0, before.credits - after.credits - left.daily})
       /\ UNCHANGED <<outfits, crews, faults>>

\* The captain's own hand, in another app: the galley is off, a hand leaves, a cook signs on.
ByHand ==
    /\ hands < MaxHand /\ hands' = hands + 1
    /\ \/ ship.on /\ ship' = [ship EXCEPT !.on = FALSE] /\ UNCHANGED <<promise, eaten>>
       \/ ship.engine > 0 /\ ship' = [ship EXCEPT !.engine = @ - 1] /\ UNCHANGED <<promise, eaten>>
       \/ /\ Aboard(ship) < Berths /\ ship.credits >= HireCost
          /\ ship' = [ship EXCEPT !.others = @ + 1, !.credits = @ - HireCost]
          /\ promise' = Void /\ eaten' = 0
    /\ shared' = (shared \/ (queue # <<>> /\ ship'.credits < ship.credits))
    /\ UNCHANGED <<owes, queue, memory, folded, day, faults>>

\* Another hull of the captain's pays.
SisterPays(s) == /\ owes[s] > 0 /\ owes' = [owes EXCEPT ![s] = @ - 1]
                 /\ UNCHANGED <<ship, queue, memory, folded, day, bounds, promise, eaten, shared>>

OutfitNext == \/ (\E in \in Readings : Phases(in)) \/ Waits \/ Restarts
        \/ Elapse \/ ByHand \/ \E s \in Sisters : SisterPays(s)

\* What a fold reads at a berth that quotes loaf, with no contract and the captain's dial on auto.
AtMarket == {in \in Readings : in.quote # {} /\ in.room = Max(Rooms) /\ in.yard /\ in.post
                               /\ in.fleet = "paid"}

\* Such a fold, whose act the exchange takes.
FairFold == \E in \in AtMarket : /\ Phases(in)
                                 /\ wait' = (OutfitActs(in) \cup CrewActs(in) # {})

\* The tick ends: of the steps of OutfitNext, Elapse.
TickEnds == folded /\ folded' = FALSE

Fairness == WF_outfitVars(Waits) /\ WF_folded(TickEnds) /\ SF_outfitVars(FairFold)

OutfitSpec == OutfitInit /\ [][OutfitNext]_outfitVars /\ Fairness

-----------------------------------------------------------------------------
(* Properties.                                                              *)

\* A purchase leaves what the ship's charges take in the days of the reserve and a tank of
\* fuel, whatever the ship earns, and after a hire the payroll of those days too: however
\* answers are lost and the pilot restarted, no second act is paid from the same money, unless
\* it was filed in the very fold that lost the first one's answer (outfit.rs:17, crew.rs:45).
ChargesMet ==
    promise.days > 0 => ship.credits + eaten >= promise.days * promise.daily + TankPrice

\* What a berth sells is more than what is spare buys.
Broke == \E q \in Quotes : \E of \in q : Spare < of.ask * of.units

\* Feed who is aboard: a hopper that runs low is filled, at a berth that sells loaf, unless
\* money is short, a balance of the fleet takes it, or a verb was refused (crew.rs:33).
HandsAreFed ==
    HopperLow ~> ~HopperLow \/ Broke \/ Leased \/ Owing # {} \/ ~outfits \/ ~crews
=============================================================================
