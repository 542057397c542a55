------------------------------ MODULE MCMerchant ------------------------------
(* A pump where tuna is made and the shelf is full, and a berth without one    *)
(* whose works eat it, held today and at full rate from tomorrow.             *)
EXTENDS Merchant, TLC
CONSTANTS pump, far, tuna, held, press

MCStations == {pump, far}
MCGoods == {tuna}
MCTicks == [p \in MCStations \X MCStations |-> IF p[1] = p[2] THEN 0 ELSE 1]
MCFuel == [p \in MCStations \X MCStations |-> IF p[1] = p[2] THEN 0 ELSE 4]
Cheap(p) == p[1] = pump
MCRegister == tuna :> [base |-> 200, swing |-> 10000]
MCLines == {[id |-> 1, station |-> far, every |-> 10, cycles |-> 4, watched |-> 48,
             inputs |-> (tuna :> 24), outputs |-> (tuna :> 0)],
            [id |-> 2, station |-> pump, every |-> 10, cycles |-> 0, watched |-> 48,
             inputs |-> (tuna :> 0), outputs |-> (tuna :> 10)]}
MCShelves == [p \in MCStations \X MCGoods |->
                 [stock |-> IF Cheap(p) THEN 24 ELSE 6, capacity |-> 24, equilibrium |-> 12]]
MCDeck == (held :> [kind |-> "eats", station |-> far, good |-> tuna, bps |-> 5000, fire |-> 9000])
          @@ (press :> [kind |-> "makes", station |-> pump, good |-> tuna, bps |-> 15000, fire |-> 6000])
MCNews == <<[headline |-> held, status |-> "in-effect", effective |-> -2, expires |-> 1],
            [headline |-> press, status |-> "announced", effective |-> 2, expires |-> 4]>>
MCMid == [p \in MCStations \X MCGoods |-> IF Cheap(p) THEN 100 ELSE 300]
MCAsk == [p \in MCStations \X MCGoods |-> IF Cheap(p) THEN 110 ELSE 330]
MCBid == [p \in MCStations \X MCGoods |-> IF Cheap(p) THEN 90 ELSE 270]
\* The forecast of these, worked out; ForecastAssumption has the chain work it out again.
MCForecast ==
    <<pump, tuna>> :> [mid |-> [t \in 0..3 |-> 100], dry |-> None]
    @@ <<far, tuna>> :> [mid |-> [t \in 0..3 |-> <<300, 300, 333, 366>>[t + 1]], dry |-> 3]
MCKept == [g \in MCGoods |-> [t \in 0..3 |-> IF t < 3 THEN 10000 ELSE 9000]]

-----------------------------------------------------------------------------
(* The schedule against a reference that goes tick by tick, for every pair of  *)
(* windows of these: what has moved is the sum of the rates of the ticks gone  *)
(* by, and a shelf with room is empty or full within a tick of its horizon and *)
(* not before.                                                                 *)

SomeWindows == {w \in [from : 0..2, to : 1..3, bps : {0, 5000, 20000}, nth : 1..2] : w.from < w.to}

SomeFlows == {[kind |-> kind, rate |-> rate, shelf |-> shelf, windows |-> {v, w}] :
                 kind \in {"eats", "makes"}, rate \in {0, 1999},
                 shelf \in {[stock |-> 3, capacity |-> 8, equilibrium |-> 4]},
                 v \in {v \in SomeWindows : v.nth = 1}, w \in {w \in SomeWindows : w.nth = 2}}

MovedByTick(f, ticks) == MapThenSumSet(LAMBDA t : RateAt(f, t), 0..(ticks - 1))

ASSUME ScheduleAgrees ==
    \A f \in SomeFlows :
        /\ \A t \in 0..5 : MovedMilli(f, t) = MovedByTick(f, t)
        /\ LET dry == WalkHorizon(f)
           IN IF f.rate = 0 THEN dry = None
              ELSE /\ MovedByTick(f, dry) <= 1000 * Room(f)
                   /\ MovedByTick(f, dry + 1) >= 1000 * Room(f)
=============================================================================
