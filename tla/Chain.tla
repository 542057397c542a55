--------------------------------- MODULE Chain ---------------------------------
(***************************************************************************)
(* The supply chain's word on a berth (crates/pilot/src/chain.rs, and the  *)
(* Forecast of trade.rs that asks it): what the works eat and make, how    *)
(* the announced dispatches bend that, where a shelf stands so many ticks  *)
(* from now, when it is empty or full, and the mid the exchange's formula  *)
(* gives it.  Integers throughout, divided as Rust divides them.           *)
(***************************************************************************)
EXTENDS Integers, FiniteSets, FiniteSetsExt, Sequences

CONSTANTS Stations, Goods, None,
          Lines,     \* recipes with what their ledger measured: cycles over so many ticks
          Shelves,   \* stock, capacity and equilibrium of the shelves that are quoted
          Deck,      \* what a known headline means
          News,      \* the feed, its ticks from now
          Register   \* base price and swing of a good

Full == 10000

ASSUME ChainAssumption ==
    /\ None \notin Stations \cup Goods
    /\ \A l \in Lines : /\ l.station \in Stations /\ {l.every, l.cycles, l.watched} \subseteq Nat
                        /\ {l.inputs, l.outputs} \subseteq [Goods -> Nat]
    /\ DOMAIN Shelves \subseteq Stations \X Goods
    /\ \A p \in DOMAIN Shelves : /\ {Shelves[p].stock, Shelves[p].equilibrium} \subseteq Nat
                                 /\ Shelves[p].capacity \in Nat
    /\ \A h \in DOMAIN Deck : {Deck[h].bps, Deck[h].fire} \subseteq Nat
    /\ \A n \in DOMAIN News : {News[n].effective, News[n].expires} \subseteq Int
    /\ DOMAIN Register \subseteq Goods
    /\ \A g \in DOMAIN Register : {Register[g].base, Register[g].swing} \subseteq Nat

Clamped(x, least, most) == Min({Max({x, least}), most})

\* Integer division toward zero.
Quotient(a, b) == IF a >= 0 THEN a \div b ELSE -((-a) \div b)

-----------------------------------------------------------------------------
(* Flows: thousandths of a unit a tick.                                     *)

\* The share of full running a line's ledger shows.
Measured(l) == IF l.cycles = 0 \/ l.watched = 0 THEN None
               ELSE Min({(l.cycles * l.every * Full) \div l.watched, Full})

\* A line nothing is known of, or that made nothing, keeps its full appetite.
Utilization(l) == IF Measured(l) = None THEN Full ELSE Measured(l)

PerCycle(l, g, kind) == IF kind = "eats" THEN l.inputs[g] ELSE l.outputs[g]

Works(s, g, kind) == {l \in Lines : l.station = s /\ l.every > 0 /\ PerCycle(l, g, kind) > 0}

Rate(s, g, kind) ==
    MapThenSumSet(LAMBDA l : (((PerCycle(l, g, kind) * 1000) \div l.every) * Utilization(l)) \div Full,
                  Works(s, g, kind))

\* What is withdrawn or expired is not a dispatch; one the deck does not know moves nothing.
Dispatches == {n \in DOMAIN News : /\ News[n].status \in {"announced", "in-effect"}
                                   /\ News[n].headline \in DOMAIN Deck}

Card(n) == Deck[News[n].headline]

\* Certain once in effect, at the card's own odds while announced.
Odds(n) == IF News[n].status = "in-effect" THEN Full ELSE Clamped(Card(n).fire, 0, Full)

\* The dispatches as windows of a flow; one that has closed lays none.
Windows(s, g, kind) ==
    LET from(n) == Max({News[n].effective, 0})
        laid == {n \in Dispatches : /\ Card(n).kind = kind /\ Card(n).station = s /\ Card(n).good = g
                                    /\ News[n].expires > from(n)}
    IN {[from |-> from(n), to |-> News[n].expires, nth |-> n,
         bps |-> Full + Quotient((Card(n).bps - Full) * Odds(n), Full)] : n \in laid}

Flow(s, g, kind) == [kind |-> kind, rate |-> Rate(s, g, kind), shelf |-> Shelves[s, g],
                     windows |-> Windows(s, g, kind)]

-----------------------------------------------------------------------------
(* A flow along its schedule.                                               *)

After(w, v) == \/ w.from > v.from
               \/ w.from = v.from /\ (w.to > v.to \/ (w.to = v.to /\ w.nth > v.nth))

\* Every window covering a tick scales the rate in turn, the earliest first.
RateBpsAt(f, t) ==
    MapThenFoldSet(LAMBDA bps, before : (before * bps) \div Full, Full,
                   LAMBDA w : Max({w.bps, 0}),
                   LAMBDA ws : CHOOSE w \in ws : \A v \in ws \ {w} : After(w, v),
                   {w \in f.windows : w.from <= t /\ t < w.to})

RateAt(f, t) == (f.rate * RateBpsAt(f, t)) \div Full

Edges(f, until) == {0, until} \cup {e \in UNION {{w.from, w.to} : w \in f.windows} : 0 < e /\ e < until}

Segments(edges) == {p \in edges \X edges : p[1] < p[2] /\ \A e \in edges : ~(p[1] < e /\ e < p[2])}

MovedMilli(f, ticks) ==
    MapThenSumSet(LAMBDA p : RateAt(f, p[1]) * (p[2] - p[1]), Segments(Edges(f, ticks)))

Room(f) == IF f.kind = "eats" THEN f.shelf.stock ELSE Max({f.shelf.capacity - f.shelf.stock, 0})

\* Ticks until the shelf is empty or full: in the first segment that moves as much as there
\* is room for, or past the last.
WalkHorizon(f) ==
    LET room == Room(f) * 1000
        last == Max({w.to : w \in f.windows} \cup {1})
        left(t) == Max({room - MovedMilli(f, t), 0})
        reaching == {p \in Segments(Edges(f, last)) :
                        RateAt(f, p[1]) > 0 /\ MovedMilli(f, p[2]) >= room}
        start == Min({p[1] : p \in reaching} \cup {last})
    IN IF f.rate = 0 THEN None ELSE start + left(start) \div RateAt(f, start)

StockAt(f, ticks) ==
    LET moved == MovedMilli(f, ticks) \div 1000
    IN IF f.kind = "eats" THEN Max({f.shelf.stock - moved, 0})
       ELSE Min({f.shelf.stock + moved, Max({f.shelf.capacity, f.shelf.stock})})

-----------------------------------------------------------------------------
(* The exchange's formula, and the forecast.                                *)

\* How short of its equilibrium a shelf is, or how long.
ImbalanceBps(stock, equilibrium) ==
    LET hi == Max({stock, equilibrium})
        magnitude == ((hi - Min({stock, equilibrium})) * Full) \div hi
    IN IF equilibrium = 0 THEN 0 ELSE IF stock < equilibrium THEN magnitude ELSE -magnitude

MidPrice(g, stock, equilibrium) ==
    LET swung == Full + Quotient(Register[g].swing * ImbalanceBps(stock, equilibrium), Full)
    IN Max({(Register[g].base * Clamped(swung, 2000, 20000)) \div Full, 1})

\* Where a berth both eats and makes a good the eating flow speaks.
Speaks(s, g) == IF Works(s, g, "eats") # {} THEN "eats" ELSE "makes"

\* What the forecast has a word on.
Foreseen == {p \in DOMAIN Shelves : /\ p[2] \in DOMAIN Register
                                    /\ \E kind \in {"eats", "makes"} : Works(p[1], p[2], kind) # {}}

MidThen(s, g, ticks) ==
    LET stock == StockAt(Flow(s, g, Speaks(s, g)), ticks)
    IN MidPrice(g, Min({stock, Max({Shelves[s, g].capacity, Shelves[s, g].stock})}),
                Shelves[s, g].equilibrium)

\* The ticks until an eaten shelf is dry.
Dry(s, g) == IF Works(s, g, "eats") = {} THEN None ELSE WalkHorizon(Flow(s, g, "eats"))
=============================================================================
