------------------------------ MODULE CloseOps ------------------------------
(***************************************************************************)
(* Close fleet operations: the captain walked from hull to hull so that    *)
(* every drive is repaired.                                                *)
(*                                                                         *)
(* Only the captain's papers repair a hull, and they answer for the hull   *)
(* the captain stands on.  The supervisor's pass (crates/cli/src/          *)
(* close_ops.rs) reads every hull, plans, files orders on the hulls' lists *)
(* and saves its own state at the end; the pilots choose their papers      *)
(* every fold and carry the orders out (crates/pilot/src/main.rs); the     *)
(* captain may switch the option and give orders by hand meanwhile.  The   *)
(* exchange is external: berths, wear, work and who stands where.  How a   *)
(* list is put back over a newer one is Orders' subject; here a list       *)
(* changes in one step.                                                    *)
(***************************************************************************)
EXTENDS Lists, Integers, FiniteSets, SequencesExt

CONSTANTS Hulls,        \* one captain's hulls, numbered in the order of their world ids
          Berths,
          None,         \* no berth, no hull
          CoPiloted,    \* hulls with a co-pilot's key of their own
          HandWords,    \* what the captain may order by hand: [verb, to]
          MaxWear,      \* how worn a drive is counted; from 1 on it is worth a visit
          Flagship,     \* the hull the captain stands on at first
          MaxTurns      \* bound on the captain's own words and switches, unanswered reads and
                        \* deaths of the supervisor together

ASSUME CloseOpsAssumption ==
    /\ Hulls \subseteq Nat /\ Hulls # {} /\ IsFiniteSet(Hulls)
    /\ None \notin Hulls \cup Berths
    /\ CoPiloted \subseteq Hulls
    /\ HandWords \subseteq [verb : {"hold", "travel", "repair"}, to : Berths \cup {None}]
    /\ MaxWear \in Nat \ {0} /\ MaxTurns \in Nat /\ Flagship \in Hulls

Papers == {"captain", "copilot"}

Orders == [verb : {"hold", "travel", "repair", "board"}, to : Berths \cup Hulls \cup {None},
           by : {"closeops", "captain"}, waits : BOOLEAN]

Steps == [do : {"meet", "hold", "board", "repair", "release", "done"},
          hull : Hulls \cup {None}, to : Berths \cup Hulls \cup {None}]

Step(do, hull, to) == [do |-> do, hull |-> hull, to |-> to]

\* CloseOps, one captain's close-ops.json.
Files == [on : BOOLEAN, target : Hulls \cup {None}, station : Berths \cup {None},
          held : SUBSET Hulls]

Fresh(on) == [on |-> on, target |-> None, station |-> None, held |-> {}]

VARIABLES docked,     \* the exchange: the berth a hull stands at, or None
          bound,      \* the exchange: the berth it flies to, or None
          wear,       \* the exchange: how worn its drive is
          aboard,     \* the exchange: the hull the captain stands on
          moving,     \* the exchange: the ship change accepted, or None
          repairing,  \* the exchange: hulls with a repair accepted
          orders,     \* each hull's orders.json, what is pending of it
          settling,   \* each hull's boards and repairs done less than SETTLE_SECS ago
          line,       \* each journal: the papers its last `papers` line names
          file,       \* close-ops.json
          pass,       \* the supervisor's pass: [at, state, steps]
          orphans,    \* history: hulls put on a hold by a pass that died
          turns       \* the captain's words and the mishaps so far

exchange == <<docked, bound, wear, aboard, moving, repairing>>
vars == <<exchange, orders, settling, line, file, pass, orphans, turns>>

Resting == [at |-> "idle", state |-> Fresh(FALSE), steps |-> << >>, ticked |-> FALSE]

TypeOK ==
    /\ docked \in [Hulls -> Berths \cup {None}] /\ bound \in [Hulls -> Berths \cup {None}]
    /\ wear \in [Hulls -> 0..MaxWear]
    /\ aboard \in Hulls
    /\ moving \in [from : Hulls, to : Hulls] \cup {None}
    /\ repairing \subseteq Hulls
    /\ orders \in [Hulls -> Seq(Orders)]
    /\ settling \in [Hulls -> SUBSET {"board", "repair"}]
    /\ line \in [Hulls -> Papers]
    /\ file \in Files
    /\ pass \in [at : {"idle", "planned"}, state : Files, steps : Seq(Steps), ticked : BOOLEAN]
    /\ orphans \subseteq Hulls /\ turns \in 0..MaxTurns

Init ==
    /\ docked \in [Hulls -> Berths] /\ bound = [h \in Hulls |-> None]
    /\ wear \in [Hulls -> {0, MaxWear}]
    /\ aboard = Flagship /\ moving = None /\ repairing = {}
    /\ orders = [h \in Hulls |-> << >>] /\ settling = [h \in Hulls |-> {}]
    /\ line = [h \in Hulls |-> IF h = aboard THEN "captain" ELSE "copilot"]
    /\ file = Fresh(TRUE) /\ pass = Resting
    /\ orphans = {} /\ turns = 0

Turn == turns < MaxTurns /\ turns' = turns + 1

-----------------------------------------------------------------------------
(* A hull's list of orders.                                                 *)

IsCourse(o) == o.verb \in {"hold", "travel"}

Courses(h) == {k \in DOMAIN orders[h] : IsCourse(orders[h][k])}

\* The newest course stands, and the doctrine files nothing.
UnderOrders(h) == Courses(h) # {}

\* A hold at a berth leaves the travel that goes there.
GoesWith(p, o) == o.verb = "hold" /\ o.to # None /\ p.verb = "travel" /\ p.to = o.to

\* place_order: a course ends the courses before it, save the travel a hold at the same
\* berth goes with.
Placed(list, o) ==
    Append(IF IsCourse(o)
           THEN Only(list, {p \in Range(list) : ~IsCourse(p) \/ GoesWith(p, o)})
           ELSE list, o)

\* store::resume: the courses end.
Resumed(list) == Only(list, {o \in Range(list) : ~IsCourse(o)})

NewOrder(verb, to, by) == [verb |-> verb, to |-> to, by |-> by, waits |-> FALSE]

Places(h, o) == orders' = [orders EXCEPT ![h] = Placed(@, o)]

-----------------------------------------------------------------------------
(* What is due (plan).                                                      *)

NextBerth(row) == IF row.docked # None THEN row.docked ELSE row.boundFor

Worn(row) == row.wear >= 1

Releases(held) == SetToSeq({Step("release", h, None) : h \in held})

\* A mutation: the meeting is forgotten, its holds are not.
ForgetsTheHolds(state) == <<Step("done", None, None)>>

\* release_all.
LetGo(state) == Append(Releases(state.held), Step("done", None, None))

\* A mutation: target and station swapped.
MeetSwapped(w, berth) == <<Step("meet", berth, w), Step("hold", w, berth)>>

\* A meeting begins, or moves to another berth.
Meet(w, berth) == <<Step("meet", w, berth), Step("hold", w, berth)>>

\* Repairs what the captain stands on, once the pilot flies the captain's papers.
CanRepair(row) == row.captainPapers /\ row.docked # None /\ "repair" \notin row.pending

\* The meeting under way: the target boarded, or both there, coming, or gone elsewhere.
PlanMeeting(state, seen, cap) ==
    LET t    == state.target
        st   == state.station
        left == {h \in state.held \ {t} : h \in DOMAIN seen /\ h # cap}
        w    == seen[t]
        there  == seen[cap].docked = st /\ w.docked = st
        coming == NextBerth(seen[cap]) = st
        wComes == w.docked = st \/ w.boundFor = st
    IN  IF t \notin DOMAIN seen THEN LetGo(state)
        ELSE IF left # {} THEN Releases(left)
        ELSE IF ~Worn(w) THEN LetGo(state)
        ELSE IF t = cap THEN IF CanRepair(w) THEN <<Step("repair", t, None)>> ELSE << >>
        ELSE IF there
        THEN IF "board" \in seen[cap].pending THEN << >> ELSE <<Step("board", cap, t)>>
        ELSE IF coming
        THEN IF wComes /\ cap \notin state.held THEN <<Step("hold", cap, st)>> ELSE << >>
        ELSE IF NextBerth(seen[cap]) # None /\ ~w.carrying THEN Meet(t, NextBerth(seen[cap]))
        ELSE LetGo(state)

\* No meeting: the most worn hull that can be at the captain's next berth.
PlanFetch(seen, cap) ==
    LET berth  == NextBerth(seen[cap])
        idle(w) == ~w.carrying /\ w.boundFor = None /\ w.docked # None
        fit    == {h \in DOMAIN seen \ {cap} :
                     Worn(seen[h]) /\ (NextBerth(seen[h]) = berth \/ idle(seen[h]))}
        first(h) == \A g \in fit : \/ seen[h].wear > seen[g].wear
                                   \/ seen[h].wear = seen[g].wear /\ h <= g
    IN  IF berth = None \/ fit = {} THEN << >>
        ELSE Meet(CHOOSE h \in fit : first(h), berth)

Plan(state, seen, stands) ==
    IF ~state.on \/ stands \notin DOMAIN seen THEN << >>
    ELSE IF Worn(seen[stands]) /\ CanRepair(seen[stands]) THEN <<Step("repair", stands, None)>>
    ELSE IF state.target # None THEN PlanMeeting(state, seen, stands)
    ELSE PlanFetch(seen, stands)

-----------------------------------------------------------------------------
(* The pass.                                                                *)

\* A hull is read through the papers its journal last named, and the captain's answer for
\* the hull the captain stands on.
AnswersFor(h) == IF line[h] = "captain" THEN aboard ELSE h

\* A mutation: an order that reads done no longer counts.
StandingVerbs(h) == {orders[h][k].verb : k \in DOMAIN orders[h]}

\* The verbs of the orders that stand, or were done less than SETTLE_SECS ago.
PendingVerbs(h) == {orders[h][k].verb : k \in DOMAIN orders[h]} \cup settling[h]

\* view, of the hulls whose papers get an answer; some of them hold contracts.
View(answering, laden) ==
    [h \in answering |->
        LET a == AnswersFor(h)
        IN  [captainPapers |-> line[h] = "captain", wear |-> wear[a],
             docked |-> docked[a], boundFor |-> bound[a], carrying |-> a \in laden,
             pending |-> PendingVerbs(h)]]

\* The state is loaded, the register and the hulls are read, and the steps planned; with
\* nothing due nothing is saved either.
BeginPass ==
    /\ pass.at = "idle" /\ file.on
    /\ \E answering, laden \in SUBSET Hulls :
          /\ IF answering = Hulls THEN UNCHANGED turns ELSE Turn
          /\ LET steps == Plan(file, View(answering, laden), aboard)
             IN  /\ steps # << >>
                 /\ pass' = [at |-> "planned", state |-> file, steps |-> steps, ticked |-> FALSE]
    /\ UNCHANGED <<exchange, orders, settling, line, file, orphans>>

OwnHold(o) == o.verb = "hold" /\ o.by = "closeops"

\* One step, filed on its hull's list or noted in the pass's own copy of the state.
Apply(so, s) ==
    CASE s.do = "meet" -> [so EXCEPT !.state.target = s.hull, !.state.station = s.to]
      [] s.do = "hold" -> [so EXCEPT !.orders[s.hull] = Placed(@, NewOrder("hold", s.to, "closeops")),
                                     !.state.held = @ \cup {s.hull}]
      [] s.do \in {"board", "repair"} ->
            [so EXCEPT !.orders[s.hull] = Placed(@, NewOrder(s.do, s.to, "closeops"))]
      [] s.do = "release" ->
            [so EXCEPT !.orders[s.hull] =
                          IF \E k \in DOMAIN @ : OwnHold(@[k]) THEN Resumed(@) ELSE @,
                       !.state.held = @ \ {s.hull}]
      [] s.do = "done" -> [so EXCEPT !.state = Fresh(so.state.on)]

\* The lists and the state when the first n steps are taken.
AfterSteps(n) ==
    LET after[k \in 0..n] == IF k = 0 THEN [orders |-> orders, state |-> pass.state]
                             ELSE Apply(after[k - 1], pass.steps[k])
    IN  after[n]

\* The steps are filed, and the state the pass loaded is saved as they have changed it.
\* Two steps of one plan never touch one list, so they are filed together.
FilesPass ==
    /\ pass.at = "planned"
    /\ LET after == AfterSteps(Len(pass.steps))
       IN  /\ orders' = after.orders /\ file' = after.state
           /\ orphans' = orphans \ after.state.held
    /\ pass' = Resting
    /\ UNCHANGED <<exchange, settling, line, turns>>

\* The supervisor dies in its pass, some of the steps filed and nothing saved.
Dies ==
    /\ pass.at = "planned" /\ Turn
    /\ \E n \in 0..Len(pass.steps) :
          LET after == AfterSteps(n)
          IN  orders' = after.orders /\ orphans' = orphans \cup (after.state.held \ pass.state.held)
    /\ pass' = Resting
    /\ UNCHANGED <<exchange, settling, line, file>>

-----------------------------------------------------------------------------
(* The captain's own hand.                                                  *)

\* The option is set in the file as it stands, and nothing else of it.
Switch(on) ==
    /\ Turn /\ file.on # on
    /\ file' = [file EXCEPT !.on = on]
    /\ UNCHANGED <<exchange, orders, settling, line, pass, orphans>>

GivesOrder(h, word) ==
    /\ Turn
    /\ Places(h, NewOrder(word.verb, word.to, "captain"))
    /\ UNCHANGED <<exchange, settling, line, file, pass, orphans>>

Resumes(h) ==
    /\ Turn /\ UnderOrders(h)
    /\ orders' = [orders EXCEPT ![h] = Resumed(@)]
    /\ UNCHANGED <<exchange, settling, line, file, pass, orphans>>

\* The captain changes ship from the desk app.
BoardsByHand(to) ==
    /\ Turn /\ to # aboard /\ docked[to] # None /\ docked[to] = docked[aboard]
    /\ aboard' = to
    /\ UNCHANGED <<docked, bound, wear, moving, repairing, orders, settling, line,
                   file, pass, orphans>>

-----------------------------------------------------------------------------
(* The pilots.                                                            *)

\* pending_until: the pilot files nothing while an act of its own has not resolved.
Busy(h) == h \in repairing \/ (moving # None /\ moving.from = h)

\* select_papers: the captain's where they answer for this hull, else its co-pilot's, else
\* none and the pilot holds.
PapersFor(h) ==
    IF aboard = h THEN "captain" ELSE IF h \in CoPiloted THEN "copilot" ELSE None

\* The papers are chosen anew each fold; a change is journaled, save that to none.
Chooses(h) ==
    line' = [line EXCEPT ![h] = IF PapersFor(h) = None THEN @ ELSE PapersFor(h)]

Departs(h, to) ==
    /\ docked' = [docked EXCEPT ![h] = None]
    /\ bound' = [bound EXCEPT ![h] = to]
    /\ UNCHANGED <<wear, aboard, moving, repairing>>

\* The berth a standing hold is at, when it is another than the hull's and no travel order
\* goes there.
HoldElsewhere(h) ==
    {o.to : o \in {orders[h][k] : k \in {k \in Courses(h) : orders[h][k].verb = "hold"}}}
        \ ({None, docked[h]} \cup {orders[h][k].to : k \in {k \in Courses(h) : orders[h][k].verb = "travel"}})

FliesToHold(h) ==
    /\ docked[h] # None
    /\ \E to \in HoldElsewhere(h) : Departs(h, to)
    /\ UNCHANGED <<orders, settling>>

\* An order whose moment has come: not a hold, and not one that waits; what the captain
\* gave by hand is for the next docking.
Ready(h) ==
    {k \in DOMAIN orders[h] :
        LET o == orders[h][k]
        IN  /\ o.verb # "hold" /\ ~o.waits
            /\ o.verb = "travel" \/ o.by = "closeops" \/ docked[h] # None}

Leaves(h, k) == orders' = [orders EXCEPT ![h] = RemoveAt(@, k)]

WaitsForGood(h, k) == orders' = [orders EXCEPT ![h][k].waits = TRUE]

CanBoard(h, o) == PapersFor(h) = "captain" /\ docked[h] # None /\ docked[o.to] = docked[h]

\* An order that is neither filed nor marked this fold: a travel under way, a ship change
\* with no rendezvous.
StandsBy(h, o) ==
    \/ o.verb = "travel" /\ docked[h] = None
    \/ o.verb = "board" /\ ~CanBoard(h, o)

\* The orders' phase files nothing this fold.
NoOrderToFile(h) ==
    /\ docked[h] = None \/ HoldElsewhere(h) = {}
    /\ \A k \in Ready(h) : (\A j \in Ready(h) : k <= j) => StandsBy(h, orders[h][k])

\* The first ready order.
CarriesOut(h) ==
    /\ docked[h] = None \/ HoldElsewhere(h) = {}
    /\ Ready(h) # {}
    /\ LET k == Min(Ready(h))
           o == orders[h][k]
       IN  \/ /\ o.verb = "travel" /\ docked[h] # None /\ Leaves(h, k)
              /\ IF o.to = docked[h] THEN UNCHANGED exchange ELSE Departs(h, o.to)
              /\ UNCHANGED settling
           \/ /\ o.verb = "board" /\ CanBoard(h, o) /\ Leaves(h, k)
              /\ moving' = [from |-> h, to |-> o.to]
              /\ settling' = [settling EXCEPT ![h] = @ \cup {"board"}]
              /\ UNCHANGED <<docked, bound, wear, aboard, repairing>>
           \/ /\ o.verb = "repair" /\ PapersFor(h) = "captain" /\ Leaves(h, k)
              /\ repairing' = repairing \cup {h}
              /\ settling' = [settling EXCEPT ![h] = @ \cup {"repair"}]
              /\ UNCHANGED <<docked, bound, wear, aboard, moving>>
           \/ /\ o.verb = "repair" /\ WaitsForGood(h, k)
              /\ PapersFor(h) = "copilot" \/ docked[h] = None
              /\ UNCHANGED <<exchange, settling>>

\* What the doctrine may do, when no order is filed and no course stands: sail with a
\* contract, or repair on the captain's papers.
Doctrine(h) ==
    /\ docked[h] # None /\ ~UnderOrders(h) /\ NoOrderToFile(h)
    /\ \/ \E to \in Berths \ {docked[h]} : Departs(h, to)
       \/ /\ PapersFor(h) = "captain" /\ wear[h] >= 1
          /\ repairing' = repairing \cup {h}
          /\ UNCHANGED <<docked, bound, wear, aboard, moving>>
    /\ UNCHANGED <<orders, settling>>

Fold(h) ==
    /\ Chooses(h)
    /\ \/ /\ Busy(h) \/ PapersFor(h) = None \/ NoOrderToFile(h)
          /\ UNCHANGED <<exchange, orders, settling>>
       \/ /\ ~Busy(h) /\ PapersFor(h) # None
          /\ FliesToHold(h) \/ CarriesOut(h) \/ Doctrine(h)
    /\ UNCHANGED <<file, pass, orphans, turns>>

-----------------------------------------------------------------------------
(* The exchange.                                                            *)

\* A pass takes seconds and a tick minutes: one thing at most resolves while a pass is
\* under way.
Tick ==
    IF pass.at = "idle" THEN UNCHANGED pass
    ELSE ~pass.ticked /\ pass' = [pass EXCEPT !.ticked = TRUE]

\* Flying wears the drive.
Arrives(h) ==
    /\ Tick
    /\ bound[h] # None
    /\ docked' = [docked EXCEPT ![h] = bound[h]] /\ bound' = [bound EXCEPT ![h] = None]
    /\ \E w \in {wear[h], wear[h] + 1} : w <= MaxWear /\ wear' = [wear EXCEPT ![h] = w]
    /\ UNCHANGED <<aboard, moving, repairing, orders, settling, line, file, orphans,
                   turns>>

\* A ship change is good between two hulls at one berth, from the hull the captain is on.
ShipChanges ==
    /\ Tick
    /\ moving # None /\ moving' = None
    /\ aboard' = IF aboard = moving.from /\ docked[moving.to] # None
                    /\ docked[moving.to] = docked[moving.from] THEN moving.to ELSE aboard
    /\ UNCHANGED <<docked, bound, wear, repairing, orders, settling, line, file, orphans, turns>>

\* A repair is good at a berth.
Repaired(h) ==
    /\ Tick
    /\ h \in repairing /\ repairing' = repairing \ {h}
    /\ wear' = IF docked[h] # None THEN [wear EXCEPT ![h] = 0] ELSE wear
    /\ UNCHANGED <<docked, bound, aboard, moving, orders, settling, line, file, orphans,
                   turns>>

\* SETTLE_SECS pass: two ticks, one more than an act takes to resolve.
Settles(h) ==
    /\ settling[h] # {} /\ ~Busy(h) /\ pass.at = "idle"
    /\ settling' = [settling EXCEPT ![h] = {}]
    /\ UNCHANGED <<exchange, orders, line, file, pass, orphans, turns>>

-----------------------------------------------------------------------------

Supervisor == BeginPass \/ FilesPass

Captain ==
    \/ \E on \in BOOLEAN : Switch(on)
    \/ \E h \in Hulls : Resumes(h) \/ BoardsByHand(h) \/ \E word \in HandWords : GivesOrder(h, word)

World(h) == Arrives(h) \/ Repaired(h) \/ Settles(h)

Next ==
    \/ Supervisor \/ Dies \/ Captain \/ ShipChanges
    \/ \E h \in Hulls : Fold(h) \/ World(h)

Spec == Init /\ [][Next]_vars

-----------------------------------------------------------------------------
(* Properties.                                                              *)

\* The supervisor knows of every hold it has placed, or died placing it: a hull never waits
\* for a meeting that nobody will end.
HoldsKnown ==
    {h \in Hulls : \E k \in DOMAIN orders[h] : OwnHold(orders[h][k])} \subseteq file.held \cup orphans

OwnCount(h, verb) ==
    Cardinality({k \in DOMAIN orders[h] : orders[h][k].verb = verb /\ orders[h][k].by = "closeops"})

\* From the hull the captain stands on one boarding at most is ordered or under way, though
\* the register lags a tick behind the order that reads done.
OneBoarding ==
    OwnCount(aboard, "board") + (IF moving # None /\ moving.from = aboard THEN 1 ELSE 0) <= 1

\* However often a hull is seen worn, one repair of it at most is ordered or under way.
OneRepair ==
    \A h \in Hulls : OwnCount(h, "repair") <= 1

\* The pass looks at a fleet that has not caught up with its last word, and still gives no
\* word twice.
OneOfEach == OneBoarding /\ OneRepair
=============================================================================
