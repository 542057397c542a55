------------------------------- MODULE Orders -------------------------------
(***************************************************************************)
(* The captain's standing orders on one hull.                              *)
(*                                                                         *)
(* orders.json (crates/pilot/src/store.rs) is a list the captain's front   *)
(* ends and the pilot all change the same way: load it, change the copy,   *)
(* put the whole copy back with a rename.  Nothing locks it, so a copy may *)
(* be old by the time it is put back.                                      *)
(*                                                                         *)
(* The pilot (crates/pilot/src/main.rs) carries the orders out ahead of    *)
(* its own doctrine, one fold after the other; the exchange is external    *)
(* and appears as what it accepts, refuses and does to the hull.           *)
(***************************************************************************)
EXTENDS Integers, Sequences, FiniteSets, SequencesExt

CONSTANTS Stations,     \* berths
          Pumps,        \* berths that sell fuel
          Nowhere,      \* no berth: in flight, or an order that names none
          FrontEnds,    \* fleet order, fleet serve, the supervisor's close-ops pass
          Words,        \* what the captain may order: [verb, station, now]
          Denials,      \* the sets of verbs the key in hand may turn out not to file
          MaxWords,     \* bound on the captain's words
          MaxMishaps    \* bound on crashes, refusals and lost replies

Verbs == {"travel", "hold", "board", "repair", "refuel", "payLease", "paws"}

Places == Stations \cup {Nowhere}

ASSUME OrdersAssumption ==
    /\ Pumps \subseteq Stations
    /\ Nowhere \notin Stations
    /\ Words \subseteq [verb : Verbs, station : Places, now : BOOLEAN]
    /\ \A w \in Words : w.verb = "travel" => w.station # Nowhere
    /\ Denials \subseteq SUBSET Verbs
    /\ MaxWords \in Nat
    /\ MaxMishaps \in Nat

Ids == 1..MaxWords

\* now: filed at once, not at the next docking.  waits: it carries a reason in `waits`,
\* be it refused, denied, superseded or resumed.  A travel names its berth, and a
\* "resume" is on the list as a word heard, done.
OrderRecs ==
    {o \in [id : Ids, verb : Verbs \cup {"resume"}, station : Places, now : BOOLEAN,
            done : BOOLEAN, waits : BOOLEAN] :
        /\ o.verb = "travel" => o.station # Nowhere
        /\ o.verb = "resume" => o.done}

-----------------------------------------------------------------------------
(* The list (crates/pilot/src/store.rs).                                    *)

NewOrder(id, word) ==
    [id |-> id, verb |-> word.verb, station |-> word.station, now |-> word.now,
     done |-> FALSE, waits |-> FALSE]

Pending(o) == ~o.done

\* A mutation of Ready: a course order is ready whether or not it is still pending.
ReadyEvenDone(o, docked) ==
    CASE o.verb = "hold"               -> FALSE
      [] o.verb \in {"travel", "paws"} -> TRUE
      [] OTHER                         -> Pending(o) /\ (o.now \/ docked)

Ready(o, docked) ==
    CASE o.verb = "hold"               -> FALSE
      [] o.verb \in {"travel", "paws"} -> Pending(o)
      [] OTHER                         -> Pending(o) /\ (o.now \/ docked)

IsCourse(o) == o.verb \in {"travel", "hold"}

PendingCourse(o) == IsCourse(o) /\ Pending(o)

\* A mutation of SameBerth: any travel is left to stand under a new hold.
SameBerthAny(order, o) ==
    order.verb = "hold" /\ o.verb = "travel" /\ order.station # Nowhere

\* "Go to X, wait there": one course in two words.
SameBerth(order, o) ==
    /\ order.verb = "hold" /\ o.verb = "travel"
    /\ order.station # Nowhere /\ o.station = order.station

Ended(o) == [o EXCEPT !.done = TRUE, !.waits = TRUE]

\* place_order: a course order supersedes the courses before it, and the order joins.
PlaceOrder(orders, order) ==
    Append([k \in DOMAIN orders |->
                IF IsCourse(order) /\ PendingCourse(orders[k]) /\ ~SameBerth(order, orders[k])
                  THEN Ended(orders[k]) ELSE orders[k]],
           order)

\* resume: every pending course ends, and the word itself stays on the list, done.
ResumeOrders(orders, id) ==
    Append([k \in DOMAIN orders |->
                IF PendingCourse(orders[k]) THEN Ended(orders[k]) ELSE orders[k]],
           [id |-> id, verb |-> "resume", station |-> Nowhere, now |-> TRUE,
            done |-> TRUE, waits |-> FALSE])

NoOrder == [verb |-> "none", station |-> Nowhere]

\* standing_course: the newest pending course.
StandingCourse(orders) ==
    LET courses == {k \in DOMAIN orders : PendingCourse(orders[k])}
    IN  IF courses = {} THEN NoOrder
        ELSE LET o == orders[Max(courses)]
             IN  [verb |-> o.verb, station |-> o.station]

\* The newest pending hold that names a berth other than the one under the hull, no
\* travel to it being pending: its place on the list, or 0.
HoldElsewhere(orders, berth, bound) ==
    LET holds == {k \in DOMAIN orders :
                    /\ orders[k].verb = "hold" /\ Pending(orders[k])
                    /\ orders[k].station # Nowhere}
        h == Max(holds)
    IN  IF /\ holds # {}
           /\ berth # Nowhere /\ bound = Nowhere
           /\ orders[h].station # berth
           /\ ~ \E k \in DOMAIN orders :
                  /\ orders[k].verb = "travel" /\ Pending(orders[k])
                  /\ orders[k].station = orders[h].station
          THEN h ELSE 0

\* The first order the fold can satisfy, or 0.
FirstReady(orders, docked) ==
    LET ready == {k \in DOMAIN orders : Ready(orders[k], docked) /\ ~orders[k].waits}
    IN  IF ready = {} THEN 0 ELSE Min(ready)

-----------------------------------------------------------------------------

VARIABLES file,      \* orders.json
          said,      \* how many orders the captain has given; the next one's id
          desks,     \* the copy each front end is about to put back
          fold,      \* the pilot's fold: how far it is and what it has read
          accepted,  \* what the exchange has accepted and not yet resolved
          hull,      \* the ship as the exchange knows it
          mishaps,   \* crashes, refusals and lost replies so far
          times,     \* history: how often the exchange accepted each order
          causes     \* history: what can make the pilot file an order again

vars == <<file, said, desks, fold, accepted, hull, mishaps, times, causes>>

\* An act of the captain's order `id`; 0 is a course the hold needs, or the doctrine's.
Acts == {a \in [verb : Verbs, station : Places, id : Ids \cup {0}] :
            a.verb = "travel" => a.station # Nowhere}

Hulls == [berth : Places, bound : Places, short : BOOLEAN]

IdleFold == [at |-> "idle", berth |-> Nowhere, bound |-> Nowhere, short |-> FALSE,
             course |-> NoOrder, denied |-> {}, list |-> << >>, ends |-> FALSE, filed |-> 0]

Folds == [at : {"idle", "surveyed", "holding", "picking", "saving", "doctrine"},
          berth : Places, bound : Places, short : BOOLEAN,
          course : [verb : {"none", "travel", "hold"}, station : Places],
          denied : SUBSET Verbs, list : Seq(OrderRecs), ends : BOOLEAN, filed : Nat]

Copies == [at : {"idle", "holding"}, list : Seq(OrderRecs), old : BOOLEAN]

TypeOK ==
    /\ file \in Seq(OrderRecs)
    /\ said \in 0..MaxWords
    /\ desks \in [FrontEnds -> Copies]
    /\ fold \in Folds
    /\ accepted \in SUBSET Acts
    /\ hull \in Hulls
    /\ (hull.berth = Nowhere) <=> (hull.bound # Nowhere)
    /\ mishaps \in 0..MaxMishaps
    /\ times \in [Ids -> Nat]
    /\ causes \in Nat

Init ==
    /\ file = << >>
    /\ said = 0
    /\ desks = [f \in FrontEnds |-> [at |-> "idle", list |-> << >>, old |-> FALSE]]
    /\ fold = IdleFold
    /\ accepted = {}
    /\ hull \in Hulls
    /\ hull.berth # Nowhere /\ hull.bound = Nowhere
    /\ mishaps = 0
    /\ times = [i \in Ids |-> 0]
    /\ causes = 0

-----------------------------------------------------------------------------
(* The captain's front ends.                                                *)

Hold(f, list) == desks' = [desks EXCEPT ![f] = [at |-> "holding", list |-> list, old |-> FALSE]]

\* `fleet order`, POST /ships/{id}/orders and the close-ops pass.
Order(f, word) ==
    /\ desks[f].at = "idle" /\ said < MaxWords
    /\ said' = said + 1
    /\ Hold(f, PlaceOrder(file, NewOrder(said + 1, word)))
    /\ UNCHANGED <<file, fold, accepted, hull, mishaps, times, causes>>

\* The same with the word "resume".
Resume(f) ==
    /\ desks[f].at = "idle" /\ said < MaxWords
    /\ said' = said + 1
    /\ Hold(f, ResumeOrders(file, said + 1))
    /\ UNCHANGED <<file, fold, accepted, hull, mishaps, times, causes>>

\* DELETE /ships/{id}/orders/{oid}: only a pending order can be withdrawn.
Withdraw(f, k) ==
    /\ desks[f].at = "idle"
    /\ Pending(file[k])
    /\ Hold(f, RemoveAt(file, k))
    /\ UNCHANGED <<file, said, fold, accepted, hull, mishaps, times, causes>>

\* save_orders: the whole copy takes the list's place.
Save(f) ==
    /\ desks[f].at = "holding"
    /\ file' = desks[f].list
    /\ causes' = IF desks[f].old THEN causes + 1 ELSE causes
    /\ desks' = [desks EXCEPT ![f] = [at |-> "idle", list |-> << >>, old |-> FALSE]]
    /\ UNCHANGED <<said, fold, accepted, hull, mishaps, times>>

-----------------------------------------------------------------------------
(* The exchange.                                                            *)

\* An accepted act resolves at its tick.  A travel to the berth under the hull, one
\* filed under way, and one the tank cannot fly are dropped.
Fly(to) ==
    hull' = IF \/ to = hull.berth \/ hull.berth = Nowhere
               \/ hull.short /\ to \notin Pumps
              THEN hull
              ELSE [berth |-> Nowhere, bound |-> to, short |-> hull.short]

Resolve(a) ==
    /\ accepted' = accepted \ {a}
    /\ CASE a.verb = "travel" -> Fly(a.station)
         [] a.verb = "refuel" /\ hull.berth \in Pumps -> hull' = [hull EXCEPT !.short = FALSE]
         [] OTHER -> UNCHANGED hull
    /\ UNCHANGED <<file, said, desks, fold, mishaps, times, causes>>

\* The hull berths; what is left in the tank may be short of any next leg.
Land ==
    /\ hull.bound # Nowhere
    /\ \E s \in BOOLEAN : hull' = [berth |-> hull.bound, bound |-> Nowhere, short |-> s]
    /\ UNCHANGED <<file, said, desks, fold, accepted, mishaps, times, causes>>

-----------------------------------------------------------------------------
(* The pilot's fold.                                                        *)

\* /v1/me and the standing course.  The fold waits out every act the exchange still has
\* pending before it decides anything.
Survey ==
    /\ fold.at = "idle" /\ accepted = {}
    /\ \E denied \in Denials :
          fold' = [fold EXCEPT !.at = "surveyed", !.denied = denied,
                               !.berth = hull.berth, !.bound = hull.bound,
                               !.short = hull.short, !.course = StandingCourse(file)]
    /\ UNCHANGED <<file, said, desks, accepted, hull, mishaps, times, causes>>

LoadOrders ==
    /\ fold.at = "surveyed"
    /\ fold' = [fold EXCEPT !.at = "holding", !.list = file]
    /\ UNCHANGED <<file, said, desks, accepted, hull, mishaps, times, causes>>

\* POST /v1/actions.  The exchange accepts the act and the pilot hears so; or the pilot
\* hears an error, because the exchange refused it or because its answer was lost.
Accept(a) ==
    /\ accepted' = accepted \cup {a}
    /\ times' = IF a.id = 0 THEN times ELSE [times EXCEPT ![a.id] = @ + 1]

Acked(a) == Accept(a) /\ UNCHANGED mishaps

Errs(a) ==
    /\ mishaps < MaxMishaps
    /\ mishaps' = mishaps + 1
    /\ Accept(a) \/ UNCHANGED <<accepted, times>>

Goes(at) == fold' = [fold EXCEPT !.at = at]

Files(at) == fold' = [fold EXCEPT !.at = at, !.filed = @ + 1]

\* The hold whose berth is still to be flown to, by the copy and the hull this fold read.
DueHold == HoldElsewhere(fold.list, fold.berth, fold.bound)

TooShort == fold.short /\ fold.list[DueHold].station \notin Pumps

CanRefuel == fold.berth \in Pumps /\ "refuel" \notin fold.denied

\* Short of the course to the hold: fill the tank first.  The fold then goes on.
RefuelForHold ==
    /\ fold.at = "holding" /\ DueHold # 0 /\ TooShort /\ CanRefuel
    /\ LET a == [verb |-> "refuel", station |-> Nowhere, id |-> 0]
       IN  \/ Acked(a) /\ Files("picking")
           \/ Errs(a) /\ Goes("picking")
    /\ UNCHANGED <<file, said, desks, hull, causes>>

\* The course to the hold; filed, it ends the fold.
TravelToHold ==
    /\ fold.at = "holding" /\ DueHold # 0 /\ ~TooShort /\ "travel" \notin fold.denied
    /\ LET a == [verb |-> "travel", station |-> fold.list[DueHold].station, id |-> 0]
       IN  \/ Acked(a) /\ fold' = IdleFold
           \/ Errs(a) /\ Goes("picking")
    /\ UNCHANGED <<file, said, desks, hull, causes>>

\* No hold to fly to, or none the key or the tank lets the pilot fly to now.  A short
\* tank at a berth without a pump is left to the doctrine's fuel rules.
LeaveHold ==
    /\ fold.at = "holding"
    /\ \/ DueHold = 0
       \/ DueHold # 0 /\ TooShort /\ ~CanRefuel
       \/ DueHold # 0 /\ ~TooShort /\ "travel" \in fold.denied
    /\ Goes("picking")
    /\ UNCHANGED <<file, said, desks, accepted, hull, mishaps, times, causes>>

\* A mutation of Marks: an order keeps no reason to wait.
MarksNoReason(k, done, filed) ==
    fold' = [fold EXCEPT !.at = "saving", !.ends = done, !.filed = @ + filed,
                         !.list[k] = [@ EXCEPT !.done = done]]

\* One order of the copy is marked done, which ends the fold, or gets its reason to wait.
Marks(k, done, filed) ==
    fold' = [fold EXCEPT !.at = "saving", !.ends = done, !.filed = @ + filed,
                         !.list[k] = [@ EXCEPT !.done = done, !.waits = ~done]]

\* A mutation of FileOrder: the order is not marked when the exchange takes it.
FileOrderUnmarked(k, a) ==
    \/ Acked(a) /\ Files("doctrine")
    \/ Errs(a) /\ Marks(k, FALSE, 0)

\* A mutation of FileOrder: an error is taken for an answer.
FileOrderOnAnyReply(k, a) == (Acked(a) \/ Errs(a)) /\ Marks(k, TRUE, 1)

\* The order is done when the exchange says it took it; an error is its reason to wait.
FileOrder(k, a) ==
    \/ Acked(a) /\ Marks(k, TRUE, 1)
    \/ Errs(a) /\ Marks(k, FALSE, 0)

\* The place of the first order this fold can satisfy, and the order.
First == FirstReady(fold.list, fold.berth # Nowhere)
Due == fold.list[First]

\* Nothing to file, or the first in line is a travel under way or a ship change whose
\* rendezvous is not made: it is passed over for this fold, and with it all behind it.
PassOver ==
    /\ fold.at = "picking"
    /\ \/ First = 0
       \/ First # 0 /\ Due.verb = "board"
       \/ First # 0 /\ Due.verb = "travel" /\ fold.berth = Nowhere
    /\ Goes("doctrine")
    /\ UNCHANGED <<file, said, desks, accepted, hull, mishaps, times, causes>>

\* A travel to the berth under the hull is done by arrival.
AlreadyThere ==
    /\ fold.at = "picking" /\ First # 0
    /\ Due.verb = "travel" /\ Due.station = fold.berth
    /\ Marks(First, TRUE, 0)
    /\ UNCHANGED <<file, said, desks, accepted, hull, mishaps, times, causes>>

\* A verb the key cannot file waits for the captain's own papers.
LeaveToCaptain ==
    /\ fold.at = "picking" /\ First # 0
    /\ Due.verb \in fold.denied \ {"board"}
    /\ Due.verb = "travel" => fold.berth \notin {Nowhere, Due.station}
    /\ Marks(First, FALSE, 0)
    /\ UNCHANGED <<file, said, desks, accepted, hull, mishaps, times, causes>>

\* The first in line goes to the exchange.
SendOrder ==
    /\ fold.at = "picking" /\ First # 0
    /\ Due.verb \notin fold.denied
    /\ Due.verb = "travel" => fold.berth \notin {Nowhere, Due.station}
    /\ FileOrder(First, [verb |-> Due.verb, station |-> Due.station, id |-> Due.id])
    /\ UNCHANGED <<file, said, desks, hull, causes>>

\* save_orders: the pilot's copy takes the list's place, whatever was put there since.
SaveOrders ==
    /\ fold.at = "saving"
    /\ file' = fold.list
    /\ fold' = IF fold.ends THEN IdleFold ELSE [fold EXCEPT !.at = "doctrine"]
    /\ desks' = [f \in FrontEnds |-> [desks[f] EXCEPT !.old = desks[f].at = "holding"]]
    /\ UNCHANGED <<said, accepted, hull, mishaps, times, causes>>

\* The doctrine's own acts that move the hull or fill its tank.  While a course stands
\* the gate refuses every one of them.
DoctrineAct ==
    /\ fold.at = "doctrine"
    /\ fold.course = NoOrder /\ fold.filed = 0
    /\ fold.berth # Nowhere
    /\ \E a \in [verb : {"travel"}, station : Stations \ {fold.berth}, id : {0}]
                \cup [verb : {"refuel"}, station : {Nowhere}, id : {0}] :
          /\ a.verb = "refuel" => fold.berth \in Pumps
          /\ a.verb = "travel" /\ fold.short => a.station \in Pumps
          /\ a.verb \notin fold.denied
          /\ Acked(a) \/ Errs(a)
    /\ fold' = IdleFold
    /\ UNCHANGED <<file, said, desks, hull, causes>>

EndFold ==
    /\ fold.at = "doctrine"
    /\ fold' = IdleFold
    /\ UNCHANGED <<file, said, desks, accepted, hull, mishaps, times, causes>>

\* The pilot dies and is started again: nothing of a fold survives it.
Restart ==
    /\ fold.at # "idle" /\ mishaps < MaxMishaps
    /\ mishaps' = mishaps + 1
    /\ causes' = IF fold.at = "saving" THEN causes + 1 ELSE causes
    /\ fold' = IdleFold
    /\ UNCHANGED <<file, said, desks, accepted, hull, times>>

-----------------------------------------------------------------------------

Captain ==
    \E f \in FrontEnds :
        \/ \E w \in Words : Order(f, w)
        \/ Resume(f)
        \/ \E k \in DOMAIN file : Withdraw(f, k)
        \/ Save(f)

Exchange == (\E a \in accepted : Resolve(a)) \/ Land

Fold ==
    \/ Survey \/ LoadOrders
    \/ RefuelForHold \/ TravelToHold \/ LeaveHold
    \/ PassOver \/ AlreadyThere \/ LeaveToCaptain \/ SendOrder \/ SaveOrders
    \/ DoctrineAct \/ EndFold

Next == Captain \/ Exchange \/ Fold \/ Restart

Safe == Init /\ [][Next]_vars

\* The pilot is a loop and the exchange resolves tick by tick; the captain owes nothing.
Spec == Safe /\ WF_vars(Fold) /\ WF_vars(Exchange)

-----------------------------------------------------------------------------
(* Properties.                                                              *)

\* At most one course is pending, or the two words of one course: a travel to a berth
\* and, after it, a hold at that berth (place_order's same_berth).
OneCourse(orders) ==
    \A j, k \in DOMAIN orders :
        j < k /\ PendingCourse(orders[j]) /\ PendingCourse(orders[k]) =>
            /\ orders[j].verb = "travel" /\ orders[k].verb = "hold"
            /\ orders[j].station = orders[k].station

\* Every copy of the list there is keeps to it: the inductive form of the next property.
EveryCopyHasOneCourse ==
    /\ OneCourse(file)
    /\ \A f \in FrontEnds : OneCourse(desks[f].list)
    /\ OneCourse(fold.list)

\* The captain's latest word on where the hull goes is the only one: whatever copies of
\* the list overlap and however old they are when they are put back, orders.json never
\* holds two courses that disagree (place_order, resume).
OneCourseStands == OneCourse(file)

\* The pilot flies no superseded course: it looks for the first order that is ready, and
\* what it finds, if a travel, leads where the newest pending course stands.
FliesTheStandingCourse ==
    [][\A a \in accepted' \ accepted :
          a.verb = "travel" /\ fold.at \in {"holding", "picking"} =>
              a.station = StandingCourse(fold.list).station]_vars

\* An order reads done only if the exchange took it, or, for a travel, the hull was
\* there; a hold is never done but by the captain's word.
DoneWasFiled ==
    \A k \in DOMAIN file :
        file[k].done /\ ~file[k].waits /\ file[k].verb \notin {"travel", "resume"} =>
            times[file[k].id] > 0

\* An order goes to the exchange once, and again only for a crash between its filing and
\* the record of it, or for a front end that put back a list older than that record: an
\* error is never answered with a second filing.
FiledOnce == \A i \in Ids : times[i] <= 1 + causes

\* An order in line for the pilot: pending, without a reason to wait, and not behind a
\* ship change that holds the line.
InLine(i) ==
    \E k \in DOMAIN file :
        /\ file[k].id = i /\ Pending(file[k]) /\ ~file[k].waits
        /\ file[k].verb \notin {"hold", "board"}
        /\ ~ \E j \in 1..(k - 1) :
               file[j].verb = "board" /\ Pending(file[j]) /\ ~file[j].waits

\* No order stays in line for ever: it is filed, given its reason, ended or withdrawn,
\* whatever stands ahead of it (a hold still to be flown, a refused or denied order, a
\* hull under way), unless a ship change waits for its rendezvous ahead of it.
OrdersSettle == \A i \in Ids : InLine(i) ~> ~InLine(i)

=============================================================================
