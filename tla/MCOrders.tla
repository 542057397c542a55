------------------------------ MODULE MCOrders ------------------------------
(* Orders with two berths, one of them with a pump.                *)
EXTENDS Orders

Word(verb, station, now) == [verb |-> verb, station |-> station, now |-> now]

\* Two courses that disagree, a hold that belongs to one of them, a docking verb, and a ship
\* change that may have to wait with any of them behind it.
MCWords == {Word("travel", "diner", TRUE), Word("travel", "yard", TRUE), Word("hold", "diner", TRUE),
            Word("repair", Nowhere, FALSE), Word("board", Nowhere, FALSE)}

MCStations == {"yard", "diner"}
MCPumps == {"yard"}

MayLackRepair == {{}, {"repair"}}
=============================================================================
