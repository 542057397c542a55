------------------------------- MODULE MCVoyage -------------------------------
(* A pump and two berths that sell none, a load from each.                   *)
EXTENDS Voyage
CONSTANTS pump, near, far, out, back, onward, home

Distance(p) == IF p[1] = p[2] THEN 0
               ELSE IF {p[1], p[2]} = {pump, near} THEN 2
               ELSE IF {p[1], p[2]} = {near, far} THEN 3 ELSE 4

MCStations == {pump, near, far}
MCPumps == {pump}
MCLoads == {out, back, onward, home}
MCOrigin == out :> pump @@ back :> far @@ onward :> near @@ home :> near
MCDest == out :> near @@ back :> pump @@ onward :> far @@ home :> pump
MCTicks == [p \in MCStations \X MCStations |-> Distance(p)]
MCFuel == [p \in MCStations \X MCStations |-> 5 * Distance(p)]
MCEconomyTicks == [p \in MCStations \X MCStations |-> Distance(p) + Distance(p) \div 2]
MCEconomyFuel == [p \in MCStations \X MCStations |-> 3 * Distance(p)]

\* What the theorem about the tank asks of the router's figures holds of these.
ASSUME StraightHere == Straight
=============================================================================
