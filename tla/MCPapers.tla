-------------------------------- MODULE MCPapers --------------------------------
(* Two hulls of one captain, one of them flown; two desks.                     *)
EXTENDS Papers, TLC

CONSTANTS k1, k2

MCHulls == {1, 2}
MCOwn == <<k1, k2>>

\* What follows an overlap is left; three things at most happen, of commands,
\* changes of ship, signings elsewhere, keys gone off the books and failures.
Apart == /\ ~overlapped
         /\ spent.moves + spent.hauls + spent.revoked + spent.faults + spent.commands <= 3

Alike == Permutations(Desks) \cup Permutations(CoPilots)
=============================================================================
