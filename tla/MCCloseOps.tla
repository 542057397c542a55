----------------------------- MODULE MCCloseOps -----------------------------
(* Close fleet operations with two hulls and two berths.                    *)
EXTENDS CloseOps

\* The captain's own word: stay where you are.
MCWords == [verb : {"hold"}, to : {None}]

Docks == Permutations(Berths)
=============================================================================
