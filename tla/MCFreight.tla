----------------------------- MODULE MCFreight -----------------------------
(* Freight on one hull with two or three loads on the board: one that worlds *)
(* of either bay hold, crashed and misled once, with a captain booking once. *)
EXTENDS Freight

\* No load is told from another.
Symmetry == Permutations(Loads)
=============================================================================
