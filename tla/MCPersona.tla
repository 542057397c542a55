------------------------------ MODULE MCPersona ------------------------------
(* Two commands on one captain's computer.                                  *)
EXTENDS Persona, TLC

Commands == Permutations(Writers)
=============================================================================
