-------------------------------- MODULE Naming --------------------------------
(***************************************************************************)
(* What the record of a computer's names promises (persona.rs, fleet.rs):  *)
(* a naming is one act, the computer never wears a name its own history    *)
(* does not hold, and no name is ever forgotten.  An interruption may note *)
(* a name that is not worn, or leave an earlier name worn.                 *)
(***************************************************************************)
EXTENDS Sequences, SequencesExt

CONSTANTS Names, Root       \* Root: the name a computer answers to before it is given one

VARIABLES worn, history

vars == <<worn, history>>

Known(n) == n = Root \/ n \in ToSet(history)

Init == worn \in Names /\ history \in {<< >>, <<worn>>} /\ Known(worn)

Give(n) == worn' = n /\ history' = Append(history, n)

Note(n) == history' = Append(history, n) /\ UNCHANGED worn

FallBack(n) == Known(n) /\ worn' = n /\ UNCHANGED history

Next == \E n \in Names : Give(n) \/ Note(n) \/ FallBack(n)

Spec == Init /\ [][Next]_vars

\* What follows from it: a worn name is in the history.
WornIsKnown == Known(worn)
=============================================================================
