-------------------------------- MODULE Lists --------------------------------
(***************************************************************************)
(* Filtering a list, which the pilot does with the contracts and the keys  *)
(* it knows (Vec::retain, Iterator::filter).                               *)
(***************************************************************************)
EXTENDS Naturals, Sequences

\* What a list keeps of a set, in its order (SelectSeq, as a recursive function).
Only(s, S) ==
    LET kept[k \in 0..Len(s)] == IF k = 0 THEN << >>
                                 ELSE IF s[k] \in S THEN Append(kept[k - 1], s[k])
                                 ELSE kept[k - 1]
    IN  kept[Len(s)]
=============================================================================
