-------------------------------- MODULE MCOutfit --------------------------------
(* A hull on the last rung but one, leased, or titled with a sister's balance, *)
(* or free of both, with a cook aboard or none.                                *)
EXTENDS Outfit

MCPrice == [f \in Fittings |-> IF f = "drive-tune" THEN 2 ELSE 1]

Delivered(perishable, paid) == [perishable |-> perishable, booked |-> 100, paid |-> paid]

\* Nothing of note; a hold that binds and pays, with decay and wear; a hold that binds and
\* does not pay.
MCEvidence ==
    {[bound |-> 0, margin |-> 0, standing |-> 0, stats |-> <<>>, watch |-> <<[tick |-> 1, bps |-> 0]>>],
     [bound |-> 5, margin |-> 140, standing |-> 8500,
      stats |-> <<Delivered(TRUE, 80), Delivered(FALSE, 85), Delivered(TRUE, 80), Delivered(TRUE, 80)>>,
      watch |-> <<[tick |-> 0, bps |-> 0], [tick |-> 1, bps |-> 200], [tick |-> 2, bps |-> 0],
                  [tick |-> 3, bps |-> 400]>>],
     [bound |-> 5, margin |-> 7, standing |-> 8500, stats |-> <<>>,
      watch |-> <<[tick |-> 0, bps |-> 0], [tick |-> 3, bps |-> 5]>>]}

MCQuotes == {{}, {[ask |-> 1, units |-> 3]}}
=============================================================================
